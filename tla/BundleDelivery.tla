--------------------------- MODULE BundleDelivery ---------------------------
(***************************************************************************)
(* How a replica comes by its bundle: the long poll of the allocator       *)
(* (internal/allocator/server.go, serveBundle) and the replica's bundle    *)
(* loop (internal/allocclient/client.go), with the replies to heartbeats   *)
(* that wake the loop, requests that fail, bundles refused, and an         *)
(* allocator that starts again and has no list yet.                        *)
(*                                                                         *)
(* The handler takes the mutex for the channel of changes and again for    *)
(* the bundle; bundles change in between.                                  *)
(***************************************************************************)
EXTENDS Naturals

CONSTANTS
  NoBundle,     \* no bundle
  Generations,  \* the bundles this replica may be meant to have
  Refused,      \* those its manager refuses
  MaxChanges,   \* bound: the changes of the replica's bundle
  MaxFailures   \* bound: the requests and the writes that fail

ASSUME DeliveryAssumption ==
  /\ NoBundle \notin Generations /\ Refused \subseteq Generations
  /\ MaxChanges \in Nat /\ MaxFailures \in Nat

VARIABLES
  current,   \* what Allocator.Bundle answers for the replica
  handler,   \* where the handler of its request is
  have,      \* what the request says the replica has
  changed,   \* the channel the handler took is closed
  loop,      \* where the bundle loop is
  answer,    \* what the request was answered
  seen,      \* Client.seen
  inForce,   \* Client.inForce
  refused,   \* the generation of Client.refused
  reply,     \* the generation the reply to a heartbeat says, on its way
  wake,      \* Client.wake holds a signal
  changes,   \* how often the bundle has changed
  failures   \* how many requests and writes have failed

server == <<current, changes>>
poll   == <<handler, have, changed>>
client == <<seen, inForce, refused>>
dvars  == <<server, poll, client, loop, answer, reply, wake, failures>>

NoAnswer  == [says |-> "nothing", generation |-> NoBundle]
Bundle(g) == [says |-> "bundle", generation |-> g]
Same      == [says |-> "same", generation |-> NoBundle]
Unsettled == [says |-> "unsettled", generation |-> NoBundle]

\* The exporter starts with a bundle of its cache, or without one.
DeliveryInit ==
  /\ current = NoBundle /\ changes = 0
  /\ handler = "away" /\ have = NoBundle /\ changed = FALSE
  /\ inForce \in {NoBundle} \cup (Generations \ Refused)
  /\ seen = inForce /\ refused = NoBundle
  /\ loop = "ask" /\ answer = NoAnswer
  /\ reply = NoBundle /\ wake = FALSE /\ failures = 0

-----------------------------------------------------------------------------
(* The allocator. *)

\* The replica's bundle changes, and the channel is closed and made anew.
rebuild(g) ==
  /\ changes < MaxChanges
  /\ g # current
  /\ current' = g
  /\ changes' = changes + 1
  /\ changed' = TRUE
  /\ UNCHANGED <<handler, have, client, loop, answer, reply, wake, failures>>

\* The bundle of another replica changes: the channel is everyone's.
rebuildOther ==
  /\ ~changed
  /\ handler # "away"
  /\ changed' = TRUE
  /\ UNCHANGED <<server, handler, have, client, loop, answer, reply, wake, failures>>

\* takeChanges, but for the order: the handler looks at the bundle first.
takeChanges_Late ==
  /\ \/ /\ handler = "take"
        /\ handler' = IF current \in {NoBundle, have} THEN "looked" ELSE "read"
        /\ changed' = changed
     \/ /\ handler = "looked"
        /\ handler' = "asleep"
        /\ changed' = FALSE
  /\ UNCHANGED <<server, have, client, loop, answer, reply, wake, failures>>

takeChanges ==
  /\ handler = "take"
  /\ handler' = "read"
  /\ changed' = FALSE
  /\ UNCHANGED <<server, have, client, loop, answer, reply, wake, failures>>

\* Answers with the bundle, when the replica has not that, or waits.
readBundle ==
  /\ handler = "read"
  /\ \/ /\ current # NoBundle
        /\ current # have
        /\ handler' = "away"
        /\ answer' = Bundle(current)
     \/ /\ current \in {NoBundle, have}
        /\ handler' = "asleep"
        /\ answer' = answer
  /\ UNCHANGED <<server, have, changed, client, loop, reply, wake, failures>>

\* The wait ends: with the channel, with its time, or with the allocator's.
endWait ==
  /\ handler = "asleep"
  /\ \/ changed /\ handler' = "take"
     \/ handler' = "last"
  /\ UNCHANGED <<server, have, changed, client, loop, answer, reply, wake, failures>>

\* The last look at the bundle once the wait's time is over.
lastLook ==
  /\ handler = "last"
  /\ \/ /\ current \notin {NoBundle, have}
        /\ handler' = "take"
        /\ answer' = answer
     \/ /\ current \in {NoBundle, have}
        /\ handler' = "away"
        /\ answer' = IF current = NoBundle THEN Unsettled ELSE Same
  /\ UNCHANGED <<server, have, changed, client, loop, reply, wake, failures>>

\* The instance that answers starts again: it has no list, and its requests
\* have failed.
restart ==
  /\ changes < MaxChanges
  /\ current # NoBundle
  /\ changes' = changes + 1
  /\ current' = NoBundle
  /\ handler' = "away"
  /\ reply' = NoBundle
  /\ UNCHANGED <<have, changed, client, loop, answer, wake, failures>>

-----------------------------------------------------------------------------
(* The replica. *)

\* A request for the bundle, naming the last seen.
fetch ==
  /\ loop = "ask"
  /\ loop' = "asked"
  /\ handler' = "take"
  /\ have' = seen
  /\ changed' = FALSE
  /\ answer' = NoAnswer
  /\ UNCHANGED <<server, client, reply, wake, failures>>

\* The request fails: its connection, its time, or what was answered.
fetchFails ==
  /\ loop = "asked"
  /\ \/ failures < MaxFailures
     \/ handler = "away" /\ answer = NoAnswer
  /\ failures' = IF handler = "away" /\ answer = NoAnswer THEN failures ELSE failures + 1
  /\ loop' = "backoff"
  /\ handler' = "away"
  /\ answer' = NoAnswer
  /\ wake' = FALSE
  /\ UNCHANGED <<server, have, changed, client, reply>>

\* An answer that brings no new bundle: the loop waits, unless the answer took
\* its time.  A wake before the answer is older than it.
unchanged ==
  /\ loop = "asked"
  /\ \/ /\ answer = Unsettled
        /\ loop' = "wait"
     \/ /\ \/ answer = Same
           \/ answer.says = "bundle" /\ answer.generation \in {seen, inForce}
        /\ loop' \in {"wait", "ask"}
  /\ wake' = FALSE
  /\ answer' = NoAnswer
  /\ UNCHANGED <<server, poll, client, reply, failures>>

\* A new bundle is written and reloaded, which takes its time.
apply ==
  /\ loop = "asked"
  /\ answer.says = "bundle"
  /\ answer.generation \notin {seen, inForce}
  /\ loop' = "applying"
  /\ UNCHANGED <<server, poll, client, answer, reply, wake, failures>>

\* What the loop knows of a bundle it could not write: it was seen.
Unwritten_Seen == seen' = answer.generation /\ UNCHANGED <<inForce, refused>>

\* What the loop knows of a bundle it could not write: nothing.
Unwritten == UNCHANGED client

\* The bundle cannot be written.
applyFails ==
  /\ loop = "applying"
  /\ failures < MaxFailures
  /\ failures' = failures + 1
  /\ loop' = "backoff"
  /\ wake' = FALSE
  /\ answer' = NoAnswer
  /\ Unwritten
  /\ UNCHANGED <<server, poll, reply>>

\* The reload has returned: the bundle is in force, or refused.
applied ==
  /\ loop = "applying"
  /\ seen' = answer.generation
  /\ \/ /\ answer.generation \in Refused
        /\ refused' = answer.generation
        /\ inForce' = inForce
     \/ /\ answer.generation \notin Refused
        /\ refused' = NoBundle
        /\ inForce' = answer.generation
  /\ loop' = "ask"
  /\ wake' = FALSE
  /\ answer' = NoAnswer
  /\ UNCHANGED <<server, poll, reply, failures>>

\* A wait ends: with its time, or cut short, but a backoff is not.
waited ==
  /\ \/ loop \in {"wait", "backoff"} /\ wake' = wake
     \/ loop = "wait" /\ wake /\ wake' = FALSE
  /\ loop' = "ask"
  /\ UNCHANGED <<server, poll, client, answer, reply, failures>>

\* A heartbeat is answered with the generation the replica is to have.
replyLocked ==
  /\ reply = NoBundle
  /\ current # NoBundle
  /\ reply' = current
  /\ UNCHANGED <<server, poll, client, loop, answer, wake, failures>>

\* The reply is in: news wakes the loop.
heartbeatReply ==
  /\ reply # NoBundle
  /\ reply' = NoBundle
  /\ wake' = (wake \/ reply \notin {seen, inForce})
  /\ UNCHANGED <<server, poll, client, loop, answer, failures>>

DeliveryNext ==
  \/ \E g \in Generations : rebuild(g)
  \/ rebuildOther \/ restart
  \/ takeChanges \/ readBundle \/ endWait \/ lastLook
  \/ fetch \/ fetchFails \/ unchanged \/ apply \/ applyFails \/ applied
  \/ waited \/ replyLocked \/ heartbeatReply

DeliverySpec == DeliveryInit /\ [][DeliveryNext]_dvars

\* The handler and the loop take their steps, and waits have an end.
DeliveryFairness ==
  /\ WF_dvars(takeChanges \/ readBundle \/ endWait \/ lastLook)
  /\ WF_dvars(fetch \/ unchanged \/ apply \/ applied \/ waited)
  /\ WF_dvars(handler = "away" /\ answer = NoAnswer /\ fetchFails)

-----------------------------------------------------------------------------
(* Properties. *)

\* Part of NoChangeMissed: every variable has its type, there is an answer only
\* for a request made, and the handler is busy only with one.
DeliveryTypeOK ==
  /\ {current, have, seen, inForce, refused, reply} \subseteq Generations \cup {NoBundle}
  /\ handler \in {"away", "take", "read", "asleep", "last"}
  /\ loop \in {"ask", "asked", "applying", "wait", "backoff"}
  /\ answer \in {NoAnswer, Same, Unsettled} \cup {Bundle(g) : g \in Generations}
  /\ changed \in BOOLEAN /\ wake \in BOOLEAN
  /\ changes \in 0 .. MaxChanges /\ failures \in 0 .. MaxFailures
  /\ handler # "away" => loop = "asked" /\ answer = NoAnswer
  /\ answer # NoAnswer => loop \in {"asked", "applying"}

\* No change is slept through: a request that waits on a channel nobody has
\* closed is for the bundle the allocator still has, or for none yet, whenever
\* the bundle changed between its two looks at the allocator.
NoChangeMissed ==
  /\ DeliveryTypeOK
  /\ handler = "asleep" /\ ~changed => current \in {NoBundle, have}

\* A refusal is reported for exactly as long as the last bundle fetched is not
\* the one in force: not lost by a request that fails or by an allocator that
\* goes back to the bundle in force, and not kept once a bundle is.
RefusalKept ==
  IF seen = inForce THEN refused = NoBundle ELSE refused = seen /\ refused \in Refused

\* Once its bundle stops changing, the replica has it in force or has refused
\* it, however the bundles before it were refused, taken back or not written.
Delivered ==
  <>[](\/ current = NoBundle
       \/ inForce = current
       \/ current \in Refused /\ refused = current)

=============================================================================
