----------------------------- MODULE TripLimiter -----------------------------
(***************************************************************************)
(* The slots that bound the trips to targets in progress                   *)
(* (internal/exporter/triplimit.go): so many for each collector, and so    *)
(* many for the exporter.  A probe that finds none free is refused; a      *)
(* static target scrape waits in line until one is handed to it or its     *)
(* context ends.                                                           *)
(*                                                                         *)
(* What runs under the limiter's mutex is one action.  A scrape in line    *)
(* waits outside it: its slot may be handed to it, and its context end, in *)
(* either order before it looks (Proceed, GiveUp), and it then takes the   *)
(* mutex again (Leave).  A reload changes max_concurrent_probes, and each  *)
(* trip brings the limit it read.                                          *)
(***************************************************************************)
EXTENDS Integers, FiniteSets

CONSTANTS
  Collectors,
  Scrapes,          \* static target scrapes, which wait for a slot
  Probes,           \* probes, which do not
  CollectorOf(_),   \* the collector of a trip
  LimitsOf(_),      \* the limits of a collector, one reload and the next
  Ceiling           \* tripLimiter.ceiling, 0 for none

Trips == Scrapes \cup Probes

ASSUME LimiterAssumption ==
  /\ \A t \in Trips : CollectorOf(t) \in Collectors
  /\ \A c \in Collectors : LimitsOf(c) \subseteq Nat \ {0}
  /\ Ceiling \in Nat
  /\ IsFiniteSet(Trips) /\ Scrapes \cap Probes = {}

VARIABLES
  inFlight,   \* the slots of each collector that are taken
  total,      \* those of all of them
  waiting,    \* the scrapes in line
  ahead,      \* of each of them, those that were before it and still are
  granted,    \* the scrapes a slot was taken for that have not seen it yet
  at,         \* where each trip is
  limit,      \* the limit it read
  expired     \* the scrapes whose context has ended

line == <<waiting, ahead>>
vars == <<inFlight, total, line, granted, at, limit, expired>>

-----------------------------------------------------------------------------

\* No slot is free for a collector with `of' trips, of `all' there are.
fullLocked(max, of, all) == of >= max \/ (Ceiling > 0 /\ all >= Ceiling)

Full(t, max) == fullLocked(max, inFlight[CollectorOf(t)], total)

\* The slots that the scrapes P take of collector c.
TakenBy(P, c) == Cardinality({t \in P : CollectorOf(t) = c})

\* Served, but for the order of the line.
Served_Newest(P, of, all) ==
  \A t \in waiting :
    LET first == {s \in P : t \in ahead[s]}
        c     == CollectorOf(t)
    IN  t \in P <=> ~fullLocked(limit[t], of[c] + TakenBy(first, c), all + Cardinality(first))

\* The scrapes of the line that are served when it is gone through in order,
\* each by what those served before it have left.
Served(P, of, all) ==
  \A t \in waiting :
    LET first == P \cap ahead[t]
        c     == CollectorOf(t)
    IN  t \in P <=> ~fullLocked(limit[t], of[c] + TakenBy(first, c), all + Cardinality(first))

\* Scrapes are out of the line.
outOfLine(gone) ==
  /\ waiting' = waiting \ gone
  /\ ahead' = [t \in Scrapes |-> IF t \in gone THEN {} ELSE ahead[t] \ gone]

\* Gives a slot of collector c back, and hands what is then free to the
\* scrapes in line (grantLocked).
releaseLocked(c) ==
  LET of  == [inFlight EXCEPT ![c] = IF @ > 1 THEN @ - 1 ELSE 0]
      all == total - 1
  IN  \E P \in SUBSET waiting :
        /\ Served(P, of, all)
        /\ inFlight' = [d \in Collectors |-> of[d] + TakenBy(P, d)]
        /\ total' = all + Cardinality(P)
        /\ granted' = P \cup {t \in granted : at'[t] # "idle"}
        /\ outOfLine(P)

takeLocked(c) ==
  /\ inFlight' = [inFlight EXCEPT ![c] = @ + 1]
  /\ total' = total + 1

-----------------------------------------------------------------------------

\* A probe takes a slot that is free, or is refused, which changes nothing.
tryAcquire(t) ==
  /\ t \in Probes /\ at[t] = "idle"
  /\ \E max \in LimitsOf(CollectorOf(t)) :
       /\ ~Full(t, max)
       /\ limit' = [limit EXCEPT ![t] = max]
  /\ at' = [at EXCEPT ![t] = "running"]
  /\ takeLocked(CollectorOf(t))
  /\ UNCHANGED <<line, granted, expired>>

\* A scrape takes a slot that is free, whoever is in line, or joins the line.
acquire(t) ==
  /\ t \in Scrapes /\ at[t] = "idle"
  /\ \E max \in LimitsOf(CollectorOf(t)) :
       /\ limit' = [limit EXCEPT ![t] = max]
       /\ \/ /\ ~Full(t, max)
             /\ at' = [at EXCEPT ![t] = "running"]
             /\ takeLocked(CollectorOf(t))
             /\ UNCHANGED line
          \/ /\ Full(t, max)
             /\ at' = [at EXCEPT ![t] = "waiting"]
             /\ waiting' = waiting \cup {t}
             /\ ahead' = [ahead EXCEPT ![t] = waiting]
             /\ UNCHANGED <<inFlight, total>>
  /\ UNCHANGED <<granted, expired>>

\* The context of a scrape ends: its budget, or the exporter's shutdown.
ContextEnds(t) ==
  /\ at[t] = "waiting" /\ t \notin expired
  /\ expired' = expired \cup {t}
  /\ UNCHANGED <<inFlight, total, line, granted, at, limit>>

\* A scrape in line sees the slot handed to it.
Proceed(t) ==
  /\ at[t] = "waiting" /\ t \in granted
  /\ at' = [at EXCEPT ![t] = "running"]
  /\ granted' = granted \ {t}
  /\ expired' = expired \ {t}
  /\ UNCHANGED <<inFlight, total, line, limit>>

\* A scrape in line sees its context ended, and is on its way to the mutex.
GiveUp(t) ==
  /\ at[t] = "waiting" /\ t \in expired
  /\ at' = [at EXCEPT ![t] = "leaving"]
  /\ UNCHANGED <<inFlight, total, line, granted, limit, expired>>

\* Leave, but for the slot handed over meanwhile.
Leave_Keeping(t) ==
  /\ at[t] = "leaving"
  /\ at' = [at EXCEPT ![t] = "idle"]
  /\ expired' = expired \ {t}
  /\ granted' = granted \ {t}
  /\ outOfLine({t})
  /\ UNCHANGED <<inFlight, total, limit>>

\* It leaves the line, or gives back the slot handed to it meanwhile.
Leave(t) ==
  /\ at[t] = "leaving"
  /\ at' = [at EXCEPT ![t] = "idle"]
  /\ expired' = expired \ {t}
  /\ UNCHANGED limit
  /\ \/ t \in granted /\ releaseLocked(CollectorOf(t))
     \/ /\ t \notin granted
        /\ outOfLine({t})
        /\ UNCHANGED <<inFlight, total, granted>>

\* A trip ends, however it does: the release is deferred.
release(t) ==
  /\ at[t] = "running"
  /\ at' = [at EXCEPT ![t] = "idle"]
  /\ UNCHANGED <<limit, expired>>
  /\ releaseLocked(CollectorOf(t))

-----------------------------------------------------------------------------

Init ==
  /\ inFlight = [c \in Collectors |-> 0] /\ total = 0
  /\ waiting = {} /\ ahead = [t \in Scrapes |-> {}] /\ granted = {} /\ expired = {}
  /\ at = [t \in Trips |-> "idle"]
  /\ limit = [t \in Trips |-> 0]

Next ==
  \/ \E t \in Probes : tryAcquire(t)
  \/ \E t \in Scrapes : \/ acquire(t) \/ ContextEnds(t) \/ Proceed(t)
                        \/ GiveUp(t) \/ Leave(t)
  \/ \E t \in Trips : release(t)

Spec == Init /\ [][Next]_vars

\* Every trip ends, since its requests have timeouts, and a goroutine that may
\* run does.  Nothing is assumed of contexts, nor of trips that begin.
Fairness ==
  /\ \A t \in Trips : WF_vars(release(t))
  /\ \A t \in Scrapes : WF_vars(Proceed(t)) /\ WF_vars(Leave(t))

FairSpec == Spec /\ Fairness

-----------------------------------------------------------------------------
(* Properties. *)

\* The trips that hold a slot, the one handed to them unseen included.
Holding == {t \in Trips : at[t] = "running" \/ t \in granted}
Holders(c) == {t \in Holding : CollectorOf(t) = c}

TypeOK ==
  /\ inFlight \in [Collectors -> Nat] /\ total \in Nat
  /\ at \in [Trips -> {"idle", "waiting", "leaving", "running"}]
  /\ waiting \subseteq Scrapes /\ ahead \in [Scrapes -> SUBSET Scrapes]
  /\ granted \subseteq Scrapes
  /\ limit \in [Trips -> Nat] /\ expired \subseteq Scrapes

\* No slot is lost and none counted twice, a scrape whose context ends as a
\* slot is handed to it included: what is counted is what trips hold.
SlotsCounted ==
  /\ \A c \in Collectors : inFlight[c] = Cardinality(Holders(c))
  /\ total = Cardinality(Holding)

\* Those in line are those that wait and have been handed nothing, and of two
\* of them one is before the other.
LineHeld ==
  /\ waiting = {t \in Trips : at[t] \in {"waiting", "leaving"}} \ granted
  /\ \A t \in waiting :
       /\ ahead[t] \subseteq waiting \ {t}
       /\ \A s \in waiting \ {t} : s \in ahead[t] <=> t \notin ahead[s]
       /\ \A s \in ahead[t] : ahead[s] \subseteq ahead[t]

\* Nobody waits for a slot that is free: no release is missed by the line,
\* though some wait for a collector's slot and some for one of the exporter's.
NoneLeftWaiting == \A t \in waiting : Full(t, limit[t])

\* There are never more trips than the exporter may make, nor of a collector
\* than the limit one of them read: a reload that lowers it ends none, but
\* lets none begin over it.
LimitKept ==
  /\ Ceiling > 0 => total <= Ceiling
  /\ \A c \in Collectors :
       inFlight[c] > 0 => \E t \in Holders(c) : inFlight[c] <= limit[t]

\* Slots are counted as trips hold them and within the limits, and the line
\* holds whom it has to and nobody it need not.
SlotsServed == TypeOK /\ SlotsCounted /\ LimitKept /\ LineHeld /\ NoneLeftWaiting

\* A scrape in line that read the highest limit gets a slot unless its context
\* ends, however many probes and scrapes come after it and whatever a reload
\* lowers the limit to: those in line under a lower limit do not hold it up.
WaiterServed ==
  \A t \in Scrapes :
    at[t] = "waiting" /\ (\A max \in LimitsOf(CollectorOf(t)) : limit[t] >= max)
      ~> at[t] = "running" \/ t \in expired

=============================================================================
