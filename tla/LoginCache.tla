------------------------------ MODULE LoginCache ------------------------------
(***************************************************************************)
(* The token a collector's login gives (internal/fetch/login.go), kept     *)
(* under one key for the requests that send it: the login that fetches it, *)
(* made once for all who ask meanwhile and apart from each of them; the    *)
(* token a target refuses, fetched again once for a request; the entries   *)
(* that are dropped to make room and by reloads; and what is counted.      *)
(*                                                                         *)
(* An entry of the cache is told by the first login that was made for it,  *)
(* and a token by the login that gave it.  Times are told apart as those   *)
(* before a token is fetched again, before it expires, and after.          *)
(***************************************************************************)
EXTENDS Integers, FiniteSets, Functions

CONSTANTS
  Requests,    \* the requests under way at a time
  MaxLogins,   \* bound: the logins
  MaxFollows   \* bound: the reloads that change the collector or its login

ASSUME LoginAssumption ==
  IsFiniteSet(Requests) /\ {MaxLogins, MaxFollows} \subseteq Nat

VARIABLES
  login,     \* loginCall, of the logins under way: its entry, and if counted
  begun,     \* how many were begun
  entry,     \* loginEntry, as [value, life, call], kept or of a login under way
  kept,      \* the entry under the key, or NoLogin
  asker,     \* what each request is doing
  counted,   \* the logins counted as made and as failed
  collector, \* has the cache's collector the login, another one, or is it gone
  follows,   \* how many reloads there were
  refused,   \* the tokens that targets refused
  dropped    \* the entries that reloads dropped

lvars == <<login, begun, entry, kept, asker, counted, collector, follows, refused, dropped>>

NoLogin   == 0
Uncounted == [made |-> 0, failed |-> 0]
NoToken   == [value |-> NoLogin, life |-> "fresh", call |-> NoLogin]
Fetched   == [at |-> "done", call |-> NoLogin, value |-> NoLogin, renewed |-> FALSE,
              debug |-> FALSE, knew |-> {}]

LoginInit ==
  /\ login = <<>> /\ begun = 0 /\ entry = <<>>
  /\ kept = NoLogin
  /\ asker = [q \in Requests |-> Fetched]
  /\ counted = Uncounted /\ collector = "has" /\ follows = 0
  /\ refused = {} /\ dropped = {}

-----------------------------------------------------------------------------
(* A request. *)

\* A trip whose request makes the login, a debug run or not.
ask(q) ==
  /\ asker[q].at = "done" /\ collector = "has"
  /\ \E debug \in BOOLEAN :
       asker' = [asker EXCEPT ![q] = [Fetched EXCEPT !.at = "asks", !.debug = debug]]
  /\ UNCHANGED <<login, begun, entry, kept, counted, collector, follows, refused, dropped>>

\* The token kept is fresh.
Fresh(e) == entry[e].value # NoLogin /\ entry[e].life = "fresh"

\* The request is given a token, or waits for the login that fetches it.
Sends(q, value) == [asker EXCEPT ![q].at = "sends", ![q].value = value, ![q].knew = refused]
WaitsFor(q, n)  == [asker EXCEPT ![q].at = "waits", ![q].call = n, ![q].knew = refused]

\* get, of a request that finds the token kept fresh, ...
getKept(q) ==
  /\ asker[q].at = "asks" /\ kept # NoLogin /\ Fresh(kept)
  /\ asker' = Sends(q, entry[kept].value)
  /\ UNCHANGED <<login, begun, entry, kept, counted, collector, follows, refused, dropped>>

\* ... of one that finds the login being made, which it counts when it is the
\* first that is no debug run's, ...
getJoining(q) ==
  LET n == entry[kept].call
      counts == ~asker[q].debug /\ ~login[n].counted
  IN
  /\ asker[q].at = "asks" /\ kept # NoLogin /\ ~Fresh(kept) /\ n # NoLogin
  /\ asker' = WaitsFor(q, n)
  /\ login' = [login EXCEPT ![n].counted = @ \/ counts]
  /\ counted' = [counted EXCEPT !.made = IF counts THEN @ + 1 ELSE @]
  /\ UNCHANGED <<begun, entry, kept, collector, follows, refused, dropped>>

\* A function changed or extended at one place.
Put(f, at, value) == [x \in DOMAIN f \cup {at} |-> IF x = at THEN value ELSE f[x]]

\* ... and of one that begins it, of a new entry when there is none.
getBeginning(q) ==
  LET n == begun + 1
      e == IF kept = NoLogin THEN n ELSE kept
  IN
  /\ asker[q].at = "asks" /\ n <= MaxLogins
  /\ kept # NoLogin => ~Fresh(kept) /\ entry[kept].call = NoLogin
  /\ begun' = n /\ kept' = e
  /\ entry' = Put(entry, e, [(IF kept = NoLogin THEN NoToken ELSE entry[e]) EXCEPT !.call = n])
  /\ login' = Put(login, n, [of |-> e, counted |-> ~asker[q].debug])
  /\ counted' = [counted EXCEPT !.made = IF asker[q].debug THEN @ ELSE @ + 1]
  /\ asker' = WaitsFor(q, n)
  /\ UNCHANGED <<collector, follows, refused, dropped>>

\* The request's deadline comes before the login is done.
giveUp(q) ==
  /\ asker[q].at = "waits"
  /\ asker' = [asker EXCEPT ![q] = Fetched]
  /\ UNCHANGED <<login, begun, entry, kept, counted, collector, follows, refused, dropped>>

Invalidated_Due(used) ==
  IF kept # NoLogin /\ entry[kept].value = used
    THEN [entry EXCEPT ![kept].life = "due"]
    ELSE entry

\* invalidate: the entry's token is dropped when it is the one refused.
Invalidated(used) ==
  IF kept # NoLogin /\ entry[kept].value = used
    THEN [entry EXCEPT ![kept].value = NoLogin, ![kept].life = "fresh"]
    ELSE entry

\* again: the target refuses the request's token, which asks for another
\* once; or answers.
again(q) ==
  /\ asker[q].at = "sends" /\ ~asker[q].renewed
  /\ refused' = refused \cup {asker[q].value}
  /\ entry' = Invalidated(asker[q].value)
  /\ asker' = [asker EXCEPT ![q] = [Fetched EXCEPT !.at = "asks", !.renewed = TRUE, !.debug = asker[q].debug]]
  /\ UNCHANGED <<login, begun, kept, counted, collector, follows, dropped>>

answered(q) ==
  /\ asker[q].at = "sends"
  /\ asker' = [asker EXCEPT ![q] = Fetched]
  /\ UNCHANGED <<login, begun, entry, kept, counted, collector, follows, refused, dropped>>

-----------------------------------------------------------------------------
(* A login, and what befalls the entry. *)

\* The entries that are kept, or of which a login is under way.
Left(entries, k) ==
  Restrict(entries, {e \in DOMAIN entries : e = k \/ entries[e].call # NoLogin})

\* A login is done: those who wait for it are given a token, or its error.
Done(n, value) ==
  /\ login' = Restrict(login, DOMAIN login \ {n})
  /\ asker' = [q \in Requests |->
                 IF asker[q].at # "waits" \/ asker[q].call # n THEN asker[q]
                 ELSE IF value = NoLogin THEN Fetched
                 ELSE [asker[q] EXCEPT !.at = "sends", !.value = value, !.call = NoLogin]]
  /\ UNCHANGED <<begun, kept, collector, follows, refused, dropped>>

\* finish, of a login that gave a token, ...
finishToken(n) ==
  /\ Done(n, n)
  /\ entry' = Left([entry EXCEPT ![login[n].of] =
                      [value |-> n, life |-> "fresh", call |-> NoLogin]], kept)
  /\ UNCHANGED counted

\* ... and of one that failed, which leaves those waiting the token kept
\* until it expires, and is counted while the collector has counts.
finishFailed(n) ==
  LET e == login[n].of
  IN
  /\ Done(n, IF entry[e].life = "expired" THEN NoLogin ELSE entry[e].value)
  /\ entry' = Left([entry EXCEPT ![e].call = NoLogin], kept)
  /\ counted' = [counted EXCEPT !.failed =
                   IF counted.made > 0 /\ login[n].counted THEN @ + 1 ELSE @]

\* A token's time comes to be fetched again, and to expire.
age(e) ==
  /\ entry[e].value # NoLogin /\ entry[e].life # "expired"
  /\ entry' = [entry EXCEPT ![e].life = IF @ = "fresh" THEN "due" ELSE "expired"]
  /\ UNCHANGED <<login, begun, kept, asker, counted, collector, follows, refused, dropped>>

evict_Any ==
  /\ kept # NoLogin
  /\ kept' = NoLogin /\ entry' = Left(entry, NoLogin)
  /\ UNCHANGED <<login, begun, asker, counted, collector, follows, refused, dropped>>

\* evictLocked, for a login under another key: no entry a login is made for.
evict ==
  /\ kept # NoLogin /\ entry[kept].call = NoLogin
  /\ kept' = NoLogin /\ entry' = Left(entry, NoLogin)
  /\ UNCHANGED <<login, begun, asker, counted, collector, follows, refused, dropped>>

\* follow: the entry goes with the login, and the counts with the collector.
follow(to) ==
  /\ to # collector /\ follows < MaxFollows
  /\ collector' = to /\ follows' = follows + 1
  /\ kept' = IF to = "has" THEN kept ELSE NoLogin
  /\ entry' = Left(entry, kept')
  /\ dropped' = (dropped \cup ({kept} \ {kept'})) \cap DOMAIN entry'
  /\ counted' = IF to = "gone" THEN Uncounted ELSE counted
  /\ UNCHANGED <<login, begun, asker, refused>>

LoginNext ==
  \/ \E q \in Requests :
       ask(q) \/ getKept(q) \/ getJoining(q) \/ getBeginning(q) \/ giveUp(q) \/ again(q) \/ answered(q)
  \/ \E n \in DOMAIN login : finishToken(n) \/ finishFailed(n)
  \/ \E e \in DOMAIN entry : age(e)
  \/ evict \/ \E to \in {"has", "another", "gone"} : follow(to)

LoginSpec == LoginInit /\ [][LoginNext]_lvars

-----------------------------------------------------------------------------
(* What must hold. *)

\* Part of TokensShared: a request is never given a token that a target had refused when it asked.
RefusedNotGiven ==
  \A q \in Requests : asker[q].at = "sends" => asker[q].value \notin asker[q].knew

\* Part of TokensShared: one login is made at a time, but for those of entries
\* that reloads dropped, and it ends for those who wait.
OneLogin ==
  /\ Cardinality({n \in DOMAIN login : login[n].of \notin dropped}) <= 1
  /\ \A n \in DOMAIN login : entry[login[n].of].call = n
  /\ \A q \in Requests : asker[q].at = "waits" => asker[q].call \in DOMAIN login

\* Requests share one login and the token it brings, unless a target has
\* refused that.
TokensShared == OneLogin /\ RefusedNotGiven

\* Of the logins counted as made, some are counted as failed.
FailedWereMade == counted.failed <= counted.made

=============================================================================
