--------------------------- MODULE ConnectionsProofs ---------------------------
(***************************************************************************)
(* What the login cache and the pools of sql connections promise for any   *)
(* number of requests, logins and reloads, and for any databases, scrapes  *)
(* and limits.                                                             *)
(***************************************************************************)
EXTENDS SQLConnections, LoginCache, CountingLemmas

-----------------------------------------------------------------------------
(* The login of a collector. *)

Lives  == {"fresh", "due", "expired"}
Askers == [at : {"done", "asks", "waits", "sends"}, call : Nat, value : Nat,
           renewed : BOOLEAN, debug : BOOLEAN, knew : SUBSET Nat]

\* What the variables hold: a token kept or given is one of a login that is over.
LoginsTyped ==
  /\ begun \in Nat
  /\ DOMAIN login \subseteq 1..begun /\ DOMAIN entry \subseteq 1..begun
  /\ login \in [DOMAIN login -> [of : DOMAIN entry, counted : BOOLEAN]]
  /\ entry \in [DOMAIN entry -> [value : (0..begun) \ DOMAIN login, life : Lives, call : Nat]]
  /\ kept \in {NoLogin} \cup DOMAIN entry
  /\ refused \subseteq (1..begun) \ DOMAIN login

AskersTyped ==
  /\ asker \in [Requests -> Askers]
  /\ \A q \in Requests :
       /\ asker[q].at = "sends" => asker[q].value \in (1..begun) \ DOMAIN login
       /\ asker[q].knew \subseteq refused

\* A login and the entry it is made for know each other, and a request waits
\* for a login that is under way.
CallsMatch ==
  /\ \A n \in DOMAIN login : entry[login[n].of].call = n
  /\ \A e \in DOMAIN entry :
       entry[e].call # NoLogin => entry[e].call \in DOMAIN login /\ login[entry[e].call].of = e
  /\ \A q \in Requests : asker[q].at = "waits" => asker[q].call \in DOMAIN login

\* An entry that is not kept is one that a reload dropped.
KeptOrDropped == \A e \in DOMAIN entry : e = kept \/ e \in dropped

\* No token kept is refused, and none that a request waiting would be left with
\* was when it asked.
NoneRefused ==
  /\ kept # NoLogin => entry[kept].value \notin refused
  /\ \A q \in Requests :
       asker[q].at = "waits" => entry[login[asker[q].call].of].value \notin asker[q].knew

LoginInv ==
  LoginsTyped /\ AskersTyped /\ CallsMatch /\ KeptOrDropped /\ NoneRefused /\ RefusedNotGiven

\* The invariant holds one login for the entry kept, and none for the others
\* but for those dropped.
LEMMA OneLoginHeld == LoginInv => TokensShared
<1> SUFFICES ASSUME LoginInv PROVE TokensShared
  OBVIOUS
<1> DEFINE L == {n \in DOMAIN login : login[n].of \notin dropped}
<1>1. L \subseteq {entry[kept].call}
  BY DEF LoginInv, LoginsTyped, CallsMatch, KeptOrDropped
<1>2. Cardinality(L) <= 1
  <2>1. L = {} \/ L = {entry[kept].call}
    BY <1>1
  <2>2. Cardinality({}) = 0 /\ Cardinality({entry[kept].call}) = 1
    BY FS_EmptySet, FS_Singleton
  <2> HIDE DEF L
  <2>3. Cardinality(L) = 0 \/ Cardinality(L) = 1
    BY <2>1, <2>2
  <2> QED BY <2>3
<1> QED BY <1>2 DEF TokensShared, OneLogin, LoginInv, CallsMatch

LEMMA LoginInitInv == LoginInit => LoginInv
<1> SUFFICES ASSUME LoginInit PROVE LoginInv
  OBVIOUS
<1>1. DOMAIN login = {} /\ DOMAIN entry = {}
  BY DEF LoginInit
<1>2. Fetched \in Askers /\ Fetched.at = "done" /\ Fetched.knew = {}
  BY DEF Fetched, Askers, NoLogin
<1>3. LoginsTyped
  BY <1>1 DEF LoginInit, LoginsTyped, NoLogin
<1>4. AskersTyped
  BY <1>2 DEF LoginInit, AskersTyped
<1> QED BY <1>1, <1>2, <1>3, <1>4
        DEF LoginInit, LoginInv, CallsMatch, KeptOrDropped, NoneRefused, RefusedNotGiven

\* What a request has that is given a token, or waits for one.
LEMMA Given ==
  ASSUME asker \in [Requests -> Askers], refused \in SUBSET Nat, NEW q \in Requests, NEW n \in Nat
  PROVE  /\ Sends(q, n) \in [Requests -> Askers] /\ WaitsFor(q, n) \in [Requests -> Askers]
         /\ \A r \in Requests : r # q => Sends(q, n)[r] = asker[r] /\ WaitsFor(q, n)[r] = asker[r]
         /\ Sends(q, n)[q].at = "sends" /\ Sends(q, n)[q].value = n /\ Sends(q, n)[q].knew = refused
         /\ WaitsFor(q, n)[q].at = "waits" /\ WaitsFor(q, n)[q].call = n
         /\ WaitsFor(q, n)[q].knew = refused
<1> DEFINE to   == [asker EXCEPT ![q].at = "sends", ![q].value = n, ![q].knew = refused]
           wait == [asker EXCEPT ![q].at = "waits", ![q].call = n, ![q].knew = refused]
<1>1. asker[q] \in Askers
  OBVIOUS
<1>2. /\ DOMAIN to = Requests /\ to[q] \in Askers /\ to[q].at = "sends" /\ to[q].value = n
      /\ to[q].knew = refused /\ \A r \in Requests : r # q => to[r] = asker[r]
  BY <1>1 DEF Askers
<1>3. /\ DOMAIN wait = Requests /\ wait[q] \in Askers /\ wait[q].at = "waits" /\ wait[q].call = n
      /\ wait[q].knew = refused /\ \A r \in Requests : r # q => wait[r] = asker[r]
  BY <1>1 DEF Askers
<1>4. to = Sends(q, n) /\ wait = WaitsFor(q, n)
  BY DEF Sends, WaitsFor
<1>5. to \in [Requests -> Askers] /\ wait \in [Requests -> Askers]
  BY <1>2, <1>3
<1> HIDE DEF to, wait
<1> QED BY <1>2, <1>3, <1>4, <1>5

\* A request that asks, gives up or is answered.
LEMMA AskingKeepsInv ==
  ASSUME LoginInv, NEW q \in Requests, ask(q) \/ giveUp(q) \/ answered(q)
  PROVE  LoginInv'
<1>1. UNCHANGED <<login, begun, entry, kept, refused, dropped>>
  BY DEF ask, giveUp, answered
<1>2. /\ asker' \in [Requests -> Askers]
      /\ asker'[q].at \in {"done", "asks"} /\ asker'[q].knew = {}
      /\ \A r \in Requests : r # q => asker'[r] = asker[r]
  <2>1. asker \in [Requests -> Askers]
    BY DEF LoginInv, AskersTyped
  <2>2. Fetched \in Askers /\ Fetched.at = "done" /\ Fetched.knew = {}
    BY DEF Fetched, Askers, NoLogin
  <2>3. CASE ask(q)
    <3>1. PICK debug \in BOOLEAN :
            asker' = [asker EXCEPT ![q] = [Fetched EXCEPT !.at = "asks", !.debug = debug]]
      BY <2>3 DEF ask
    <3> DEFINE st == [Fetched EXCEPT !.at = "asks", !.debug = debug]
    <3>2. st \in Askers /\ st.at = "asks" /\ st.knew = {}
      BY <2>2 DEF Askers
    <3>3. asker' = [asker EXCEPT ![q] = st]
      BY <3>1
    <3> HIDE DEF st
    <3> QED BY <2>1, <3>2, <3>3
  <2>4. CASE asker' = [asker EXCEPT ![q] = Fetched]
    BY <2>1, <2>2, <2>4
  <2> QED BY <2>3, <2>4 DEF giveUp, answered
<1>3. AskersTyped'
  BY <1>1, <1>2 DEF LoginInv, AskersTyped
<1>4. \A r \in Requests :
        asker'[r].at \in {"waits", "sends"} => asker'[r] = asker[r]
  BY <1>2
<1>5. LoginsTyped' /\ KeptOrDropped'
  BY <1>1 DEF LoginInv, LoginsTyped, KeptOrDropped
<1>6. CallsMatch'
  BY <1>1, <1>4 DEF LoginInv, CallsMatch
<1>7. NoneRefused' /\ RefusedNotGiven'
  BY <1>1, <1>4 DEF LoginInv, NoneRefused, RefusedNotGiven
<1> QED BY <1>3, <1>5, <1>6, <1>7 DEF LoginInv

\* A request that finds the token kept, or the login being made.
LEMMA GetKeepsInv ==
  ASSUME LoginInv, NEW q \in Requests, getKept(q) \/ getJoining(q)
  PROVE  LoginInv'
<1> USE DEF LoginInv
<1>1. UNCHANGED <<begun, entry, kept, refused, dropped>> /\ kept # NoLogin
  BY DEF getKept, getJoining
<1>2. /\ DOMAIN login' = DOMAIN login
      /\ \A n \in DOMAIN login : login'[n].of = login[n].of
      /\ login' \in [DOMAIN login -> [of : DOMAIN entry, counted : BOOLEAN]]
  <2>1. CASE getKept(q)
    BY <2>1 DEF getKept, LoginsTyped
  <2>2. CASE getJoining(q)
    <3> DEFINE n == entry[kept].call
    <3>1. n \in DOMAIN login /\ asker[q] \in Askers
      BY <2>2 DEF getJoining, LoginsTyped, CallsMatch, AskersTyped
    <3>2. login' = [login EXCEPT ![n].counted = @ \/ (~asker[q].debug /\ ~login[n].counted)]
      BY <2>2 DEF getJoining
    <3>3. login[n].of \in DOMAIN entry /\ login'[n].counted \in BOOLEAN
      BY <3>1, <3>2 DEF LoginsTyped
    <3> QED BY <3>1, <3>2, <3>3 DEF LoginsTyped
  <2> QED BY <2>1, <2>2
<1>3. /\ asker' \in [Requests -> Askers] /\ asker'[q].knew = refused
      /\ \A r \in Requests : r # q => asker'[r] = asker[r]
      /\ \/ /\ asker'[q].at = "sends" /\ asker'[q].value = entry[kept].value
            /\ asker'[q].value # NoLogin
         \/ /\ asker'[q].at = "waits" /\ asker'[q].call = entry[kept].call
            /\ asker'[q].call # NoLogin
  <2>1. refused \in SUBSET Nat /\ entry[kept].value \in Nat /\ entry[kept].call \in Nat
    BY <1>1 DEF LoginsTyped, NoLogin
  <2>2. asker \in [Requests -> Askers]
    BY DEF AskersTyped
  <2>3. CASE getKept(q)
    <3>1. asker' = Sends(q, entry[kept].value) /\ entry[kept].value # NoLogin
      BY <2>3 DEF getKept, Fresh
    <3> QED BY <2>1, <2>2, <3>1, Given
  <2>4. CASE getJoining(q)
    <3>1. asker' = WaitsFor(q, entry[kept].call) /\ entry[kept].call # NoLogin
      BY <2>4 DEF getJoining
    <3> QED BY <2>1, <2>2, <3>1, Given
  <2> QED BY <2>3, <2>4
<1>4. LoginsTyped' /\ KeptOrDropped'
  BY <1>1, <1>2 DEF LoginsTyped, KeptOrDropped
<1>5. kept \in DOMAIN entry /\ entry[kept].value \notin refused
        /\ (entry[kept].call # NoLogin =>
              entry[kept].call \in DOMAIN login /\ login[entry[kept].call].of = kept)
  BY <1>1 DEF LoginsTyped, NoneRefused, CallsMatch
<1>6. entry[kept].value \in (0..begun) \ DOMAIN login
  BY <1>5 DEF LoginsTyped
<1>8. AskersTyped'
  BY <1>1, <1>2, <1>3, <1>6 DEF AskersTyped, NoLogin, LoginsTyped
<1>9. CallsMatch'
  BY <1>1, <1>2, <1>3, <1>5 DEF CallsMatch, LoginsTyped
<1>10. NoneRefused' /\ RefusedNotGiven'
  <2>1. \A r \in Requests : asker[r].at = "waits" => asker[r].call \in DOMAIN login
    BY DEF CallsMatch
  <2> QED BY <1>1, <1>2, <1>3, <1>5, <2>1 DEF NoneRefused, RefusedNotGiven
<1> QED BY <1>4, <1>8, <1>9, <1>10

\* A request that begins the login, of the entry kept or of a new one.
LEMMA BeginningKeepsInv ==
  ASSUME LoginInv, NEW q \in Requests, getBeginning(q)
  PROVE  LoginInv'
<1> USE DEF LoginInv
<1> DEFINE n   == begun + 1
           e   == IF kept = NoLogin THEN n ELSE kept
           old == IF kept = NoLogin THEN NoToken ELSE entry[e]
           new == [old EXCEPT !.call = n]
           by  == [of |-> e, counted |-> ~asker[q].debug]
<1>1. /\ begun' = n /\ kept' = e /\ entry' = Put(entry, e, new) /\ login' = Put(login, n, by)
      /\ asker' = WaitsFor(q, n) /\ UNCHANGED <<refused, dropped>>
      /\ kept # NoLogin => entry[kept].call = NoLogin
  BY DEF getBeginning
<1>2. /\ n \in Nat /\ n \notin DOMAIN login /\ n \notin DOMAIN entry /\ n # NoLogin
      /\ e \in 1..n /\ 1..begun \subseteq 1..n /\ n \in 1..n
  BY DEF LoginsTyped, NoLogin
<1>3. /\ old \in [value : (0..begun) \ DOMAIN login, life : Lives, call : Nat]
      /\ old.value \notin refused /\ (kept # NoLogin => old = entry[kept])
  BY DEF LoginsTyped, NoneRefused, NoToken, NoLogin, Lives
<1>4. /\ new \in [value : (0..n) \ (DOMAIN login \cup {n}), life : Lives, call : Nat]
      /\ new.call = n /\ new.value = old.value
  BY <1>2, <1>3 DEF LoginsTyped
<1>5. by \in [of : DOMAIN entry \cup {e}, counted : BOOLEAN] /\ by.of = e
  BY DEF AskersTyped, Askers
<1>6. asker \in [Requests -> Askers] /\ refused \in SUBSET Nat
  BY DEF AskersTyped, LoginsTyped
<1>7. /\ asker' \in [Requests -> Askers] /\ asker'[q].at = "waits" /\ asker'[q].call = n
      /\ asker'[q].knew = refused /\ \A r \in Requests : r # q => asker'[r] = asker[r]
  BY <1>1, <1>2, <1>6, Given
<1>8. e \notin DOMAIN entry \/ entry[e].call = NoLogin
  BY <1>1, <1>2
<1> HIDE DEF n, e, old, new, by
<1>9. /\ DOMAIN entry' = DOMAIN entry \cup {e} /\ entry'[e] = new
      /\ \A f \in DOMAIN entry : f # e => entry'[f] = entry[f]
      /\ entry' = [f \in DOMAIN entry' |-> entry'[f]]
  BY <1>1 DEF Put
<1>10. /\ DOMAIN login' = DOMAIN login \cup {n} /\ login'[n] = by
       /\ \A m \in DOMAIN login : login'[m] = login[m]
       /\ login' = [m \in DOMAIN login' |-> login'[m]]
  BY <1>1, <1>2 DEF Put
<1>11. LoginsTyped'
  <2>1. /\ begun' \in Nat /\ kept' \in DOMAIN entry'
        /\ DOMAIN login' \subseteq 1..begun' /\ DOMAIN entry' \subseteq 1..begun'
    BY <1>1, <1>2, <1>9, <1>10 DEF LoginsTyped
  <2>2. login' \in [DOMAIN login' -> [of : DOMAIN entry', counted : BOOLEAN]]
    <3>1. \A m \in DOMAIN login : login[m] \in [of : DOMAIN entry, counted : BOOLEAN]
      BY DEF LoginsTyped
    <3>2. \A m \in DOMAIN login' : login'[m] \in [of : DOMAIN entry', counted : BOOLEAN]
      BY <1>5, <1>9, <1>10, <3>1
    <3> QED BY <1>10, <3>2
  <2>3. entry' \in [DOMAIN entry' -> [value : (0..begun') \ DOMAIN login', life : Lives, call : Nat]]
    <3>1. \A f \in DOMAIN entry :
            entry[f] \in [value : (0..begun) \ DOMAIN login, life : Lives, call : Nat]
      BY DEF LoginsTyped
    <3>2. \A f \in DOMAIN entry :
            entry[f] \in [value : (0..n) \ (DOMAIN login \cup {n}), life : Lives, call : Nat]
      <4>1. (0..begun) \ DOMAIN login \subseteq (0..n) \ (DOMAIN login \cup {n})
        BY DEF LoginsTyped, n
      <4> QED BY <3>1, <4>1
    <3>3. \A f \in DOMAIN entry' :
            entry'[f] \in [value : (0..begun') \ DOMAIN login', life : Lives, call : Nat]
      BY <1>1, <1>4, <1>9, <1>10, <3>2
    <3> QED BY <1>9, <3>3
  <2>4. refused' \subseteq (1..begun') \ DOMAIN login'
    BY <1>1, <1>2, <1>10 DEF LoginsTyped, n
  <2> QED BY <2>1, <2>2, <2>3, <2>4 DEF LoginsTyped
<1>12. AskersTyped'
  <2>1. (1..begun) \ DOMAIN login \subseteq (1..begun') \ DOMAIN login'
    BY <1>1, <1>2, <1>10 DEF LoginsTyped, n
  <2> QED BY <1>1, <1>7, <2>1 DEF AskersTyped
<1>13. CallsMatch'
  <2>1. \A m \in DOMAIN login : login[m].of # e /\ login[m].of \in DOMAIN entry
    <3>1. \A m \in DOMAIN login : m # NoLogin /\ login[m].of \in DOMAIN entry
      BY DEF LoginsTyped, NoLogin
    <3> QED BY <1>8, <3>1 DEF CallsMatch
  <2>2. \A m \in DOMAIN login' : entry'[login'[m].of].call = m
    BY <1>4, <1>5, <1>9, <1>10, <2>1 DEF CallsMatch
  <2>3. \A f \in DOMAIN entry' :
          entry'[f].call # NoLogin => entry'[f].call \in DOMAIN login' /\ login'[entry'[f].call].of = f
    BY <1>4, <1>5, <1>9, <1>10 DEF CallsMatch
  <2>4. \A r \in Requests : asker'[r].at = "waits" => asker'[r].call \in DOMAIN login'
    BY <1>7, <1>10 DEF CallsMatch
  <2> QED BY <2>2, <2>3, <2>4 DEF CallsMatch
<1>14. KeptOrDropped'
  <2>1. NoLogin \notin DOMAIN entry /\ (kept # NoLogin => e = kept)
    BY DEF LoginsTyped, NoLogin, e
  <2> QED BY <1>1, <1>9, <2>1 DEF KeptOrDropped
<1>15. NoneRefused'
  <2>1. \A r \in Requests : asker[r].at = "waits" =>
          /\ asker[r].call \in DOMAIN login /\ login[asker[r].call].of \in DOMAIN entry
          /\ login[asker[r].call].of # e
    <3>1. \A m \in DOMAIN login : m # NoLogin /\ login[m].of \in DOMAIN entry
      BY DEF LoginsTyped, NoLogin
    <3> QED BY <1>8, <3>1 DEF CallsMatch
  <2>2. entry'[login'[n].of].value \notin refused
    BY <1>3, <1>4, <1>5, <1>9, <1>10
  <2>3. entry'[kept'].value \notin refused'
    BY <1>1, <1>3, <1>4, <1>9
  <2> QED BY <1>7, <1>9, <1>10, <2>1, <2>2, <2>3 DEF NoneRefused
<1>16. RefusedNotGiven'
  BY <1>7 DEF RefusedNotGiven
<1> QED BY <1>11, <1>12, <1>13, <1>14, <1>15, <1>16

\* A target refuses a token: the entry kept has it no more.
LEMMA AgainKeepsInv ==
  ASSUME LoginInv, NEW q \in Requests, again(q)
  PROVE  LoginInv'
<1> USE DEF LoginInv
<1> DEFINE used == asker[q].value
           st   == [Fetched EXCEPT !.at = "asks", !.renewed = TRUE, !.debug = asker[q].debug]
<1>1. /\ UNCHANGED <<login, begun, kept, dropped>> /\ refused' = refused \cup {used}
      /\ entry' = Invalidated(used) /\ asker' = [asker EXCEPT ![q] = st] /\ asker[q].at = "sends"
  BY DEF again
<1>2. used \in (1..begun) \ DOMAIN login
  BY <1>1 DEF AskersTyped
<1>3. st \in Askers /\ st.at = "asks" /\ st.knew = {}
  BY DEF AskersTyped, Askers, Fetched, NoLogin
<1>4. /\ DOMAIN entry' = DOMAIN entry
      /\ \A e \in DOMAIN entry :
           /\ entry'[e].call = entry[e].call
           /\ entry'[e].value \in {entry[e].value, NoLogin}
      /\ kept # NoLogin => entry'[kept].value # used /\ entry'[kept].value \in {entry[kept].value, NoLogin}
      /\ entry' \in [DOMAIN entry -> [value : (0..begun) \ DOMAIN login, life : Lives, call : Nat]]
  <2>1. /\ NoLogin \in (0..begun) \ DOMAIN login /\ used # NoLogin
    BY <1>2 DEF LoginsTyped, NoLogin
  <2>2. CASE kept # NoLogin /\ entry[kept].value = used
    <3>1. entry' = [entry EXCEPT ![kept].value = NoLogin, ![kept].life = "fresh"]
      BY <1>1, <2>2 DEF Invalidated
    <3>2. kept \in DOMAIN entry
            /\ entry[kept] \in [value : (0..begun) \ DOMAIN login, life : Lives, call : Nat]
      BY <2>2 DEF LoginsTyped
    <3>3. /\ DOMAIN entry' = DOMAIN entry /\ entry'[kept].call = entry[kept].call
          /\ entry'[kept].value = NoLogin
          /\ \A e \in DOMAIN entry : e # kept => entry'[e] = entry[e]
          /\ entry'[kept] \in [value : (0..begun) \ DOMAIN login, life : Lives, call : Nat]
      BY <2>1, <3>1, <3>2 DEF Lives
    <3>4. entry' = [e \in DOMAIN entry |-> entry'[e]]
      BY <3>1
    <3>5. \A e \in DOMAIN entry :
            entry'[e] \in [value : (0..begun) \ DOMAIN login, life : Lives, call : Nat]
      BY <3>3 DEF LoginsTyped
    <3> QED BY <2>1, <3>3, <3>4, <3>5
  <2>3. CASE ~(kept # NoLogin /\ entry[kept].value = used)
    BY <1>1, <2>3 DEF Invalidated, LoginsTyped
  <2> QED BY <2>2, <2>3
<1> HIDE DEF used, st
<1>5. /\ \A r \in Requests : r # q => asker'[r] = asker[r]
      /\ asker'[q] = st /\ asker' \in [Requests -> Askers]
  BY <1>1, <1>3 DEF AskersTyped
<1>6. LoginsTyped' /\ KeptOrDropped'
  BY <1>1, <1>2, <1>4 DEF LoginsTyped, KeptOrDropped
<1>7. AskersTyped'
  BY <1>1, <1>3, <1>5 DEF AskersTyped
<1>8. CallsMatch'
  BY <1>1, <1>3, <1>4, <1>5 DEF CallsMatch, LoginsTyped
<1>9. NoneRefused'
  <2>1. \A r \in Requests : asker'[r].at = "waits" =>
          entry'[login'[asker'[r].call].of].value \notin asker'[r].knew
    <3> SUFFICES ASSUME NEW r \in Requests, asker'[r].at = "waits"
                 PROVE  entry'[login'[asker'[r].call].of].value \notin asker'[r].knew
      OBVIOUS
    <3>1. r # q /\ asker'[r] = asker[r]
      BY <1>3, <1>5
    <3>2. asker[r].call \in DOMAIN login /\ login[asker[r].call].of \in DOMAIN entry
      BY <3>1 DEF CallsMatch, LoginsTyped
    <3>3. NoLogin \notin asker[r].knew
      BY DEF AskersTyped, LoginsTyped, NoLogin
    <3> QED BY <1>1, <1>4, <3>1, <3>2, <3>3 DEF NoneRefused
  <2>2. kept # NoLogin => entry'[kept].value \notin refused'
    BY <1>1, <1>4 DEF NoneRefused, LoginsTyped, NoLogin
  <2> QED BY <1>1, <2>1, <2>2 DEF NoneRefused
<1>10. RefusedNotGiven'
  BY <1>3, <1>5 DEF RefusedNotGiven
<1> QED BY <1>6, <1>7, <1>8, <1>9, <1>10

\* What is left of the entries when some are dropped, or one's login is over:
\* those of logins under way.
LEMMA LeavingKeepsInv ==
  ASSUME LoginInv, NEW entries, NEW k \in {NoLogin, kept},
         DOMAIN entries = DOMAIN entry, DOMAIN login' \subseteq DOMAIN login,
         \A n \in DOMAIN login' : login'[n] = login[n],
         login' = [n \in DOMAIN login' |-> login[n]],
         begun' = begun, kept' = k, entry' = Left(entries, k),
         \A e \in DOMAIN entries : entries[e].call \in DOMAIN login' \cup {NoLogin}
                                     /\ (entries[e].call # NoLogin => entries[e].call = entry[e].call),
         \A n \in DOMAIN login' : entries[login[n].of].call = n,
         \A e \in DOMAIN entries :
           entries[e] \in [value : (0..begun) \ DOMAIN login', life : Lives, call : Nat]
  PROVE  /\ DOMAIN entry' \subseteq DOMAIN entry
         /\ \A e \in DOMAIN entry' : entry'[e] = entries[e]
         /\ \A n \in DOMAIN login' : login'[n].of \in DOMAIN entry' /\ entry'[login'[n].of].call = n
         /\ \A e \in DOMAIN entry' :
              entry'[e].call # NoLogin => entry'[e].call \in DOMAIN login' /\ login'[entry'[e].call].of = e
         /\ \A e \in DOMAIN entry' : e = k \/ e \in {kept} \cup dropped
         /\ refused' \subseteq (1..begun) \ DOMAIN login' => LoginsTyped'
<1> USE DEF LoginInv
<1>1. /\ DOMAIN entry' = {e \in DOMAIN entries : e = k \/ entries[e].call # NoLogin}
      /\ \A e \in DOMAIN entry' : entry'[e] = entries[e]
      /\ entry' = [e \in DOMAIN entry' |-> entries[e]]
  BY DEF Left, Restrict
<1>2. \A n \in DOMAIN login' : n # NoLogin /\ login[n].of \in DOMAIN entry
  BY DEF LoginsTyped, NoLogin
<1>3. \A n \in DOMAIN login' : login'[n].of \in DOMAIN entry' /\ entry'[login'[n].of].call = n
  BY <1>1, <1>2
<1>4. \A e \in DOMAIN entry' :
        entry'[e].call # NoLogin => entry'[e].call \in DOMAIN login' /\ login'[entry'[e].call].of = e
  BY <1>1 DEF CallsMatch
<1>5. \A e \in DOMAIN entry' : e = k \/ e \in {kept} \cup dropped
  BY <1>1 DEF KeptOrDropped
<1>6. ASSUME refused' \subseteq (1..begun) \ DOMAIN login' PROVE LoginsTyped'
  <2>1. login' \in [DOMAIN login' -> [of : DOMAIN entry', counted : BOOLEAN]]
    <3>1. \A n \in DOMAIN login' :
            login[n] \in [of : DOMAIN entry, counted : BOOLEAN] /\ login'[n].of = login[n].of
      BY DEF LoginsTyped
    <3>2. \A n \in DOMAIN login' : login'[n] \in [of : DOMAIN entry', counted : BOOLEAN]
      BY <1>3, <3>1
    <3> QED BY <3>2
  <2>2. entry' \in [DOMAIN entry' -> [value : (0..begun') \ DOMAIN login', life : Lives, call : Nat]]
    BY <1>1
  <2>3. kept' \in {NoLogin} \cup DOMAIN entry'
    BY <1>1 DEF LoginsTyped
  <2> QED BY <1>1, <1>6, <2>1, <2>2, <2>3 DEF LoginsTyped
<1> QED BY <1>1, <1>3, <1>4, <1>5, <1>6

\* Entries age, make room or go with a reload: no login ends by it.
LEMMA EntriesKeepInv ==
  ASSUME LoginInv, (\E e \in DOMAIN entry : age(e)) \/ evict \/ (\E to \in {"has", "another", "gone"} : follow(to))
  PROVE  LoginInv'
<1> USE DEF LoginInv
<1>1. UNCHANGED <<login, begun, asker, refused>>
  BY DEF age, evict, follow
<1>2. \A n \in DOMAIN login : n # NoLogin
  BY DEF LoginsTyped, NoLogin
<1>3. \A e \in DOMAIN entry :
        /\ entry[e] \in [value : (0..begun) \ DOMAIN login, life : Lives, call : Nat]
        /\ entry[e].call \in DOMAIN login \cup {NoLogin}
  BY DEF LoginsTyped, CallsMatch
<1>4. login = [n \in DOMAIN login |-> login[n]]
  BY DEF LoginsTyped
<1>5. CASE \E e \in DOMAIN entry : age(e)
  <2>1. PICK e \in DOMAIN entry :
          /\ entry' = [entry EXCEPT ![e].life = IF @ = "fresh" THEN "due" ELSE "expired"]
          /\ UNCHANGED <<kept, dropped>>
    BY <1>5 DEF age
  <2>2. entry[e] \in [value : (0..begun) \ DOMAIN login, life : Lives, call : Nat]
    BY <1>3
  <2>3. /\ DOMAIN entry' = DOMAIN entry /\ \A f \in DOMAIN entry : f # e => entry'[f] = entry[f]
        /\ entry'[e].call = entry[e].call /\ entry'[e].value = entry[e].value
        /\ entry'[e] \in [value : (0..begun) \ DOMAIN login, life : Lives, call : Nat]
        /\ entry' = [f \in DOMAIN entry |-> entry'[f]]
    BY <2>1, <2>2 DEF Lives
  <2>4. LoginsTyped'
    BY <1>1, <1>3, <2>1, <2>3 DEF LoginsTyped
  <2>5. \A f \in DOMAIN entry : entry'[f].call = entry[f].call /\ entry'[f].value = entry[f].value
    BY <2>3
  <2>6. CallsMatch' /\ KeptOrDropped'
    BY <1>1, <2>1, <2>3, <2>5 DEF CallsMatch, KeptOrDropped, LoginsTyped
  <2>7. NoneRefused'
    <3>1. \A q \in Requests : asker[q].at = "waits" =>
            asker[q].call \in DOMAIN login /\ login[asker[q].call].of \in DOMAIN entry
      BY DEF CallsMatch, LoginsTyped
    <3> QED BY <1>1, <2>1, <2>5, <3>1 DEF NoneRefused, LoginsTyped
  <2> QED BY <1>1, <2>4, <2>6, <2>7 DEF AskersTyped, RefusedNotGiven
<1>6. CASE evict \/ \E to \in {"has", "another", "gone"} : follow(to)
  <2>1. /\ kept' \in {NoLogin, kept} /\ entry' = Left(entry, kept')
        /\ \/ dropped' = dropped /\ kept # NoLogin /\ entry[kept].call = NoLogin /\ kept' = NoLogin
           \/ dropped' = (dropped \cup ({kept} \ {kept'})) \cap DOMAIN entry'
    BY <1>6 DEF evict, follow
  <2>2. /\ DOMAIN entry' \subseteq DOMAIN entry
        /\ \A e \in DOMAIN entry' : entry'[e] = entry[e]
        /\ \A n \in DOMAIN login' : login'[n].of \in DOMAIN entry' /\ entry'[login'[n].of].call = n
        /\ \A e \in DOMAIN entry' :
             entry'[e].call # NoLogin => entry'[e].call \in DOMAIN login' /\ login'[entry'[e].call].of = e
        /\ \A e \in DOMAIN entry' : e = kept' \/ e \in {kept} \cup dropped
        /\ LoginsTyped'
    <3>1. \A n \in DOMAIN login : entry[login[n].of].call = n
      BY DEF CallsMatch
    <3>2. refused' \subseteq (1..begun) \ DOMAIN login'
      BY <1>1 DEF LoginsTyped
    <3>3. login' = login /\ begun' = begun
      BY <1>1
    <3> QED BY <1>3, <1>4, <2>1, <3>1, <3>2, <3>3, LeavingKeepsInv
  <2>3. CallsMatch'
    BY <1>1, <2>2 DEF CallsMatch
  <2>4. KeptOrDropped'
    <3>1. CASE dropped' = dropped /\ kept # NoLogin /\ entry[kept].call = NoLogin /\ kept' = NoLogin
      <4>1. kept \notin DOMAIN entry'
        <5>1. entry' = Left(entry, NoLogin)
          BY <2>1, <3>1
        <5>2. DOMAIN Left(entry, NoLogin) = {e \in DOMAIN entry : e = NoLogin \/ entry[e].call # NoLogin}
          BY DEF Left, Restrict
        <5> QED BY <3>1, <5>1, <5>2
      <4> QED BY <2>2, <3>1, <4>1 DEF KeptOrDropped
    <3>2. CASE dropped' = (dropped \cup ({kept} \ {kept'})) \cap DOMAIN entry'
      BY <2>2, <3>2 DEF KeptOrDropped
    <3> QED BY <2>1, <3>1, <3>2
  <2>5. NoneRefused'
    <3>1. \A q \in Requests : asker[q].at = "waits" =>
            asker[q].call \in DOMAIN login' /\ login'[asker[q].call].of \in DOMAIN entry'
      BY <1>1, <2>2 DEF CallsMatch
    <3>2. kept' # NoLogin => kept' = kept /\ kept' \in DOMAIN entry'
      BY <2>1, <2>2 DEF LoginsTyped
    <3> QED BY <1>1, <2>2, <3>1, <3>2 DEF NoneRefused
  <2> QED BY <1>1, <2>2, <2>3, <2>4, <2>5 DEF AskersTyped, RefusedNotGiven
<1> QED BY <1>5, <1>6

\* A login is done: its entry becomes what it made of it, and those who waited
\* are given a token, or an error.
LEMMA DoneKeepsInv ==
  ASSUME LoginInv, NEW n \in DOMAIN login, NEW value \in {NoLogin, n, entry[login[n].of].value},
         NEW new \in [value : {n, entry[login[n].of].value}, life : Lives, call : {NoLogin}],
         Done(n, value), entry' = Left([entry EXCEPT ![login[n].of] = new], kept)
  PROVE  LoginInv'
<1> USE DEF LoginInv
<1> DEFINE e == login[n].of
           entries == [entry EXCEPT ![e] = new]
<1>1. /\ n \in 1..begun /\ n # NoLogin /\ e \in DOMAIN entry /\ entry[e].call = n
      /\ entry[e].value \in (0..begun) \ DOMAIN login
  BY DEF LoginsTyped, CallsMatch, NoLogin
<1>2. /\ DOMAIN login' = DOMAIN login \ {n}
      /\ \A m \in DOMAIN login' : login'[m] = login[m]
      /\ login' = [m \in DOMAIN login' |-> login[m]]
      /\ UNCHANGED <<begun, kept, refused, dropped>>
  BY DEF Done, Restrict
<1>3. /\ DOMAIN entries = DOMAIN entry /\ entries[e] = new
      /\ \A f \in DOMAIN entry : f # e => entries[f] = entry[f]
  BY <1>1
<1>4. /\ new.call = NoLogin /\ new.value \in {n, entry[e].value}
      /\ new \in [value : (0..begun) \ DOMAIN login', life : Lives, call : Nat]
  BY <1>1, <1>2 DEF NoLogin
<1>5. \A m \in DOMAIN login' : login[m].of # e /\ login[m].of \in DOMAIN entry
  BY <1>1, <1>2 DEF CallsMatch, LoginsTyped
<1>6. /\ DOMAIN entry' \subseteq DOMAIN entry
      /\ \A f \in DOMAIN entry' : entry'[f] = entries[f]
      /\ \A m \in DOMAIN login' : login'[m].of \in DOMAIN entry' /\ entry'[login'[m].of].call = m
      /\ \A f \in DOMAIN entry' :
           entry'[f].call # NoLogin => entry'[f].call \in DOMAIN login' /\ login'[entry'[f].call].of = f
      /\ \A f \in DOMAIN entry' : f = kept \/ f \in {kept} \cup dropped
      /\ LoginsTyped'
  <2>1. \A f \in DOMAIN entries :
          /\ entries[f].call \in DOMAIN login' \cup {NoLogin}
          /\ entries[f].call # NoLogin => entries[f].call = entry[f].call
    BY <1>1, <1>2, <1>3, <1>4 DEF CallsMatch
  <2>2. \A m \in DOMAIN login' : entries[login[m].of].call = m
    BY <1>2, <1>3, <1>5 DEF CallsMatch
  <2>3. \A f \in DOMAIN entries :
          entries[f] \in [value : (0..begun) \ DOMAIN login', life : Lives, call : Nat]
    <3>1. \A f \in DOMAIN entry :
            entry[f] \in [value : (0..begun) \ DOMAIN login, life : Lives, call : Nat]
      BY DEF LoginsTyped
    <3>2. (0..begun) \ DOMAIN login \subseteq (0..begun) \ DOMAIN login'
      BY <1>2
    <3> QED BY <1>3, <1>4, <3>1, <3>2
  <2>4. refused' \subseteq (1..begun) \ DOMAIN login'
    BY <1>2 DEF LoginsTyped
  <2>5. entry' = Left(entries, kept)
    OBVIOUS
  <2> HIDE DEF entries
  <2> QED BY <1>2, <1>3, <2>1, <2>2, <2>3, <2>4, <2>5, LeavingKeepsInv
<1>7. \A q \in Requests :
        \/ asker'[q] = asker[q] /\ (asker[q].at = "waits" => asker[q].call # n)
        \/ asker'[q] = Fetched
        \/ /\ asker[q].at = "waits" /\ asker[q].call = n /\ value # NoLogin
           /\ asker'[q] = [asker[q] EXCEPT !.at = "sends", !.value = value, !.call = NoLogin]
  BY DEF Done
<1>8. \A q \in Requests : asker[q] \in Askers /\ asker[q].knew \subseteq refused
  BY DEF AskersTyped
<1>9. \A q \in Requests : asker[q].at = "waits" /\ asker[q].call = n =>
        /\ value # NoLogin => value \notin asker[q].knew
        /\ value \in Nat
        /\ [asker[q] EXCEPT !.at = "sends", !.value = value, !.call = NoLogin] \in Askers
  <2>1. n \notin refused
    BY DEF LoginsTyped
  <2>2. value \in Nat
    BY <1>1 DEF NoLogin
  <2> SUFFICES ASSUME NEW q \in Requests, asker[q].at = "waits", asker[q].call = n
               PROVE  /\ value # NoLogin => value \notin asker[q].knew
                      /\ [asker[q] EXCEPT !.at = "sends", !.value = value, !.call = NoLogin] \in Askers
    BY <2>2
  <2>3. entry[e].value \notin asker[q].knew /\ n \notin asker[q].knew
    BY <1>8, <2>1 DEF NoneRefused
  <2>4. NoLogin \in Nat /\ asker[q] \in Askers
    BY <1>8 DEF NoLogin
  <2>5. [asker[q] EXCEPT !.at = "sends", !.value = value, !.call = NoLogin] \in Askers
    BY <2>2, <2>4 DEF Askers
  <2> QED BY <2>3, <2>5
<1>10. Fetched \in Askers /\ Fetched.at = "done" /\ Fetched.knew = {}
  BY DEF Fetched, Askers, NoLogin
<1>11. \A q \in Requests :
         /\ asker'[q] \in Askers /\ asker'[q].knew \subseteq refused
         /\ asker'[q].at = "waits" => asker'[q] = asker[q] /\ asker[q].call # n
         /\ asker'[q].at = "sends" => \/ asker'[q] = asker[q]
                                      \/ /\ asker'[q].value = value /\ value # NoLogin
                                         /\ value \notin asker'[q].knew
  <2> TAKE q \in Requests
  <2>1. CASE asker'[q] = asker[q] /\ (asker[q].at = "waits" => asker[q].call # n)
    BY <1>8, <2>1
  <2>2. CASE asker'[q] = Fetched
    BY <1>10, <2>2
  <2>3. CASE /\ asker[q].at = "waits" /\ asker[q].call = n /\ value # NoLogin
             /\ asker'[q] = [asker[q] EXCEPT !.at = "sends", !.value = value, !.call = NoLogin]
    BY <1>8, <1>9, <2>3 DEF Askers
  <2> QED BY <1>7, <2>1, <2>2, <2>3
<1>12. asker' = [q \in Requests |-> asker'[q]]
  BY DEF Done
<1> HIDE DEF entries
<1>13. AskersTyped'
  <2>1. value # NoLogin => value \in (1..begun) \ DOMAIN login'
    BY <1>1, <1>2 DEF NoLogin
  <2>2. (1..begun) \ DOMAIN login \subseteq (1..begun) \ DOMAIN login'
    BY <1>2
  <2>3. asker' \in [Requests -> Askers]
    BY <1>11, <1>12
  <2> QED BY <1>2, <1>11, <2>1, <2>2, <2>3 DEF AskersTyped
<1>14. CallsMatch'
  <2>1. \A q \in Requests : asker'[q].at = "waits" => asker'[q].call \in DOMAIN login'
    BY <1>2, <1>11 DEF CallsMatch
  <2>2. \A m \in DOMAIN login' : entry'[login'[m].of].call = m
    BY <1>6
  <2>3. \A f \in DOMAIN entry' :
          entry'[f].call # NoLogin => entry'[f].call \in DOMAIN login' /\ login'[entry'[f].call].of = f
    BY <1>6
  <2> QED BY <2>1, <2>2, <2>3 DEF CallsMatch
<1>15. KeptOrDropped'
  BY <1>2, <1>6 DEF KeptOrDropped
<1>16. NoneRefused'
  <2>1. \A m \in DOMAIN login' : entry'[login'[m].of].value = entry[login[m].of].value
    <3> TAKE m \in DOMAIN login'
    <3>1. login'[m].of = login[m].of /\ login[m].of # e /\ login[m].of \in DOMAIN entry
      BY <1>2, <1>5
    <3>2. login[m].of \in DOMAIN entry'
      BY <1>6, <3>1
    <3>3. entry'[login[m].of] = entries[login[m].of]
      BY <1>6, <3>2
    <3>4. entries[login[m].of] = entry[login[m].of]
      BY <1>3, <3>1
    <3> QED BY <3>1, <3>3, <3>4
  <2>2. kept # NoLogin => entry'[kept].value \in {entry[kept].value, n}
    <3> HAVE kept # NoLogin
    <3>1. kept \in DOMAIN entry'
      BY <1>2, <1>6 DEF LoginsTyped
    <3>2. kept \in DOMAIN entry /\ entry'[kept] = entries[kept]
      BY <1>6, <3>1
    <3> QED BY <1>3, <1>4, <3>2
  <2>3. n \notin refused
    BY DEF LoginsTyped
  <2>4. \A q \in Requests : asker'[q].at = "waits" => asker[q].call \in DOMAIN login'
    BY <1>2, <1>11 DEF CallsMatch
  <2>5. kept' # NoLogin => entry'[kept'].value \notin refused'
    BY <1>2, <2>2, <2>3 DEF NoneRefused
  <2>6. \A q \in Requests : asker'[q].at = "waits" =>
          entry'[login'[asker'[q].call].of].value \notin asker'[q].knew
    BY <1>11, <2>1, <2>4 DEF NoneRefused
  <2> QED BY <2>5, <2>6 DEF NoneRefused
<1>17. RefusedNotGiven'
  BY <1>11 DEF RefusedNotGiven
<1> QED BY <1>6, <1>13, <1>14, <1>15, <1>16, <1>17

LEMMA FinishKeepsInv ==
  ASSUME LoginInv, NEW n \in DOMAIN login, finishToken(n) \/ finishFailed(n)
  PROVE  LoginInv'
<1> DEFINE e == login[n].of
<1>1. e \in DOMAIN entry /\ entry[e].value \in Nat /\ entry[e].life \in Lives
  BY DEF LoginInv, LoginsTyped
<1>2. CASE finishToken(n)
  <2> DEFINE new == [value |-> n, life |-> "fresh", call |-> NoLogin]
  <2>1. new \in [value : {n, entry[e].value}, life : Lives, call : {NoLogin}]
    BY DEF Lives
  <2>2. Done(n, n) /\ entry' = Left([entry EXCEPT ![e] = new], kept)
    BY <1>2 DEF finishToken
  <2> HIDE DEF new
  <2> QED BY <2>1, <2>2, DoneKeepsInv
<1>3. CASE finishFailed(n)
  <2> DEFINE new   == [entry[e] EXCEPT !.call = NoLogin]
             value == IF entry[e].life = "expired" THEN NoLogin ELSE entry[e].value
  <2>1. new \in [value : {n, entry[e].value}, life : Lives, call : {NoLogin}]
    BY <1>1 DEF LoginInv, LoginsTyped
  <2>2. Done(n, value) /\ entry' = Left([entry EXCEPT ![e] = new], kept)
    BY <1>3 DEF finishFailed
  <2>3. value \in {NoLogin, n, entry[e].value}
    OBVIOUS
  <2> HIDE DEF new, value
  <2> QED BY <2>1, <2>2, <2>3, DoneKeepsInv
<1> QED BY <1>2, <1>3

\* However requests, failures, reloads and refusals fall, one login is made at
\* a time for those who need it, and no request is given a token that a target
\* had refused when it asked (loginCache.get, finish and invalidate).
THEOREM TokensAlwaysShared == LoginSpec => []TokensShared
<1>1. LoginInv /\ [LoginNext]_lvars => LoginInv'
  <2> SUFFICES ASSUME LoginInv, [LoginNext]_lvars PROVE LoginInv'
    OBVIOUS
  <2>1. ASSUME NEW q \in Requests,
               \/ ask(q) \/ getKept(q) \/ getJoining(q) \/ getBeginning(q)
               \/ giveUp(q) \/ again(q) \/ answered(q)
        PROVE  LoginInv'
    BY <2>1, AskingKeepsInv, GetKeepsInv, BeginningKeepsInv, AgainKeepsInv
  <2>2. ASSUME NEW n \in DOMAIN login, finishToken(n) \/ finishFailed(n)
        PROVE  LoginInv'
    BY <2>2, FinishKeepsInv
  <2>3. CASE \/ \E e \in DOMAIN entry : age(e)
             \/ evict
             \/ \E to \in {"has", "another", "gone"} : follow(to)
    BY <2>3, EntriesKeepInv
  <2>4. CASE UNCHANGED lvars
    BY <2>4 DEF lvars, LoginInv, LoginsTyped, AskersTyped, CallsMatch, KeptOrDropped,
                NoneRefused, RefusedNotGiven
  <2> QED BY <2>1, <2>2, <2>3, <2>4 DEF LoginNext
<1> QED BY <1>1, LoginInitInv, OneLoginHeld, PTL DEF LoginSpec

-----------------------------------------------------------------------------
(* The pools of a target. *)

PoolIds    == Databases \X Nat
PoolStates == [closed : BOOLEAN, keeps : BOOLEAN, idle : 0..MaxIdlePer]

SQLTyped ==
  /\ DOMAIN pools \subseteq PoolIds /\ pools \in [DOMAIN pools -> PoolStates]
  /\ DOMAIN agent = Agents /\ agent = [a \in Agents |-> agent[a]]
  /\ \A a \in Agents : {"at", "pool"} \subseteq DOMAIN agent[a]
  /\ closed \in Nat

\* A scrape that rests uses no pool.
RestingUsesNone == \A s \in SQLScrapes : agent[s].at = "rests" => agent[s].pool = <<>>

PoolsInv == SQLTyped /\ RestingUsesNone /\ PoolsAsUsed

\* An agent goes on with the pool it has, as a scrape does from one place to
\* the next.
GoesOn(a, st) ==
  /\ {"at", "pool"} \subseteq DOMAIN st
  /\ a \in SQLScrapes => /\ st.pool = agent[a].pool
                         /\ st.at = "late" <=> agent[a].at = "late"
                         /\ st.at = "rests" <=> agent[a].at = "rests"
  /\ agent' = [agent EXCEPT ![a] = st]

\* The pools stay, with what else they keep idle.
PoolsStay ==
  /\ pools' \in [DOMAIN pools -> PoolStates]
  /\ \A p \in DOMAIN pools : pools'[p].closed = pools[p].closed
  /\ UNCHANGED closed

LEMMA StayKeepsPools ==
  ASSUME PoolsInv, NEW a \in Agents, NEW st, GoesOn(a, st), PoolsStay
  PROVE  PoolsInv'
<1> USE DEF PoolsInv, SQLTyped, GoesOn, PoolsStay
<1>1. \A b \in Agents : agent'[b] = IF b = a THEN st ELSE agent[b]
  OBVIOUS
<1>2. SQLTyped'
  <2>1. DOMAIN agent' = Agents /\ agent' = [b \in Agents |-> agent'[b]]
    OBVIOUS
  <2>2. \A b \in Agents : {"at", "pool"} \subseteq DOMAIN agent'[b]
    BY <1>1
  <2>3. DOMAIN pools' = DOMAIN pools /\ pools' \in [DOMAIN pools' -> PoolStates]
    OBVIOUS
  <2> QED BY <2>1, <2>2, <2>3
<1>3. \A s \in SQLScrapes : /\ s \in Agents /\ agent'[s].pool = agent[s].pool
                            /\ agent'[s].at = "late" <=> agent[s].at = "late"
                            /\ agent'[s].at = "rests" <=> agent[s].at = "rests"
  BY <1>1 DEF Agents
<1>4. \A p : Using(p)' = Using(p)
  BY <1>3 DEF Using
<1>5. RestingUsesNone'
  BY <1>3 DEF RestingUsesNone
<1>6. PoolsAsUsed'
  <2>1. DOMAIN pools' = DOMAIN pools /\ \A p \in DOMAIN pools : pools'[p].idle \in 0..MaxIdlePer
    BY DEF PoolStates
  <2> QED BY <1>3, <1>4, <2>1 DEF PoolsAsUsed
<1> QED BY <1>2, <1>5, <1>6

\* A pool whose idle connections are one more or one less.
LEMMA IdleKeepsPools ==
  ASSUME SQLTyped, NEW p \in DOMAIN pools, NEW n \in 0..MaxIdlePer, KeepsIdle(p, n), UNCHANGED closed
  PROVE  PoolsStay
<1> USE DEF SQLTyped, KeepsIdle
<1>1. pools' = [pools EXCEPT ![p] = [pools[p] EXCEPT !.idle = n]]
  OBVIOUS
<1>2. pools[p] \in PoolStates
  OBVIOUS
<1>3. [pools[p] EXCEPT !.idle = n] \in PoolStates /\ [pools[p] EXCEPT !.idle = n].closed = pools[p].closed
  BY <1>2 DEF PoolStates
<1> HIDE DEF KeepsIdle
<1> QED BY <1>1, <1>3 DEF PoolsStay

LEMMA TakesKeepsPools ==
  ASSUME SQLTyped, NEW a, NEW p, Takes(a, p), UNCHANGED closed
  PROVE  PoolsStay
<1>1. p \in DOMAIN pools /\ pools[p].idle > 0 /\ KeepsIdle(p, pools[p].idle - 1)
  BY DEF Takes, IdleOf
<1>2. pools[p].idle - 1 \in 0..MaxIdlePer
  BY <1>1, SQLAssumption DEF SQLTyped, PoolStates
<1> QED BY <1>1, <1>2, IdleKeepsPools

LEMMA NoneKeepsPools == ASSUME SQLTyped, UNCHANGED pools, UNCHANGED closed PROVE PoolsStay
BY DEF SQLTyped, PoolsStay

\* An agent whose place alone changes, or what it counts and closes.
Same(a, st) ==
  /\ {"at", "pool"} \subseteq DOMAIN st /\ st.pool = agent[a].pool

LEMMA AtGoesOn ==
  ASSUME SQLTyped, NEW a \in Agents, NEW st, Becomes(a, st), Same(a, st),
         a \in SQLScrapes => st.at \notin {"rests", "late"} /\ agent[a].at \notin {"rests", "late"}
  PROVE  GoesOn(a, st)
BY DEF GoesOn, Becomes, Same

LEMMA ScrapesKeepPools ==
  ASSUME PoolsInv, NEW s \in SQLScrapes,
         \/ takePlace(s) \/ placeTimeout(s) \/ otherPools(s) \/ readPlaces(s) \/ countIdle(s)
         \/ makeRoom(s) \/ roomMade(s) \/ connect(s) \/ endStatement(s) \/ freePlace(s)
  PROVE  PoolsInv'
<1> s \in Agents
  BY DEF Agents
<1>1. SQLTyped /\ {"at", "pool"} \subseteq DOMAIN agent[s] /\ agent[s].at \notin {"rests", "late"}
  BY DEF PoolsInv, SQLTyped, takePlace, placeTimeout, otherPools, readPlaces, countIdle, makeRoom,
         roomMade, connect, endStatement, freePlace
<1>2. PoolsStay
  <2>1. CASE UNCHANGED <<pools, closed>>
    BY <1>1, <2>1, NoneKeepsPools
  <2>2. CASE makeRoom(s) /\ ~UNCHANGED <<pools, closed>>
    <3>1. PICK p : Takes(s, p) /\ UNCHANGED closed
      BY <2>2 DEF makeRoom
    <3> QED BY <1>1, <3>1, TakesKeepsPools
  <2>3. CASE connect(s) /\ ~UNCHANGED <<pools, closed>>
    <3>1. PICK p : Takes(s, p) /\ UNCHANGED closed
      BY <2>3 DEF connect
    <3> QED BY <1>1, <3>1, TakesKeepsPools
  <2> QED BY <2>1, <2>2, <2>3 DEF takePlace, placeTimeout, otherPools, readPlaces, countIdle, roomMade,
                                  endStatement, freePlace
<1>3. PICK to : /\ Becomes(s, to) /\ Same(s, to) /\ to.at \notin {"rests", "late"}
  <2>1. ASSUME NEW where, At(s, where), where \notin {"rests", "late"}
        PROVE  \E to : Becomes(s, to) /\ Same(s, to) /\ to.at \notin {"rests", "late"}
    <3>1. /\ Same(s, [agent[s] EXCEPT !.at = where])
          /\ [agent[s] EXCEPT !.at = where].at \notin {"rests", "late"}
      BY <1>1, <2>1 DEF Same
    <3> QED BY <2>1, <3>1 DEF At
  <2>2. CASE takePlace(s) \/ placeTimeout(s) \/ roomMade(s) \/ endStatement(s) \/ freePlace(s)
    BY <2>1, <2>2 DEF takePlace, placeTimeout, roomMade, endStatement, freePlace
  <2>3. CASE otherPools(s)
    <3> DEFINE others == Living \ {agent[s].pool}
               to == [agent[s] EXCEPT !.at = "looks", !.others = others, !.todo = others]
    <3>1. At(s, "connects") \/ Becomes(s, to)
      BY <2>3 DEF otherPools
    <3>2. Same(s, to) /\ to.at = "looks"
      BY <1>1 DEF Same
    <3> HIDE DEF to
    <3> QED BY <2>1, <3>1, <3>2
  <2>4. CASE readPlaces(s)
    <3> DEFINE to == [agent[s] EXCEPT !.at = "counts", !.sum = Places - MaxPerTarget]
    <3>1. Becomes(s, to)
      BY <2>4 DEF readPlaces
    <3>2. Same(s, to) /\ to.at = "counts"
      BY <1>1 DEF Same
    <3> HIDE DEF to
    <3> QED BY <3>1, <3>2
  <2>5. CASE countIdle(s)
    <3> DEFINE rooms == [agent[s] EXCEPT !.at = "rooms", !.todo = agent[s].others]
               none  == [Looked(agent[s]) EXCEPT !.at = "connects"]
               one(q) == [agent[s] EXCEPT !.todo = @ \ {q}, !.sum = @ + IdleOf(q)]
    <3>1. Becomes(s, rooms) \/ Becomes(s, none) \/ \E q : Becomes(s, one(q))
      BY <2>5 DEF countIdle
    <3>2. agent[s].at = "counts"
      BY <2>5 DEF countIdle
    <3>3. Same(s, rooms) /\ rooms.at = "rooms"
      BY <1>1 DEF Same
    <3>4. Same(s, none) /\ none.at = "connects"
      BY <1>1 DEF Same, Looked
    <3>5. \A q : Same(s, one(q)) /\ one(q).at = "counts"
      BY <1>1, <3>2 DEF Same
    <3> HIDE DEF rooms, none, one
    <3> QED BY <3>1, <3>3, <3>4, <3>5
  <2>6. CASE makeRoom(s)
    <3> DEFINE takes(q) == [agent[s] EXCEPT !.sum = @ - 1, !.closing = Append(@, q)]
               leaves(q) == [agent[s] EXCEPT !.todo = @ \ {q}]
               awaits == [Looked(agent[s]) EXCEPT !.at = "awaits"]
    <3>1. Becomes(s, awaits) \/ \E q : Becomes(s, takes(q)) \/ Becomes(s, leaves(q))
      BY <2>6 DEF makeRoom
    <3>2. agent[s].at = "rooms"
      BY <2>6 DEF makeRoom
    <3>3. Same(s, awaits) /\ awaits.at = "awaits"
      BY <1>1 DEF Same, Looked
    <3>4. \A q : Same(s, takes(q)) /\ takes(q).at = "rooms"
      BY <1>1, <3>2 DEF Same
    <3>5. \A q : Same(s, leaves(q)) /\ leaves(q).at = "rooms"
      BY <1>1, <3>2 DEF Same
    <3> HIDE DEF takes, leaves, awaits
    <3> QED BY <3>1, <3>3, <3>4, <3>5
  <2>7. CASE connect(s)
    <3> DEFINE got == [agent[s] EXCEPT !.at = "uses", !.have = 1]
    <3>1. Becomes(s, got) \/ At(s, "over")
      BY <2>7 DEF connect
    <3>2. Same(s, got) /\ got.at = "uses"
      BY <1>1 DEF Same
    <3> HIDE DEF got
    <3> QED BY <2>1, <3>1, <3>2
  <2> QED BY <2>2, <2>3, <2>4, <2>5, <2>6, <2>7
<1> QED BY <1>1, <1>2, <1>3, AtGoesOn, StayKeepsPools

\* One of the agents gives a connection back.
LEMMA ReturnedGoesOn ==
  ASSUME PoolsInv, NEW a \in Agents, agent[a].at \in {"tallies", "returns"}, Returned(a),
         UNCHANGED closed
  PROVE  /\ PoolsStay
         /\ \E to : Becomes(a, to) /\ Same(a, to) /\ to.at \notin {"rests", "late"}
<1> DEFINE p == agent[a].pool
           to == [Looked(agent[a]) EXCEPT !.at = "over", !.have = @ - 1]
<1>1. SQLTyped /\ {"at", "pool"} \subseteq DOMAIN agent[a]
  BY DEF PoolsInv, SQLTyped
<1>2. PoolsStay
  <2>1. CASE UNCHANGED pools
    BY <1>1, <2>1, NoneKeepsPools
  <2>2. CASE p \in DOMAIN pools /\ pools[p].idle < MaxIdlePer /\ KeepsIdle(p, pools[p].idle + 1)
    <3>1. pools[p].idle + 1 \in 0..MaxIdlePer
      BY <1>1, <2>2, SQLAssumption DEF SQLTyped, PoolStates
    <3> HIDE DEF p
    <3> QED BY <1>1, <2>2, <3>1, IdleKeepsPools
  <2> QED BY <2>1, <2>2 DEF Returned
<1>3. Becomes(a, to)
  BY DEF Returned
<1>4. Same(a, to) /\ to.at = "over"
  BY <1>1 DEF Same, Looked
<1> HIDE DEF to
<1> QED BY <1>2, <1>3, <1>4

LEMMA GivesKeepPools == ASSUME PoolsInv, NEW a \in Agents, Gives(a) PROVE PoolsInv'
<1>1. /\ SQLTyped /\ {"at", "pool"} \subseteq DOMAIN agent[a]
      /\ agent[a].at \in {"gives", "queues", "tallies", "returns", "discards"}
      /\ agent[a].at \notin {"rests", "late"}
  BY DEF PoolsInv, SQLTyped, Gives, giveBack, lockGiving, tallyIdle, keepIdle, returnConn, discardConn
<1>2. ASSUME NEW where, At(a, where), where \notin {"rests", "late"}
      PROVE  \E to : Becomes(a, to) /\ Same(a, to) /\ to.at \notin {"rests", "late"}
  <2>1. /\ Same(a, [agent[a] EXCEPT !.at = where])
        /\ [agent[a] EXCEPT !.at = where].at \notin {"rests", "late"}
    BY <1>1, <1>2 DEF Same
  <2> QED BY <1>2, <2>1 DEF At
<1>3. /\ PoolsStay
      /\ \E to : Becomes(a, to) /\ Same(a, to) /\ to.at \notin {"rests", "late"}
  <2>1. CASE giveBack(a)
    <3> DEFINE to == [agent[a] EXCEPT !.at = "queues", !.others = Living, !.todo = Living]
    <3>1. At(a, "discards") \/ At(a, "returns") \/ Becomes(a, to)
      BY <2>1 DEF giveBack
    <3>2. Same(a, to) /\ to.at = "queues"
      BY <1>1 DEF Same
    <3> HIDE DEF to
    <3>3. PoolsStay
      BY <1>1, <2>1, NoneKeepsPools DEF giveBack
    <3> QED BY <1>2, <3>1, <3>2, <3>3
  <2>2. CASE lockGiving(a)
    <3> DEFINE to == [agent[a] EXCEPT !.at = "tallies", !.sum = 0]
    <3>1. Becomes(a, to)
      BY <2>2 DEF lockGiving
    <3>2. Same(a, to) /\ to.at = "tallies"
      BY <1>1 DEF Same
    <3> HIDE DEF to
    <3>3. PoolsStay
      BY <1>1, <2>2, NoneKeepsPools DEF lockGiving
    <3> QED BY <3>1, <3>2, <3>3
  <2>3. CASE tallyIdle(a)
    <3> DEFINE to(q) == [agent[a] EXCEPT !.todo = @ \ {q}, !.sum = @ + IdleOf(q)]
    <3>1. agent[a].at = "tallies" /\ \E q : Becomes(a, to(q))
      BY <2>3 DEF tallyIdle
    <3>2. \A q : Same(a, to(q)) /\ to(q).at = "tallies"
      BY <1>1, <3>1 DEF Same
    <3> HIDE DEF to
    <3>3. PoolsStay
      BY <1>1, <2>3, NoneKeepsPools DEF tallyIdle
    <3> QED BY <3>1, <3>2, <3>3
  <2>4. CASE keepIdle(a)
    <3> DEFINE to == [Looked(agent[a]) EXCEPT !.at = "discards"]
    <3>1. \/ Returned(a) /\ UNCHANGED closed
          \/ Becomes(a, to) /\ UNCHANGED pools /\ UNCHANGED closed
      BY <2>4 DEF keepIdle
    <3>2. Same(a, to) /\ to.at = "discards"
      BY <1>1 DEF Same, Looked
    <3>3. agent[a].at = "tallies"
      BY <2>4 DEF keepIdle
    <3> HIDE DEF to
    <3> QED BY <1>1, <3>1, <3>2, <3>3, ReturnedGoesOn, NoneKeepsPools
  <2>5. CASE returnConn(a)
    BY <2>5, ReturnedGoesOn DEF returnConn
  <2>6. CASE discardConn(a)
    <3> DEFINE to == [agent[a] EXCEPT !.at = "over", !.have = @ - 1]
    <3>1. Becomes(a, to)
      BY <2>6 DEF discardConn
    <3>2. Same(a, to) /\ to.at = "over"
      BY <1>1 DEF Same
    <3> HIDE DEF to
    <3>3. PoolsStay
      BY <1>1, <2>6, NoneKeepsPools DEF discardConn
    <3> QED BY <3>1, <3>2, <3>3
  <2> QED BY <2>1, <2>2, <2>3, <2>4, <2>5, <2>6 DEF Gives
<1> QED BY <1>1, <1>3, AtGoesOn, StayKeepsPools

\* The keepalive uses no pool.
PingerSteps == (\E p \in Living : beginRound(p)) \/ pingPlace \/ pingConn \/ pingOver

LEMMA PingerKeepsPools == ASSUME PoolsInv, PingerSteps PROVE PoolsInv'
<1>1. SQLTyped /\ {"at", "pool"} \subseteq DOMAIN agent[Pinger] /\ Pinger \in Agents /\ Pinger \notin SQLScrapes
  BY SQLAssumption DEF PoolsInv, SQLTyped, Agents
<1>2. PoolsStay
  <2>1. CASE UNCHANGED <<pools, closed>>
    BY <1>1, <2>1, NoneKeepsPools
  <2>2. CASE ~UNCHANGED <<pools, closed>>
    <3>1. PICK p : Takes(Pinger, p) /\ UNCHANGED closed
      BY <2>2 DEF PingerSteps, beginRound, pingPlace, pingConn, pingOver
    <3> QED BY <1>1, <3>1, TakesKeepsPools
  <2> QED BY <2>1, <2>2
<1>3. PICK to : Becomes(Pinger, to) /\ {"at", "pool"} \subseteq DOMAIN to
  <2> DEFINE begins(p) == [Resting EXCEPT !.at = "takes", !.pool = p, !.sum = pools[p].idle]
             gives == [agent[Pinger] EXCEPT !.at = "gives", !.sum = 0]
             asks  == [agent[Pinger] EXCEPT !.at = "asks"]
             takes == [agent[Pinger] EXCEPT !.at = "takes", !.have = @ + 1]
  <2>1. \/ Becomes(Pinger, Resting) \/ Becomes(Pinger, gives) \/ Becomes(Pinger, asks)
        \/ Becomes(Pinger, takes) \/ \E p : Becomes(Pinger, begins(p))
    BY DEF PingerSteps, beginRound, pingPlace, pingConn, pingOver, Pinged, At
  <2>2. {"at", "pool"} \subseteq DOMAIN Resting /\ \A p : {"at", "pool"} \subseteq DOMAIN begins(p)
    BY DEF Resting
  <2>3. /\ {"at", "pool"} \subseteq DOMAIN gives
        /\ {"at", "pool"} \subseteq DOMAIN asks
        /\ {"at", "pool"} \subseteq DOMAIN takes
    BY <1>1
  <2> HIDE DEF begins, gives, asks, takes
  <2> QED BY <2>1, <2>2, <2>3
<1>4. GoesOn(Pinger, to)
  BY <1>1, <1>3 DEF GoesOn, Becomes
<1> QED BY <1>1, <1>2, <1>4, StayKeepsPools

\* What a scrape was to close is closed, before it ends or after.
LEMMA ConnClosedKeepsPools == ASSUME PoolsInv, NEW s \in SQLScrapes, connClosed(s) PROVE PoolsInv'
<1> DEFINE to(i) == [agent[s] EXCEPT !.closing = RemoveAt(@, i)]
<1>1. PICK i : Becomes(s, to(i))
  BY DEF connClosed
<1>2. SQLTyped /\ {"at", "pool"} \subseteq DOMAIN agent[s] /\ s \in Agents
  BY DEF PoolsInv, SQLTyped, Agents
<1>3. {"at", "pool"} \subseteq DOMAIN to(i) /\ to(i).at = agent[s].at /\ to(i).pool = agent[s].pool
  BY <1>2
<1>4. PoolsStay
  BY <1>2, NoneKeepsPools DEF connClosed
<1> HIDE DEF to
<1>5. GoesOn(s, to(i))
  BY <1>1, <1>3 DEF GoesOn, Becomes
<1> QED BY <1>2, <1>4, <1>5, StayKeepsPools

\* What a scrape and the pools come to: those that go are used by none, and
\* those that are closed by others.
LEMMA PoolsFollow ==
  ASSUME PoolsInv, SQLTyped',
         \A s \in SQLScrapes : agent'[s].at = "rests" => agent'[s].pool = <<>>,
         \A s \in SQLScrapes : agent'[s].at \notin {"rests", "late"} => agent'[s].pool \in DOMAIN pools',
         \A p \in DOMAIN pools' : pools'[p].closed =>
            \E s \in SQLScrapes : agent'[s].pool = p /\ agent'[s].at # "late"
  PROVE  PoolsInv'
<1>1. \A p \in DOMAIN pools' : pools'[p].idle \in 0..MaxIdlePer
  BY DEF SQLTyped, PoolStates
<1> QED BY <1>1 DEF PoolsInv, RestingUsesNone, PoolsAsUsed, Using

\* That the round counts for no target any more changes nothing else.
LEMMA ForgettingShaped ==
  ASSUME NEW agents, DOMAIN agents = Agents, agents = [a \in Agents |-> agents[a]],
         \A a \in Agents : {"at", "pool"} \subseteq DOMAIN agents[a], NEW S,
         agent' = Forgetting(agents, S)
  PROVE  /\ DOMAIN agent' = Agents /\ agent' = [a \in Agents |-> agent'[a]]
         /\ \A a \in Agents : {"at", "pool"} \subseteq DOMAIN agent'[a]
         /\ \A s \in SQLScrapes : agent'[s] = agents[s]
<1> DEFINE forgets == [agents[Pinger] EXCEPT !.forgotten = TRUE]
<1>1. Pinger \in Agents /\ Pinger \notin SQLScrapes /\ \A s \in SQLScrapes : s \in Agents
  BY SQLAssumption DEF Agents
<1>2. {"at", "pool"} \subseteq DOMAIN forgets
  BY <1>1
<1>3. agent' = agents \/ agent' = [agents EXCEPT ![Pinger] = forgets]
  BY <1>1 DEF Forgetting
<1> HIDE DEF forgets
<1> QED BY <1>1, <1>2, <1>3

LEMMA ReleaseKeepsPools == ASSUME PoolsInv, NEW s \in SQLScrapes, release(s) PROVE PoolsInv'
<1> DEFINE p == agent[s].pool
           late == [agent[s] EXCEPT !.at = "late"]
           left == IF agent[s].closing = <<>> THEN Resting ELSE late
           last == pools[p].closed /\ Using(p) = {s}
<1>1. /\ agent[s].at = "leaves" /\ UNCHANGED closed
      /\ \/ /\ last /\ pools' = Without({p})
            /\ agent' = Forgetting([agent EXCEPT ![s] = left], {p})
         \/ ~last /\ Becomes(s, left) /\ UNCHANGED pools
  BY DEF release
<1>2. s \in Agents /\ \A t \in SQLScrapes : t \in Agents
  BY DEF Agents
<1>3. {"at", "pool"} \subseteq DOMAIN late /\ late.at = "late"
  BY <1>2 DEF PoolsInv, SQLTyped
<1>4. /\ {"at", "pool"} \subseteq DOMAIN left
      /\ (left.at = "rests" /\ left.pool = <<>>) \/ left.at = "late"
  <2>1. {"at", "pool"} \subseteq DOMAIN Resting /\ Resting.at = "rests" /\ Resting.pool = <<>>
    BY DEF Resting
  <2>2. left = Resting \/ left = late
    OBVIOUS
  <2> HIDE DEF left, late
  <2> QED BY <1>3, <2>1, <2>2
<1> HIDE DEF left, late
<1>5. p \in DOMAIN pools /\ s \in Using(p)
  BY <1>1 DEF PoolsInv, PoolsAsUsed, Using
<1> DEFINE agents == [agent EXCEPT ![s] = left]
<1>6. /\ DOMAIN agents = Agents /\ agents = [a \in Agents |-> agents[a]]
      /\ \A a \in Agents : {"at", "pool"} \subseteq DOMAIN agents[a]
      /\ \A t \in SQLScrapes : agents[t] = IF t = s THEN left ELSE agent[t]
  BY <1>2, <1>4 DEF PoolsInv, SQLTyped
<1> HIDE DEF agents
<1>7. /\ DOMAIN agent' = Agents /\ agent' = [a \in Agents |-> agent'[a]]
      /\ \A a \in Agents : {"at", "pool"} \subseteq DOMAIN agent'[a]
      /\ \A t \in SQLScrapes : agent'[t] = IF t = s THEN left ELSE agent[t]
  <2>1. agent' = Forgetting(agents, {p}) \/ agent' = agents
    BY <1>1 DEF agents, Becomes
  <2> HIDE DEF p
  <2> QED BY <1>6, <2>1, ForgettingShaped
<1>8. CASE last
  <2>1. /\ DOMAIN pools' = DOMAIN pools \ {p} /\ \A q \in DOMAIN pools' : pools'[q] = pools[q]
        /\ pools' \in [DOMAIN pools' -> PoolStates]
    BY <1>1, <1>8 DEF Without, PoolsInv, SQLTyped
  <2>2. SQLTyped'
    BY <1>1, <1>7, <2>1 DEF PoolsInv, SQLTyped
  <2>3. ASSUME NEW t \in SQLScrapes, agent'[t].at \notin {"rests", "late"} PROVE agent'[t].pool \in DOMAIN pools'
    <3>1. t # s /\ agent'[t] = agent[t]
      BY <1>4, <1>7, <2>3
    <3>2. agent[t].pool # p
      BY <1>8, <2>3, <3>1 DEF Using
    <3> QED BY <2>1, <2>3, <3>1, <3>2 DEF PoolsInv, PoolsAsUsed
  <2>4. ASSUME NEW q \in DOMAIN pools', pools'[q].closed
        PROVE  \E t \in SQLScrapes : agent'[t].pool = q /\ agent'[t].at # "late"
    <3>1. PICK t \in SQLScrapes : agent[t].pool = q /\ agent[t].at # "late"
      BY <2>1, <2>4 DEF PoolsInv, PoolsAsUsed, Using
    <3> QED BY <1>7, <2>1, <3>1
  <2>5. \A t \in SQLScrapes : agent'[t].at = "rests" => agent'[t].pool = <<>>
    BY <1>4, <1>7 DEF PoolsInv, RestingUsesNone
  <2> QED BY <2>2, <2>3, <2>4, <2>5, PoolsFollow
<1>9. CASE ~last
  <2>1. UNCHANGED pools
    BY <1>1, <1>9
  <2>2. SQLTyped'
    BY <1>1, <1>7, <2>1 DEF PoolsInv, SQLTyped
  <2>3. ASSUME NEW t \in SQLScrapes, agent'[t].at \notin {"rests", "late"} PROVE agent'[t].pool \in DOMAIN pools'
    BY <1>4, <1>7, <2>1, <2>3 DEF PoolsInv, PoolsAsUsed
  <2>4. ASSUME NEW q \in DOMAIN pools, pools[q].closed
        PROVE  \E t \in SQLScrapes : agent'[t].pool = q /\ agent'[t].at # "late"
    <3>1. PICK t \in Using(q) : t # s
      <4>1. CASE q = p
        BY <1>5, <1>9, <2>4, <4>1
      <4>2. CASE q # p
        BY <2>4, <4>2 DEF PoolsInv, PoolsAsUsed, Using
      <4> QED BY <4>1, <4>2
    <3> QED BY <1>7, <3>1 DEF Using
  <2>5. \A t \in SQLScrapes : agent'[t].at = "rests" => agent'[t].pool = <<>>
    BY <1>4, <1>7 DEF PoolsInv, RestingUsesNone
  <2> QED BY <2>1, <2>2, <2>3, <2>4, <2>5, PoolsFollow
<1> QED BY <1>8, <1>9

LEMMA LateClosedKeepsPools == ASSUME PoolsInv, NEW s \in SQLScrapes, lateClosed(s) PROVE PoolsInv'
<1>1. /\ agent[s].at = "late" /\ agent' = [agent EXCEPT ![s] = Resting]
      /\ UNCHANGED pools /\ UNCHANGED closed
  BY DEF lateClosed, Becomes
<1>2. {"at", "pool"} \subseteq DOMAIN Resting /\ Resting.at = "rests" /\ Resting.pool = <<>>
  BY DEF Resting
<1>3. SQLTyped'
  BY <1>1, <1>2 DEF PoolsInv, SQLTyped
<1>4. \A t \in SQLScrapes : agent'[t] = IF t = s THEN Resting ELSE agent[t]
  BY <1>1 DEF PoolsInv, SQLTyped, Agents
<1>5. ASSUME NEW p \in DOMAIN pools, pools[p].closed
      PROVE  \E t \in SQLScrapes : agent'[t].pool = p /\ agent'[t].at # "late"
  <2>1. PICK t \in SQLScrapes : agent[t].pool = p /\ agent[t].at # "late"
    BY <1>5 DEF PoolsInv, PoolsAsUsed, Using
  <2> QED BY <1>1, <1>4, <2>1
<1>6. \A t \in SQLScrapes : agent'[t].at = "rests" => agent'[t].pool = <<>>
  BY <1>2, <1>4 DEF PoolsInv, RestingUsesNone
<1>7. \A t \in SQLScrapes : agent'[t].at \notin {"rests", "late"} => agent'[t].pool \in DOMAIN pools'
  BY <1>1, <1>2, <1>4 DEF PoolsInv, PoolsAsUsed
<1> QED BY <1>1, <1>3, <1>5, <1>6, <1>7, PoolsFollow

\* A scrape gets a pool, the one of its database or a new one for which one
\* that none uses is closed.
LEMMA AcquireKeepsPools ==
  ASSUME PoolsInv, NEW s \in SQLScrapes, NEW d \in Databases, acquire(s, d)
  PROVE  PoolsInv'
<1> DEFINE has(p) == [Resting EXCEPT !.at = "waits", !.pool = p]
<1>1. PICK p, gone :
        /\ agent[s].at = "rests" /\ Becomes(s, has(p)) /\ gone \subseteq DOMAIN pools
        /\ \A q \in gone : Using(q) = {}
        /\ \/ p \in DOMAIN pools /\ gone = {} /\ UNCHANGED <<pools, closed>>
           \/ /\ closed' \in Nat /\ p = <<d, closed'>>
              /\ pools' = [q \in (DOMAIN pools \ gone) \cup {p} |-> IF q = p THEN Opened ELSE pools[q]]
  <2>1. CASE PoolOf(d) # {}
    <3>1. PICK q \in PoolOf(d) : Becomes(s, has(q)) /\ UNCHANGED <<pools, closed>>
      BY <2>1 DEF acquire
    <3> HIDE DEF has
    <3>2. q \in DOMAIN pools /\ agent[s].at = "rests"
      BY <3>1 DEF acquire, PoolOf, Living
    <3> WITNESS q, {}
    <3> QED BY <3>1, <3>2
  <2>2. CASE PoolOf(d) = {}
    <3>1. PICK gone \in SUBSET Living :
            /\ IF Cardinality(Living) < MaxPerTarget
                 THEN gone = {}
                 ELSE Cardinality(gone) = 1 /\ \A q \in gone : Using(q) = {}
            /\ closed' = closed + Cardinality(gone)
            /\ pools' = [p \in (DOMAIN pools \ gone) \cup {<<d, closed'>>} |->
                           IF p = <<d, closed'>> THEN Opened ELSE pools[p]]
            /\ Becomes(s, has(<<d, closed'>>))
      BY <2>2 DEF acquire
    <3>2. gone = {} => Cardinality(gone) = 0
      BY FS_EmptySet
    <3>3. closed' \in Nat
      BY <3>1, <3>2 DEF PoolsInv, SQLTyped
    <3>4. gone \subseteq DOMAIN pools /\ \A q \in gone : Using(q) = {}
      BY <3>1 DEF Living
    <3> HIDE DEF has
    <3> QED BY <3>1, <3>3, <3>4 DEF acquire
  <2> QED BY <2>1, <2>2
<1>2. {"at", "pool"} \subseteq DOMAIN has(p) /\ has(p).at = "waits" /\ has(p).pool = p
  BY DEF Resting
<1> HIDE DEF has
<1>3. s \in Agents /\ \A t \in SQLScrapes : t \in Agents
  BY DEF Agents
<1>4. /\ DOMAIN agent' = Agents /\ agent' = [a \in Agents |-> agent'[a]]
      /\ \A a \in Agents : {"at", "pool"} \subseteq DOMAIN agent'[a]
      /\ \A t \in SQLScrapes : agent'[t] = IF t = s THEN has(p) ELSE agent[t]
  BY <1>1, <1>2, <1>3 DEF PoolsInv, SQLTyped, Becomes
<1>5. Opened \in PoolStates /\ ~Opened.closed
  BY SQLAssumption DEF Opened, PoolStates
<1>6. /\ DOMAIN pools' = (DOMAIN pools \ gone) \cup {p} /\ DOMAIN pools' \subseteq PoolIds
      /\ pools' \in [DOMAIN pools' -> PoolStates] /\ closed' \in Nat
      /\ \A q \in DOMAIN pools' : pools'[q].closed => q \in DOMAIN pools /\ pools[q].closed
  <2>1. CASE UNCHANGED <<pools, closed>> /\ gone = {} /\ p \in DOMAIN pools
    BY <2>1 DEF PoolsInv, SQLTyped
  <2>2. CASE /\ closed' \in Nat /\ p = <<d, closed'>>
             /\ pools' = [q \in (DOMAIN pools \ gone) \cup {p} |-> IF q = p THEN Opened ELSE pools[q]]
    BY <1>5, <2>2 DEF PoolsInv, SQLTyped, PoolIds
  <2> QED BY <1>1, <2>1, <2>2
<1>7. SQLTyped'
  BY <1>4, <1>6 DEF SQLTyped
<1>8. ASSUME NEW t \in SQLScrapes, agent'[t].at \notin {"rests", "late"} PROVE agent'[t].pool \in DOMAIN pools'
  <2>1. CASE t = s
    BY <1>2, <1>4, <1>6, <2>1
  <2>2. CASE t # s
    <3>1. agent'[t] = agent[t] /\ agent[t].pool \in DOMAIN pools
      BY <1>4, <1>8, <2>2 DEF PoolsInv, PoolsAsUsed
    <3>2. agent[t].pool \notin gone
      BY <1>1, <1>8, <3>1 DEF Using
    <3> QED BY <1>6, <3>1, <3>2
  <2> QED BY <2>1, <2>2
<1>9. ASSUME NEW q \in DOMAIN pools', pools'[q].closed
      PROVE  \E t \in SQLScrapes : agent'[t].pool = q /\ agent'[t].at # "late"
  <2>1. q \in PoolIds
    BY <1>6
  <2>2. PICK t \in SQLScrapes : agent[t].pool = q /\ agent[t].at # "late"
    BY <1>6, <1>9 DEF PoolsInv, PoolsAsUsed, Using
  <2>3. q # <<>>
    BY <2>1 DEF PoolIds
  <2>4. t # s
    BY <1>1, <2>2, <2>3 DEF PoolsInv, RestingUsesNone
  <2> QED BY <1>4, <2>2, <2>4
<1>10. \A t \in SQLScrapes : agent'[t].at = "rests" => agent'[t].pool = <<>>
  BY <1>2, <1>4 DEF PoolsInv, RestingUsesNone
<1> QED BY <1>7, <1>8, <1>9, <1>10, PoolsFollow

\* What befalls a pool: it is closed, or loses idle connections.
LEMMA BefallsKeepsPools ==
  ASSUME PoolsInv, NEW p \in DOMAIN pools, closePool(p) \/ closeIdle(p) \/ expire(p)
  PROVE  PoolsInv'
<1>1. SQLTyped /\ pools[p] \in PoolStates /\ \A s \in SQLScrapes : s \in Agents
  BY DEF PoolsInv, SQLTyped, Agents
<1>2. ASSUME UNCHANGED agent, SQLTyped', DOMAIN pools' = DOMAIN pools,
             \A q \in DOMAIN pools : pools'[q].closed => Using(q) # {}
      PROVE  PoolsInv'
  BY <1>2, PoolsFollow DEF PoolsInv, RestingUsesNone, PoolsAsUsed, Using
<1>3. CASE closePool(p)
  <2>1. CASE Using(p) = {}
    <3>1. /\ pools' = Without({p}) /\ agent' = Forgetting(agent, {p}) /\ closed' = closed + 1
      BY <1>3, <2>1 DEF closePool
    <3>2. /\ DOMAIN pools' = DOMAIN pools \ {p} /\ \A q \in DOMAIN pools' : pools'[q] = pools[q]
          /\ pools' \in [DOMAIN pools' -> PoolStates]
      BY <1>1, <3>1 DEF Without, SQLTyped
    <3>3. /\ DOMAIN agent' = Agents /\ agent' = [a \in Agents |-> agent'[a]]
          /\ \A a \in Agents : {"at", "pool"} \subseteq DOMAIN agent'[a]
          /\ \A s \in SQLScrapes : agent'[s] = agent[s]
      BY <1>1, <3>1, ForgettingShaped DEF SQLTyped
    <3>4. SQLTyped'
      <4>1. closed' \in Nat /\ DOMAIN pools' \subseteq PoolIds
        BY <1>1, <3>1, <3>2 DEF SQLTyped
      <4> QED BY <3>2, <3>3, <4>1 DEF SQLTyped
    <3>5. \A s \in SQLScrapes : agent'[s].at \notin {"rests", "late"} => agent'[s].pool \in DOMAIN pools'
      BY <2>1, <3>2, <3>3 DEF PoolsInv, PoolsAsUsed, Using
    <3>6. \A q \in DOMAIN pools' : pools'[q].closed =>
            \E s \in SQLScrapes : agent'[s].pool = q /\ agent'[s].at # "late"
      BY <3>2, <3>3 DEF PoolsInv, PoolsAsUsed, Using
    <3>7. \A s \in SQLScrapes : agent'[s].at = "rests" => agent'[s].pool = <<>>
      BY <3>3 DEF PoolsInv, RestingUsesNone
    <3> QED BY <3>4, <3>5, <3>6, <3>7, PoolsFollow
  <2>2. CASE Using(p) # {}
    <3> DEFINE new == [pools[p] EXCEPT !.closed = TRUE]
    <3>1. /\ pools' = [pools EXCEPT ![p] = new] /\ UNCHANGED agent /\ closed' = closed + 1
      BY <1>3, <2>2 DEF closePool
    <3>2. new \in PoolStates
      BY <1>1 DEF PoolStates
    <3> HIDE DEF new
    <3>3. SQLTyped' /\ DOMAIN pools' = DOMAIN pools
      BY <1>1, <3>1, <3>2 DEF SQLTyped
    <3>4. \A q \in DOMAIN pools : pools'[q].closed => Using(q) # {}
      BY <2>2, <3>1 DEF PoolsInv, PoolsAsUsed
    <3> QED BY <1>2, <3>1, <3>3, <3>4
  <2> QED BY <2>1, <2>2
<1>4. CASE closeIdle(p)
  <2> DEFINE new == [pools[p] EXCEPT !.keeps = FALSE, !.idle = 0]
  <2>1. pools' = [pools EXCEPT ![p] = new] /\ UNCHANGED agent /\ UNCHANGED closed
    BY <1>1, <1>4 DEF closeIdle, SQLTyped
  <2>2. new \in PoolStates /\ new.closed = pools[p].closed
    <3>1. 0 \in 0..MaxIdlePer
      BY SQLAssumption
    <3> QED BY <1>1, <3>1 DEF PoolStates
  <2> HIDE DEF new
  <2>3. SQLTyped' /\ DOMAIN pools' = DOMAIN pools
    BY <1>1, <2>1, <2>2 DEF SQLTyped
  <2>4. \A q \in DOMAIN pools : pools'[q].closed => Using(q) # {}
    BY <2>1, <2>2 DEF PoolsInv, PoolsAsUsed
  <2> QED BY <1>2, <2>1, <2>3, <2>4
<1>5. CASE expire(p)
  <2>1. PoolsStay
    <3>1. pools[p].idle - 1 \in 0..MaxIdlePer /\ KeepsIdle(p, pools[p].idle - 1) /\ UNCHANGED closed
      BY <1>1, <1>5, SQLAssumption DEF expire, PoolStates
    <3> QED BY <1>1, <3>1, IdleKeepsPools
  <2>2. UNCHANGED agent
    BY <1>5 DEF expire
  <2>3. SQLTyped' /\ DOMAIN pools' = DOMAIN pools
    BY <1>1, <2>1, <2>2 DEF SQLTyped, PoolsStay
  <2>4. \A q \in DOMAIN pools : pools'[q].closed => Using(q) # {}
    BY <2>1 DEF PoolsStay, PoolsInv, PoolsAsUsed
  <2> QED BY <1>2, <2>2, <2>3, <2>4
<1> QED BY <1>3, <1>4, <1>5

LEMMA InitialPools == SQLInit => PoolsInv
<1> SUFFICES ASSUME SQLInit PROVE PoolsInv
  OBVIOUS
<1>1. {"at", "pool"} \subseteq DOMAIN Resting /\ Resting.at = "rests" /\ Resting.pool = <<>>
  BY DEF Resting
<1>2. DOMAIN pools = {} /\ pools \in [DOMAIN pools -> PoolStates]
  BY DEF SQLInit
<1>3. agent = [a \in Agents |-> Resting] /\ closed = 0 /\ \A s \in SQLScrapes : s \in Agents
  BY DEF SQLInit, Agents
<1> QED BY <1>1, <1>2, <1>3 DEF PoolsInv, SQLTyped, RestingUsesNone, PoolsAsUsed

LEMMA PoolsStep == PoolsInv /\ [SQLNext]_sqlvars => PoolsInv'
<1> SUFFICES ASSUME PoolsInv, [SQLNext]_sqlvars PROVE PoolsInv'
  OBVIOUS
<1>1. ASSUME NEW s \in SQLScrapes, Scrapes(s) PROVE PoolsInv'
  BY <1>1, ScrapesKeepPools, ConnClosedKeepsPools, ReleaseKeepsPools, LateClosedKeepsPools DEF Scrapes
<1>2. ASSUME NEW s \in SQLScrapes, NEW d \in Databases, acquire(s, d) PROVE PoolsInv'
  BY <1>2, AcquireKeepsPools
<1>3. ASSUME NEW a \in Agents, Gives(a) PROVE PoolsInv'
  BY <1>3, GivesKeepPools
<1>4. ASSUME (\E p \in Living : beginRound(p)) \/ pingPlace \/ pingConn \/ pingOver PROVE PoolsInv'
  BY <1>4, PingerKeepsPools DEF PingerSteps
<1>5. ASSUME NEW p \in DOMAIN pools, closePool(p) \/ closeIdle(p) \/ expire(p) PROVE PoolsInv'
  BY <1>5, BefallsKeepsPools
<1>6. ASSUME UNCHANGED sqlvars PROVE PoolsInv'
  BY <1>6 DEF sqlvars, PoolsInv, SQLTyped, RestingUsesNone, PoolsAsUsed, Using
<1> QED BY <1>1, <1>2, <1>3, <1>4, <1>5, <1>6 DEF SQLNext

\* A pool stays open as long as a scrape that got it has not given it up, and
\* one that a reload closed, or room was made of, no longer (sqlPool.inUse,
\* closePool and release), for any databases, scrapes and limits.
THEOREM PoolsOpenAsUsed == SQLSpec => []PoolsAsUsed
<1>1. PoolsInv => PoolsAsUsed
  BY DEF PoolsInv
<1> QED BY <1>1, InitialPools, PoolsStep, PTL DEF SQLSpec

-----------------------------------------------------------------------------
(* The connections of a pool, and the places. *)

ScrapePlaces ==
  {"rests", "waits", "placed", "looks", "counts", "rooms", "awaits", "connects", "uses",
   "gives", "queues", "tallies", "returns", "discards", "over", "leaves", "late"}
RoundPlaces ==
  {"rests", "takes", "asks", "gives", "queues", "tallies", "returns", "discards", "over"}
Holding == {"uses", "gives", "queues", "tallies", "returns", "discards"}

AgentStates ==
  [at : ScrapePlaces \cup RoundPlaces, pool : PoolIds \cup {<<>>},
   others : SUBSET PoolIds, todo : SUBSET PoolIds, sum : Int, have : Nat,
   closing : Seq(PoolIds), forgotten : BOOLEAN]

\* A scrape has a connection from when it got it until it has given it back or
\* closed it, and the round as many as it has yet to give back.
Fits(a, st) ==
  IF a = Pinger
    THEN /\ st.at \in RoundPlaces /\ st.closing = <<>>
         /\ st.at = "rests" => st.have = 0 /\ ~st.forgotten
         /\ st.at \in Holding => st.have > 0
    ELSE /\ st.at \in ScrapePlaces /\ ~st.forgotten
         /\ st.have = IF st.at \in Holding THEN 1 ELSE 0

AgentsFit == agent \in [Agents -> AgentStates] /\ \A a \in Agents : Fits(a, agent[a])

\* The pools that an agent knows of are not ones yet to be made.
Known(p) == p \in PoolIds /\ p[2] <= closed /\ (p \in Living \/ p[2] < closed)
KnownOf(st) ==
  /\ st.pool # <<>> => Known(st.pool)
  /\ \A i \in DOMAIN st.closing : Known(st.closing[i])
IdsFit == (\A p \in DOMAIN pools : Known(p)) /\ \A a \in Agents : KnownOf(agent[a])

DrainInv == PoolsInv /\ AgentsFit /\ IdsFit /\ PoolsDrain

\* The connections of a pool, and the places, of one agent and of them all.
OpensIn(st, p) == (IF st.pool = p THEN st.have ELSE 0) + CountIn(st.closing, {p})
OpensOf(agents, p) == SumOf([a \in Agents |-> OpensIn(agents[a], p)])

TakenIn(a, st) ==
  IF st.forgotten
    THEN 0
    ELSE IF a = Pinger
           THEN st.have + (IF st.at \in {"asks", "over"} THEN 1 ELSE 0)
           ELSE IF st.at \in {"rests", "waits", "leaves", "late"} THEN 0 ELSE 1
TakenOf(agents) == SumOf([a \in Agents |-> TakenIn(a, agents[a])])

LEMMA CountedSo ==
  /\ \A p : numOpen(p) = pools[p].idle + OpensOf(agent, p)
  /\ \A p : numOpen(p)' = pools'[p].idle + OpensOf(agent', p)
  /\ Places = TakenOf(agent) /\ Places' = TakenOf(agent')
<1>1. \A a, p : Closes(a, p) = CountIn(agent[a].closing, {p})
  BY DEF Closes, CountIn
<1>2. \A a, p : Closes(a, p)' = CountIn(agent'[a].closing, {p})
  BY DEF Closes, CountIn
<1>3. \A p : numOpen(p) = pools[p].idle + OpensOf(agent, p)
  BY <1>1 DEF numOpen, OpensOf, OpensIn, Has
<1>4. \A p : numOpen(p)' = pools'[p].idle + OpensOf(agent', p)
  BY <1>2 DEF numOpen, OpensOf, OpensIn, Has
<1>5. Places = TakenOf(agent) /\ Places' = TakenOf(agent')
  BY DEF Places, PlacesOf, TakenOf, TakenIn
<1> QED BY <1>3, <1>4, <1>5

LEMMA AgentsFinite == IsFiniteSet(Agents) /\ Pinger \in Agents /\ \A s \in SQLScrapes : s \in Agents /\ s # Pinger
<1>1. IsFiniteSet(SQLScrapes \cup {Pinger})
  BY SQLAssumption, FS_AddElement
<1> QED BY <1>1, SQLAssumption DEF Agents

LEMMA OpensNat ==
  ASSUME NEW st \in AgentStates, NEW a, NEW p
  PROVE  OpensIn(st, p) \in Nat /\ TakenIn(a, st) \in Nat
<1>1. st.have \in Nat /\ st.closing \in Seq(PoolIds)
  BY DEF AgentStates
<1>2. CountIn(st.closing, {p}) \in Nat
  BY <1>1, CountsNat
<1> QED BY <1>1, <1>2 DEF OpensIn, TakenIn

\* What is open and taken as one agent goes on.
Moves(agents, a, st, new) ==
  /\ new \in [Agents -> AgentStates]
  /\ \A p : /\ OpensOf(agents, p) \in Nat /\ OpensIn(agents[a], p) \in Nat /\ OpensIn(st, p) \in Nat
            /\ OpensOf(new, p) \in Nat
            /\ OpensOf(new, p) + OpensIn(agents[a], p) = OpensOf(agents, p) + OpensIn(st, p)
  /\ TakenOf(agents) \in Nat /\ TakenIn(a, agents[a]) \in Nat /\ TakenIn(a, st) \in Nat
  /\ TakenOf(new) \in Nat
  /\ TakenOf(new) + TakenIn(a, agents[a]) = TakenOf(agents) + TakenIn(a, st)

LEMMA OneMoved ==
  ASSUME NEW agents \in [Agents -> AgentStates], NEW a \in Agents, NEW st \in AgentStates
  PROVE  Moves(agents, a, st, [agents EXCEPT ![a] = st])
<1> DEFINE new == [agents EXCEPT ![a] = st]
<1>1. new \in [Agents -> AgentStates] /\ new[a] = st /\ \A b \in Agents : b # a => new[b] = agents[b]
  OBVIOUS
<1> HIDE DEF new
<1>2. ASSUME NEW p
      PROVE  /\ OpensOf(agents, p) \in Nat /\ OpensOf(new, p) \in Nat
             /\ OpensOf(new, p) + OpensIn(agents[a], p) = OpensOf(agents, p) + OpensIn(st, p)
  <2> DEFINE f == [b \in Agents |-> OpensIn(agents[b], p)]
             g == [b \in Agents |-> OpensIn(new[b], p)]
  <2>1. f \in [Agents -> Nat] /\ g \in [Agents -> Nat]
    BY <1>1, OpensNat
  <2>2. \A b \in Agents : b # a => g[b] = f[b]
    BY <1>1
  <2>3. f[a] = OpensIn(agents[a], p) /\ g[a] = OpensIn(st, p)
    BY <1>1
  <2> HIDE DEF f, g
  <2>4. SumOf(f) \in Nat /\ SumOf(g) \in Nat /\ SumOf(g) + f[a] = SumOf(f) + g[a]
    BY <2>1, <2>2, AgentsFinite, SumButOne
  <2> QED BY <2>3, <2>4 DEF OpensOf, f, g
<1>3. /\ TakenOf(agents) \in Nat /\ TakenOf(new) \in Nat
      /\ TakenOf(new) + TakenIn(a, agents[a]) = TakenOf(agents) + TakenIn(a, st)
  <2> DEFINE f == [b \in Agents |-> TakenIn(b, agents[b])]
             g == [b \in Agents |-> TakenIn(b, new[b])]
  <2>1. f \in [Agents -> Nat] /\ g \in [Agents -> Nat]
    BY <1>1, OpensNat
  <2>2. \A b \in Agents : b # a => g[b] = f[b]
    BY <1>1
  <2>3. f[a] = TakenIn(a, agents[a]) /\ g[a] = TakenIn(a, st)
    BY <1>1
  <2> HIDE DEF f, g
  <2>4. SumOf(f) \in Nat /\ SumOf(g) \in Nat /\ SumOf(g) + f[a] = SumOf(f) + g[a]
    BY <2>1, <2>2, AgentsFinite, SumButOne
  <2> QED BY <2>3, <2>4 DEF TakenOf, f, g
<1>4. \A p : OpensIn(agents[a], p) \in Nat /\ OpensIn(st, p) \in Nat /\ TakenIn(a, agents[a]) \in Nat /\ TakenIn(a, st) \in Nat
  BY OpensNat
<1> QED BY <1>1, <1>2, <1>3, <1>4 DEF new, Moves

-----------------------------------------------------------------------------
(* Steps. *)

\* The pools stay as known as they were.
StillKnown == \A p : Known(p) => Known(p)'

LEMMA KnownFollow ==
  ASSUME PoolsInv, closed' \in Nat, closed' > closed \/ (closed' = closed /\ Living \subseteq Living')
  PROVE  StillKnown
<1>1. closed \in Nat /\ \A p \in PoolIds : p[2] \in Nat
  BY DEF PoolsInv, SQLTyped, PoolIds
<1> QED BY <1>1 DEF StillKnown, Known

\* An agent goes on: no pool has more connections than it had, but for one of
\* those that may, or none is new.
LEMMA OneGoesOn ==
  ASSUME DrainInv, PoolsInv', NEW a \in Agents, NEW st \in AgentStates, Becomes(a, st), Fits(a, st),
         StillKnown, \A p \in DOMAIN pools' : Known(p)', KnownOf(st)',
         \A p \in DOMAIN pools' :
           \/ p \in DOMAIN pools /\ pools'[p].idle + OpensIn(st, p) <= pools[p].idle + OpensIn(agent[a], p)
           \/ pools'[p].idle + OpensOf(agent, p) + OpensIn(st, p) <= MaxPerTarget + OpensIn(agent[a], p),
         \/ TakenIn(a, st) <= TakenIn(a, agent[a])
         \/ Places < MaxPerTarget /\ TakenIn(a, st) <= TakenIn(a, agent[a]) + 1
  PROVE  DrainInv'
<1>1. agent \in [Agents -> AgentStates] /\ agent' = [agent EXCEPT ![a] = st]
  BY DEF DrainInv, AgentsFit, Becomes
<1>2. Moves(agent, a, st, agent')
  <2>1. PICK agents \in [Agents -> AgentStates] : agents = agent
    BY <1>1
  <2>2. Moves(agents, a, st, [agents EXCEPT ![a] = st])
    BY OneMoved
  <2> QED BY <1>1, <2>1, <2>2
<1>3. AgentsFit'
  <2>1. \A b \in Agents : Fits(b, agent'[b])
    BY <1>1 DEF DrainInv, AgentsFit
  <2> QED BY <1>2, <2>1 DEF AgentsFit, Fits, Moves
<1>4. IdsFit'
  <2>1. \A b \in Agents : KnownOf(agent[b])
    BY DEF DrainInv, IdsFit
  <2>2. \A b \in Agents : b # a => agent'[b] = agent[b]
    BY <1>1
  <2>3. agent'[a] = st
    BY <1>1
  <2>4. ASSUME NEW b \in Agents PROVE KnownOf(agent[b])'
    <3>1. CASE b = a
      BY <2>3, <3>1 DEF KnownOf
    <3>2. CASE b # a
      BY <2>1, <2>2, <3>2 DEF KnownOf, StillKnown
    <3> QED BY <3>1, <3>2
  <2> QED BY <2>4 DEF IdsFit
<1>5. \A p \in DOMAIN pools : pools[p].idle \in Nat
  BY SQLAssumption DEF DrainInv, PoolsInv, SQLTyped, PoolStates
<1>6. \A p \in DOMAIN pools' : pools'[p].idle \in Nat
  BY SQLAssumption DEF PoolsInv, SQLTyped, PoolStates
<1>7. \A p \in DOMAIN pools : pools[p].idle + OpensOf(agent, p) <= MaxPerTarget
  BY CountedSo DEF DrainInv, PoolsDrain
<1>8. ASSUME NEW p \in DOMAIN pools' PROVE numOpen(p)' <= MaxPerTarget
  <2>1. numOpen(p)' = pools'[p].idle + OpensOf(agent', p)
    BY CountedSo
  <2>2. MaxPerTarget \in Nat /\ pools'[p].idle \in Nat
    BY <1>6, SQLAssumption
  <2>3. CASE p \in DOMAIN pools /\ pools'[p].idle + OpensIn(st, p) <= pools[p].idle + OpensIn(agent[a], p)
    <3>1. pools[p].idle \in Nat /\ pools[p].idle + OpensOf(agent, p) <= MaxPerTarget
      BY <1>5, <1>7, <2>3
    <3> QED BY <1>2, <2>1, <2>2, <2>3, <3>1 DEF Moves
  <2>4. CASE pools'[p].idle + OpensOf(agent, p) + OpensIn(st, p) <= MaxPerTarget + OpensIn(agent[a], p)
    BY <1>2, <2>1, <2>2, <2>4 DEF Moves
  <2> QED BY <2>3, <2>4
<1>9. Places' \in 0..MaxPerTarget
  <2>1. Places \in 0..MaxPerTarget /\ MaxPerTarget \in Nat /\ Places = TakenOf(agent) /\ Places' = TakenOf(agent')
    BY CountedSo, SQLAssumption DEF DrainInv, PoolsDrain
  <2> QED BY <1>2, <2>1 DEF Moves
<1>10. PoolsAsUsed'
  BY DEF PoolsInv
<1>11. PoolsDrain'
  BY <1>8, <1>9, <1>10 DEF PoolsDrain
<1> QED BY <1>3, <1>4, <1>11 DEF DrainInv

-----------------------------------------------------------------------------
(* An agent from one place to the next. *)

LEMMA NoIdEmpty == \A p \in PoolIds : p # <<>>
<1> TAKE p \in PoolIds
<1>1. PICK d \in Databases, n \in Nat : p = <<d, n>>
  BY DEF PoolIds
<1> QED BY <1>1

LEMMA LookedIs ==
  ASSUME NEW r \in AgentStates
  PROVE  /\ Looked(r) \in AgentStates /\ Looked(r).pool = r.pool /\ Looked(r).closing = r.closing
         /\ Looked(r).have = r.have /\ Looked(r).forgotten = r.forgotten /\ Looked(r).at = r.at
<1>1. Looked(r) \in AgentStates
  <2>1. PICK none \in SUBSET PoolIds : none = {}
    OBVIOUS
  <2>2. PICK n \in Int : n = 0
    OBVIOUS
  <2>3. [r EXCEPT !.others = none, !.todo = none, !.sum = n] \in AgentStates
    BY DEF AgentStates
  <2> QED BY <2>1, <2>2, <2>3 DEF Looked
<1> QED BY <1>1 DEF Looked, AgentStates

LEMMA OfAgent ==
  ASSUME DrainInv, NEW a \in Agents
  PROVE  /\ agent[a] \in AgentStates /\ Fits(a, agent[a]) /\ KnownOf(agent[a])
         /\ agent \in [Agents -> AgentStates]
         /\ Places \in 0..MaxPerTarget /\ MaxPerTarget \in Nat
         /\ \A p : IdleOf(p) \in Nat
<1>1. \A p \in DOMAIN pools : pools[p].idle \in Nat
  BY SQLAssumption DEF DrainInv, PoolsInv, SQLTyped, PoolStates
<1>2. \A p : IdleOf(p) \in Nat
  BY <1>1 DEF IdleOf
<1> QED BY <1>2, SQLAssumption DEF DrainInv, AgentsFit, IdsFit, PoolsDrain

LEMMA SameKnown == ASSUME UNCHANGED pools, UNCHANGED closed PROVE \A p : Known(p)' = Known(p)
BY DEF Known, Living

\* The pools stay and the agent has no more of them.
LEMMA NoMoreOpens ==
  ASSUME DrainInv, PoolsInv', UNCHANGED pools, UNCHANGED closed,
         NEW a \in Agents, NEW st \in AgentStates, Becomes(a, st), Fits(a, st),
         st.pool = agent[a].pool \/ st.pool = <<>>, st.closing = agent[a].closing,
         st.have <= agent[a].have,
         \/ TakenIn(a, st) <= TakenIn(a, agent[a])
         \/ Places < MaxPerTarget /\ TakenIn(a, st) <= TakenIn(a, agent[a]) + 1
  PROVE  DrainInv'
<1>1. StillKnown /\ \A p \in DOMAIN pools' : Known(p)'
  BY SameKnown DEF StillKnown, DrainInv, IdsFit
<1>2. KnownOf(agent[a]) /\ agent[a] \in AgentStates
  BY OfAgent
<1>3. KnownOf(st)'
  BY <1>1, <1>2 DEF KnownOf, StillKnown
<1>4. ASSUME NEW p \in DOMAIN pools' PROVE pools'[p].idle + OpensIn(st, p) <= pools[p].idle + OpensIn(agent[a], p)
  <2>1. p # <<>> /\ p \in DOMAIN pools
    <3>1. p \in DOMAIN pools /\ DOMAIN pools \subseteq PoolIds
      BY DEF DrainInv, PoolsInv, SQLTyped
    <3>2. p \in PoolIds
      BY <3>1
    <3> QED BY <3>1, <3>2, NoIdEmpty
  <2>2. pools[p].idle \in Nat /\ st.have \in Nat /\ agent[a].have \in Nat
    BY <1>2, <2>1, SQLAssumption DEF DrainInv, PoolsInv, SQLTyped, PoolStates, AgentStates
  <2>3. OpensIn(st, p) \in Nat /\ OpensIn(agent[a], p) \in Nat
    BY <1>2, OpensNat
  <2>4. CountIn(st.closing, {p}) \in Nat
    BY CountsNat DEF AgentStates
  <2>5. OpensIn(st, p) <= OpensIn(agent[a], p)
    BY <2>1, <2>2, <2>4 DEF OpensIn
  <2> QED BY <2>2, <2>3, <2>5
<1> QED BY <1>1, <1>3, <1>4, OneGoesOn

\* What an agent has, and is to close, is what it was.
Kept(a, st) ==
  /\ st \in AgentStates /\ st.pool = agent[a].pool /\ st.closing = agent[a].closing
  /\ st.have = agent[a].have /\ st.forgotten = agent[a].forgotten

LEMMA KeptOpens ==
  ASSUME DrainInv, PoolsInv', UNCHANGED pools, UNCHANGED closed,
         NEW a \in Agents, NEW st, Becomes(a, st), Kept(a, st), Fits(a, st),
         \/ TakenIn(a, st) <= TakenIn(a, agent[a])
         \/ Places < MaxPerTarget /\ TakenIn(a, st) <= TakenIn(a, agent[a]) + 1
  PROVE  DrainInv'
<1>1. st \in AgentStates /\ st.have <= agent[a].have
  BY DEF Kept, AgentStates
<1> QED BY <1>1, NoMoreOpens DEF Kept

\* A scrape from one place to the next.
LEMMA ScrapeGoesOn ==
  ASSUME DrainInv, PoolsInv', UNCHANGED pools, UNCHANGED closed,
         NEW s \in SQLScrapes, NEW st, Becomes(s, st), Kept(s, st),
         st.at \in ScrapePlaces, st.at \in Holding <=> agent[s].at \in Holding,
         \/ st.at \in {"rests", "waits", "leaves", "late"}
         \/ agent[s].at \notin {"rests", "waits", "leaves", "late"}
         \/ Places < MaxPerTarget
  PROVE  DrainInv'
<1>1. s \in Agents /\ s # Pinger
  BY AgentsFinite
<1>2. Fits(s, agent[s]) /\ agent[s] \in AgentStates
  BY <1>1, OfAgent
<1>3. Fits(s, st)
  BY <1>1, <1>2 DEF Fits, Kept
<1>4. TakenIn(s, st) = (IF st.at \in {"rests", "waits", "leaves", "late"} THEN 0 ELSE 1)
  BY <1>1, <1>3 DEF Fits, TakenIn
<1>5. TakenIn(s, agent[s]) = (IF agent[s].at \in {"rests", "waits", "leaves", "late"} THEN 0 ELSE 1)
  BY <1>1, <1>2 DEF Fits, TakenIn
<1>6. \/ TakenIn(s, st) <= TakenIn(s, agent[s])
      \/ Places < MaxPerTarget /\ TakenIn(s, st) <= TakenIn(s, agent[s]) + 1
  BY <1>4, <1>5
<1> QED BY <1>1, <1>3, <1>6, KeptOpens

\* Whoever gives a connection back, from one place to the next.
LEMMA GiverGoesOn ==
  ASSUME DrainInv, PoolsInv', UNCHANGED pools, UNCHANGED closed,
         NEW a \in Agents, NEW st, Becomes(a, st), Kept(a, st),
         {st.at, agent[a].at} \subseteq {"gives", "queues", "tallies", "returns", "discards"}
  PROVE  DrainInv'
<1>1. Fits(a, agent[a]) /\ agent[a] \in AgentStates
  BY OfAgent
<1>2. Fits(a, st)
  BY <1>1 DEF Fits, Kept, Holding, ScrapePlaces, RoundPlaces
<1>3. TakenIn(a, st) = TakenIn(a, agent[a])
  BY DEF TakenIn, Kept
<1>4. TakenIn(a, agent[a]) \in Nat
  BY <1>1, OpensNat
<1>5. TakenIn(a, st) <= TakenIn(a, agent[a])
  BY <1>3, <1>4
<1> QED BY <1>2, <1>5, KeptOpens

-----------------------------------------------------------------------------
(* The steps of a scrape. *)

LEMMA ScrapeDrains ==
  ASSUME DrainInv, PoolsInv', NEW s \in SQLScrapes,
         \/ takePlace(s) \/ placeTimeout(s) \/ otherPools(s) \/ readPlaces(s) \/ countIdle(s)
         \/ roomMade(s) \/ endStatement(s) \/ freePlace(s)
  PROVE  DrainInv'
<1> USE DEF ScrapePlaces, Holding
<1>1. /\ agent[s] \in AgentStates /\ Places \in Int /\ MaxPerTarget \in Nat /\ \A p : IdleOf(p) \in Nat
      /\ UNCHANGED pools /\ UNCHANGED closed
  <2>1. s \in Agents
    BY AgentsFinite
  <2>2. UNCHANGED pools /\ UNCHANGED closed
    BY DEF takePlace, placeTimeout, otherPools, readPlaces, countIdle, roomMade, endStatement, freePlace
  <2>3. Places \in 0..MaxPerTarget /\ MaxPerTarget \in Nat
    BY <2>1, OfAgent
  <2> QED BY <2>1, <2>2, <2>3, OfAgent
<1>2. ASSUME NEW where \in ScrapePlaces, At(s, where), where \in Holding <=> agent[s].at \in Holding,
             \/ where \in {"rests", "waits", "leaves", "late"}
             \/ agent[s].at \notin {"rests", "waits", "leaves", "late"}
             \/ Places < MaxPerTarget
      PROVE  DrainInv'
  <2>1. PICK st : st = [agent[s] EXCEPT !.at = where]
    OBVIOUS
  <2>2. st \in AgentStates /\ st.at = where
    BY <1>1, <2>1 DEF AgentStates
  <2>3. Becomes(s, st) /\ Kept(s, st)
    BY <1>1, <1>2, <2>1, <2>2 DEF At, Kept, AgentStates
  <2> HIDE DEF ScrapePlaces, Holding
  <2> QED BY <1>1, <1>2, <2>2, <2>3, ScrapeGoesOn
<1>3. CASE takePlace(s)
  BY <1>2, <1>3 DEF takePlace
<1>4. CASE placeTimeout(s)
  BY <1>2, <1>4 DEF placeTimeout
<1>5. CASE roomMade(s)
  BY <1>2, <1>5 DEF roomMade
<1>6. CASE endStatement(s)
  BY <1>2, <1>6 DEF endStatement
<1>7. CASE freePlace(s)
  BY <1>2, <1>7 DEF freePlace
<1>8. CASE otherPools(s)
  <2>1. CASE At(s, "connects")
    BY <1>2, <1>8, <2>1 DEF otherPools
  <2>2. CASE ~At(s, "connects")
    <3>1. PICK others : others = Living \ {agent[s].pool}
      OBVIOUS
    <3>2. PICK st : st = [agent[s] EXCEPT !.at = "looks", !.others = others, !.todo = others]
      OBVIOUS
    <3>3. Becomes(s, st) /\ agent[s].at = "placed"
      BY <1>8, <2>2, <3>1, <3>2 DEF otherPools
    <3>4. others \in SUBSET PoolIds
      BY <3>1 DEF Living, DrainInv, PoolsInv, SQLTyped
    <3>5. st \in AgentStates /\ st.at = "looks"
      BY <1>1, <3>2, <3>4 DEF AgentStates
    <3>6. Kept(s, st)
      BY <1>1, <3>2, <3>5 DEF Kept, AgentStates
    <3> QED BY <1>1, <3>3, <3>5, <3>6, ScrapeGoesOn
  <2> QED BY <2>1, <2>2
<1>9. CASE readPlaces(s)
  <2>1. PICK n \in Int : n = Places - MaxPerTarget
    BY <1>1
  <2>2. PICK st : st = [agent[s] EXCEPT !.at = "counts", !.sum = n]
    OBVIOUS
  <2>3. Becomes(s, st) /\ agent[s].at = "looks"
    BY <1>9, <2>1, <2>2 DEF readPlaces
  <2>4. st \in AgentStates /\ st.at = "counts"
    BY <1>1, <2>2 DEF AgentStates
  <2>5. Kept(s, st)
    BY <1>1, <2>2, <2>4 DEF Kept, AgentStates
  <2> QED BY <1>1, <2>3, <2>4, <2>5, ScrapeGoesOn
<1>10. CASE countIdle(s)
  <2>1. agent[s].at = "counts" /\ agent[s].sum \in Int /\ agent[s].todo \in SUBSET PoolIds
        /\ agent[s].others \in SUBSET PoolIds
    BY <1>1, <1>10 DEF countIdle, AgentStates
  <2>2. PICK st : /\ Becomes(s, st)
                  /\ \/ st = [agent[s] EXCEPT !.at = "rooms", !.todo = agent[s].others]
                     \/ st = [Looked(agent[s]) EXCEPT !.at = "connects"]
                     \/ \E q : st = [agent[s] EXCEPT !.todo = agent[s].todo \ {q}, !.sum = agent[s].sum + IdleOf(q)]
    BY <1>10 DEF countIdle
  <2>3. st \in AgentStates /\ st.at \in {"rooms", "connects", "counts"} /\ Kept(s, st)
    <3>1. CASE st = [agent[s] EXCEPT !.at = "rooms", !.todo = agent[s].others]
      <4>1. st \in AgentStates /\ st.at = "rooms"
        BY <1>1, <2>1, <3>1 DEF AgentStates
      <4> QED BY <1>1, <3>1, <4>1 DEF Kept, AgentStates
    <3>2. CASE st = [Looked(agent[s]) EXCEPT !.at = "connects"]
      <4>1. PICK r \in AgentStates : r = Looked(agent[s])
        BY <1>1, LookedIs
      <4>2. st = [r EXCEPT !.at = "connects"]
        BY <3>2, <4>1
      <4>3. st \in AgentStates /\ st.at = "connects"
        BY <4>2 DEF AgentStates
      <4>4. /\ r.pool = agent[s].pool /\ r.closing = agent[s].closing
            /\ r.have = agent[s].have /\ r.forgotten = agent[s].forgotten
        BY <1>1, <4>1, LookedIs
      <4> QED BY <4>2, <4>3, <4>4 DEF Kept, AgentStates
    <3>3. ASSUME NEW q, st = [agent[s] EXCEPT !.todo = agent[s].todo \ {q}, !.sum = agent[s].sum + IdleOf(q)]
          PROVE  st \in AgentStates /\ st.at \in {"rooms", "connects", "counts"} /\ Kept(s, st)
      <4>1. PICK n \in Int : n = agent[s].sum + IdleOf(q)
        BY <1>1, <2>1
      <4>2. st = [agent[s] EXCEPT !.todo = agent[s].todo \ {q}, !.sum = n]
        BY <3>3, <4>1
      <4>3. st \in AgentStates /\ st.at = "counts"
        BY <1>1, <2>1, <4>2 DEF AgentStates
      <4> QED BY <1>1, <4>2, <4>3 DEF Kept, AgentStates
    <3> QED BY <2>2, <3>1, <3>2, <3>3
  <2>4. /\ st.at \in ScrapePlaces
        /\ st.at \in Holding <=> agent[s].at \in Holding
        /\ agent[s].at \notin {"rests", "waits", "leaves", "late"}
    BY <2>1, <2>3
  <2> HIDE DEF ScrapePlaces, Holding
  <2> QED BY <1>1, <2>2, <2>3, <2>4, ScrapeGoesOn
<1> HIDE DEF ScrapePlaces, Holding
<1> QED BY <1>3, <1>4, <1>5, <1>6, <1>7, <1>8, <1>9, <1>10

\* Room is made: idle connections are taken, and closed apart.
LEMMA RoomDrains ==
  ASSUME DrainInv, PoolsInv', NEW s \in SQLScrapes, makeRoom(s)
  PROVE  DrainInv'
<1>1. /\ s \in Agents /\ agent[s] \in AgentStates /\ agent[s].at = "rooms" /\ UNCHANGED closed
      /\ s # Pinger /\ Fits(s, agent[s]) /\ KnownOf(agent[s]) /\ \A p : IdleOf(p) \in Nat
  BY AgentsFinite, OfAgent DEF makeRoom
<1>2. ASSUME NEW st, Becomes(s, st), UNCHANGED pools,
             \/ \E q : st = [agent[s] EXCEPT !.todo = agent[s].todo \ {q}]
             \/ st = [Looked(agent[s]) EXCEPT !.at = "awaits"]
      PROVE  DrainInv'
  <2>1. CASE \E T \in SUBSET PoolIds : st = [agent[s] EXCEPT !.todo = T]
    <3>1. PICK T \in SUBSET PoolIds : st = [agent[s] EXCEPT !.todo = T]
      BY <2>1
    <3>2. st \in AgentStates /\ st.at = "rooms"
      BY <1>1, <3>1 DEF AgentStates
    <3>3. Kept(s, st)
      BY <1>1, <3>1, <3>2 DEF Kept, AgentStates
    <3>4. /\ st.at \in ScrapePlaces
          /\ st.at \in Holding <=> agent[s].at \in Holding
      BY <1>1, <3>2 DEF ScrapePlaces, Holding
    <3> QED BY <1>1, <1>2, <3>3, <3>4, ScrapeGoesOn
  <2>2. CASE st = [Looked(agent[s]) EXCEPT !.at = "awaits"]
    <3>1. PICK r \in AgentStates : r = Looked(agent[s])
      BY <1>1, LookedIs
    <3>2. st = [r EXCEPT !.at = "awaits"]
      BY <2>2, <3>1
    <3>3. st \in AgentStates /\ st.at = "awaits"
      BY <3>2 DEF AgentStates, ScrapePlaces
    <3>4. /\ r.pool = agent[s].pool /\ r.closing = agent[s].closing
          /\ r.have = agent[s].have /\ r.forgotten = agent[s].forgotten
      BY <1>1, <3>1, LookedIs
    <3>5. Kept(s, st)
      BY <3>2, <3>3, <3>4 DEF Kept, AgentStates
    <3>6. /\ st.at \in ScrapePlaces
          /\ st.at \in Holding <=> agent[s].at \in Holding
      BY <1>1, <3>3 DEF ScrapePlaces, Holding
    <3> QED BY <1>1, <1>2, <3>5, <3>6, ScrapeGoesOn
  <2>3. ASSUME NEW q PROVE agent[s].todo \ {q} \in SUBSET PoolIds
    BY <1>1 DEF AgentStates
  <2> QED BY <1>2, <2>1, <2>2, <2>3
<1>3. ASSUME NEW q, q \in agent[s].todo, Takes(s, q),
             Becomes(s, [agent[s] EXCEPT !.sum = agent[s].sum - 1, !.closing = Append(agent[s].closing, q)])
      PROVE  DrainInv'
  <2>1. q \in DOMAIN pools /\ pools' = [pools EXCEPT ![q].idle = pools[q].idle - 1] /\ pools[q].idle \in Nat
        /\ q \in PoolIds /\ Known(q)
    BY <1>1, <1>3 DEF Takes, IdleOf, KeepsIdle, DrainInv, IdsFit, PoolsInv, SQLTyped
  <2>2. PICK line \in Seq(PoolIds) : line = agent[s].closing
    BY <1>1 DEF AgentStates
  <2>3. PICK n \in Int : n = agent[s].sum - 1
    BY <1>1 DEF AgentStates
  <2>4. PICK more : more = Append(line, q)
    OBVIOUS
  <2>5. more \in Seq(PoolIds) /\ \A i \in DOMAIN more : more[i] = q \/ (i \in DOMAIN line /\ more[i] = line[i])
    <3>1. more \in Seq(PoolIds) /\ Len(more) = Len(line) + 1
      BY <2>1, <2>4
    <3>2. \A i \in 1..Len(line) + 1 : more[i] = IF i <= Len(line) THEN line[i] ELSE q
      BY <2>1, <2>4
    <3>3. DOMAIN more = 1..Len(line) + 1 /\ DOMAIN line = 1..Len(line) /\ Len(line) \in Nat
      BY <3>1
    <3> QED BY <3>1, <3>2, <3>3
  <2>6. \A p : CountIn(more, {p}) = CountIn(line, {p}) + OneIf(q \in {p})
    BY <2>1, <2>2, <2>4, CountsAppended
  <2>7. PICK st : st = [agent[s] EXCEPT !.sum = n, !.closing = more]
    OBVIOUS
  <2>8. st \in AgentStates
    BY <1>1, <2>3, <2>5, <2>7 DEF AgentStates
  <2>9. /\ st.at = "rooms" /\ st.pool = agent[s].pool /\ st.closing = more /\ st.have = agent[s].have
        /\ st.forgotten = agent[s].forgotten
    BY <1>1, <2>7 DEF AgentStates
  <2>10. Becomes(s, st)
    BY <1>3, <2>2, <2>3, <2>4, <2>7
  <2>11. Fits(s, st)
    BY <1>1, <2>9 DEF Fits
  <2>12. TakenIn(s, st) <= TakenIn(s, agent[s])
    <3>1. TakenIn(s, st) = TakenIn(s, agent[s])
      BY <1>1, <2>9 DEF TakenIn
    <3>2. TakenIn(s, agent[s]) \in Nat
      BY <1>1, OpensNat
    <3> QED BY <3>1, <3>2
  <2>13. DOMAIN pools' = DOMAIN pools /\ Living' = Living
    BY <2>1 DEF Living, DrainInv, PoolsInv, SQLTyped, PoolStates
  <2>14. \A p : Known(p)' = Known(p)
    BY <1>1, <2>13 DEF Known
  <2>15. StillKnown /\ (\A p \in DOMAIN pools' : Known(p)') /\ KnownOf(st)'
    <3>1. StillKnown /\ \A p \in DOMAIN pools' : Known(p)'
      BY <2>13, <2>14 DEF StillKnown, DrainInv, IdsFit
    <3>2. \A i \in DOMAIN more : Known(more[i])
      BY <1>1, <2>1, <2>2, <2>5 DEF KnownOf
    <3> QED BY <1>1, <2>9, <2>14, <3>1, <3>2 DEF KnownOf
  <2>16. ASSUME NEW p \in DOMAIN pools'
         PROVE  pools'[p].idle + OpensIn(st, p) <= pools[p].idle + OpensIn(agent[s], p)
    <3>1. pools[p].idle \in Nat
      BY <2>13, SQLAssumption DEF DrainInv, PoolsInv, SQLTyped, PoolStates
    <3>2. CountIn(line, {p}) \in Nat
      BY CountsNat
    <3>3. agent[s].have \in Nat
      BY <1>1 DEF AgentStates
    <3>4. OpensIn(st, p) = OpensIn(agent[s], p) + OneIf(q \in {p}) /\ OpensIn(agent[s], p) \in Nat
      <4>1. PICK m \in Nat : m = IF agent[s].pool = p THEN agent[s].have ELSE 0
        BY <3>3
      <4>2. OpensIn(agent[s], p) = m + CountIn(line, {p})
        BY <2>2, <4>1 DEF OpensIn
      <4>3. OpensIn(st, p) = m + (CountIn(line, {p}) + OneIf(q \in {p}))
        BY <2>6, <2>9, <4>1 DEF OpensIn
      <4>4. OneIf(q \in {p}) \in Nat
        BY DEF OneIf
      <4> QED BY <3>2, <4>2, <4>3, <4>4
    <3>5. CASE p = q
      <4>1. pools'[p].idle = pools[p].idle - 1
        BY <2>1, <3>5 DEF DrainInv, PoolsInv, SQLTyped, PoolStates
      <4> QED BY <3>1, <3>4, <3>5, <4>1 DEF OneIf
    <3>6. CASE p # q
      <4>1. pools'[p].idle = pools[p].idle
        BY <2>1, <2>13, <3>6 DEF DrainInv, PoolsInv, SQLTyped, PoolStates
      <4> QED BY <3>1, <3>4, <3>6, <4>1 DEF OneIf
    <3> QED BY <3>5, <3>6
  <2> QED BY <1>1, <2>8, <2>10, <2>11, <2>12, <2>13, <2>15, <2>16, OneGoesOn
<1>4. \/ \E q \in agent[s].todo :
           /\ Takes(s, q)
           /\ Becomes(s, [agent[s] EXCEPT !.sum = agent[s].sum - 1, !.closing = Append(agent[s].closing, q)])
      \/ UNCHANGED pools /\ \E q \in agent[s].todo : Becomes(s, [agent[s] EXCEPT !.todo = agent[s].todo \ {q}])
      \/ UNCHANGED pools /\ Becomes(s, [Looked(agent[s]) EXCEPT !.at = "awaits"])
  BY DEF makeRoom
<1> QED BY <1>2, <1>3, <1>4

-----------------------------------------------------------------------------
(* A connection is had, and given back. *)

\* A pool's idle connections are more or less.
LEMMA IdleMoves ==
  ASSUME DrainInv, NEW p \in DOMAIN pools, NEW n \in Nat, KeepsIdle(p, n), UNCHANGED closed
  PROVE  /\ DOMAIN pools' = DOMAIN pools /\ pools'[p].idle = n
         /\ \A q \in DOMAIN pools : q # p => pools'[q].idle = pools[q].idle
         /\ StillKnown /\ \A q \in DOMAIN pools' : Known(q)'
<1>1. /\ DOMAIN pools' = DOMAIN pools /\ pools'[p].idle = n
      /\ \A q \in DOMAIN pools : q # p => pools'[q].idle = pools[q].idle
      /\ Living' = Living
  BY DEF KeepsIdle, Living, DrainInv, PoolsInv, SQLTyped, PoolStates
<1>2. \A q : Known(q)' = Known(q)
  BY <1>1 DEF Known
<1> QED BY <1>1, <1>2 DEF StillKnown, DrainInv, IdsFit

\* What an agent has of its pool is one more or one less.
LEMMA HadOpens ==
  ASSUME NEW r \in AgentStates, NEW st \in AgentStates, st.pool = r.pool, st.closing = r.closing, NEW p
  PROVE  /\ OpensIn(r, p) \in Nat /\ OpensIn(st, p) \in Nat
         /\ p = r.pool => OpensIn(st, p) - st.have = OpensIn(r, p) - r.have
         /\ p # r.pool => OpensIn(st, p) = OpensIn(r, p)
<1>1. r.have \in Nat /\ st.have \in Nat
  BY DEF AgentStates
<1>2. PICK n \in Nat : n = CountIn(r.closing, {p})
  BY CountsNat DEF AgentStates
<1>3. OpensIn(r, p) = (IF r.pool = p THEN r.have ELSE 0) + n
  BY <1>2 DEF OpensIn
<1>4. OpensIn(st, p) = (IF r.pool = p THEN st.have ELSE 0) + n
  BY <1>2 DEF OpensIn
<1> QED BY <1>1, <1>3, <1>4

\* An idle one is taken, by who had the place for it.
LEMMA HadIdle ==
  ASSUME DrainInv, PoolsInv', NEW a \in Agents, NEW st \in AgentStates, Becomes(a, st), Fits(a, st),
         st.pool = agent[a].pool, st.closing = agent[a].closing, st.have = agent[a].have + 1,
         Takes(a, agent[a].pool), UNCHANGED closed, TakenIn(a, st) <= TakenIn(a, agent[a])
  PROVE  DrainInv'
<1>1. agent[a] \in AgentStates /\ KnownOf(agent[a]) /\ \A p : IdleOf(p) \in Nat
  BY OfAgent
<1>2. PICK p : p = agent[a].pool
  OBVIOUS
<1>3. p \in DOMAIN pools /\ KeepsIdle(p, pools[p].idle - 1) /\ pools[p].idle - 1 \in Nat /\ pools[p].idle \in Nat
  BY <1>1, <1>2 DEF Takes, IdleOf
<1>4. /\ DOMAIN pools' = DOMAIN pools /\ pools'[p].idle = pools[p].idle - 1
      /\ \A q \in DOMAIN pools : q # p => pools'[q].idle = pools[q].idle
      /\ StillKnown /\ \A q \in DOMAIN pools' : Known(q)'
  BY <1>3, IdleMoves
<1>5. KnownOf(st)'
  BY <1>1, <1>4 DEF KnownOf, StillKnown
<1>6. ASSUME NEW q \in DOMAIN pools' PROVE pools'[q].idle + OpensIn(st, q) <= pools[q].idle + OpensIn(agent[a], q)
  <2>1. /\ OpensIn(agent[a], q) \in Nat /\ OpensIn(st, q) \in Nat
        /\ q = p => OpensIn(st, q) - st.have = OpensIn(agent[a], q) - agent[a].have
        /\ q # p => OpensIn(st, q) = OpensIn(agent[a], q)
    BY <1>1, <1>2, HadOpens
  <2>2. agent[a].have \in Nat /\ pools[q].idle \in Nat
    BY <1>1, <1>4, SQLAssumption DEF AgentStates, DrainInv, PoolsInv, SQLTyped, PoolStates
  <2>3. CASE q = p
    <3>1. OpensIn(st, q) = OpensIn(agent[a], q) + 1
      BY <2>1, <2>2, <2>3
    <3> QED BY <1>4, <2>1, <2>2, <2>3, <3>1
  <2>4. CASE q # p
    BY <1>4, <2>1, <2>2, <2>4
  <2> QED BY <2>3, <2>4
<1> QED BY <1>4, <1>5, <1>6, OneGoesOn

\* A new one is made, as database/sql lets it.
LEMMA HadNew ==
  ASSUME DrainInv, PoolsInv', NEW a \in Agents, NEW st \in AgentStates, Becomes(a, st), Fits(a, st),
         st.pool = agent[a].pool, st.closing = agent[a].closing, st.have = agent[a].have + 1,
         numOpen(agent[a].pool) < MaxPerTarget, UNCHANGED pools, UNCHANGED closed,
         TakenIn(a, st) <= TakenIn(a, agent[a])
  PROVE  DrainInv'
<1>1. agent[a] \in AgentStates /\ KnownOf(agent[a]) /\ MaxPerTarget \in Nat /\ agent \in [Agents -> AgentStates]
  BY OfAgent
<1>2. PICK p : p = agent[a].pool
  OBVIOUS
<1>3. StillKnown /\ \A q \in DOMAIN pools' : Known(q)'
  BY SameKnown DEF StillKnown, DrainInv, IdsFit
<1>4. KnownOf(st)'
  BY <1>1, <1>3 DEF KnownOf, StillKnown
<1>5. ASSUME NEW q \in DOMAIN pools'
      PROVE  \/ q \in DOMAIN pools /\ pools'[q].idle + OpensIn(st, q) <= pools[q].idle + OpensIn(agent[a], q)
             \/ pools'[q].idle + OpensOf(agent, q) + OpensIn(st, q) <= MaxPerTarget + OpensIn(agent[a], q)
  <2>1. /\ OpensIn(agent[a], q) \in Nat /\ OpensIn(st, q) \in Nat
        /\ q = p => OpensIn(st, q) - st.have = OpensIn(agent[a], q) - agent[a].have
        /\ q # p => OpensIn(st, q) = OpensIn(agent[a], q)
    BY <1>1, <1>2, HadOpens
  <2>2. agent[a].have \in Nat /\ pools[q].idle \in Nat /\ q \in DOMAIN pools /\ pools'[q].idle = pools[q].idle
    BY <1>1, SQLAssumption DEF AgentStates, DrainInv, PoolsInv, SQLTyped, PoolStates
  <2>3. CASE q = p
    <3>1. OpensIn(st, q) = OpensIn(agent[a], q) + 1
      BY <2>1, <2>2, <2>3
    <3>2. pools[q].idle + OpensOf(agent, q) < MaxPerTarget
      BY <1>2, <2>3, CountedSo
    <3>3. OpensOf(agent, q) \in Nat
      BY <1>1, OneMoved DEF Moves
    <3> QED BY <1>1, <2>1, <2>2, <3>1, <3>2, <3>3
  <2>4. CASE q # p
    BY <2>1, <2>2, <2>4
  <2> QED BY <2>3, <2>4
<1> QED BY <1>3, <1>4, <1>5, OneGoesOn

\* One is given back or closed.
LEMMA GivesOne ==
  ASSUME DrainInv, PoolsInv', NEW a \in Agents, NEW st \in AgentStates, Becomes(a, st), Fits(a, st),
         st.pool = agent[a].pool, st.closing = agent[a].closing, st.have = agent[a].have - 1,
         \/ UNCHANGED pools
         \/ agent[a].pool \in DOMAIN pools /\ KeepsIdle(agent[a].pool, pools[agent[a].pool].idle + 1),
         UNCHANGED closed, TakenIn(a, st) <= TakenIn(a, agent[a])
  PROVE  DrainInv'
<1>1. agent[a] \in AgentStates /\ KnownOf(agent[a]) /\ agent[a].have \in Nat /\ st.have <= agent[a].have
  BY OfAgent DEF AgentStates
<1>2. CASE UNCHANGED pools
  BY <1>1, <1>2, NoMoreOpens
<1>3. CASE ~UNCHANGED pools
  <2>1. PICK p \in DOMAIN pools : p = agent[a].pool /\ KeepsIdle(p, pools[p].idle + 1)
    BY <1>3
  <2>2. pools[p].idle + 1 \in Nat /\ pools[p].idle \in Nat
    BY SQLAssumption DEF DrainInv, PoolsInv, SQLTyped, PoolStates
  <2>3. /\ DOMAIN pools' = DOMAIN pools /\ pools'[p].idle = pools[p].idle + 1
        /\ \A q \in DOMAIN pools : q # p => pools'[q].idle = pools[q].idle
        /\ StillKnown /\ \A q \in DOMAIN pools' : Known(q)'
    BY <2>1, <2>2, IdleMoves
  <2>4. KnownOf(st)'
    BY <1>1, <2>3 DEF KnownOf, StillKnown
  <2>5. ASSUME NEW q \in DOMAIN pools'
        PROVE  pools'[q].idle + OpensIn(st, q) <= pools[q].idle + OpensIn(agent[a], q)
    <3>1. /\ OpensIn(agent[a], q) \in Nat /\ OpensIn(st, q) \in Nat
          /\ q = p => OpensIn(st, q) - st.have = OpensIn(agent[a], q) - agent[a].have
          /\ q # p => OpensIn(st, q) = OpensIn(agent[a], q)
      BY <1>1, <2>1, HadOpens
    <3>2. pools[q].idle \in Nat
      BY <2>3, SQLAssumption DEF DrainInv, PoolsInv, SQLTyped, PoolStates
    <3>3. CASE q = p
      <4>1. OpensIn(st, q) = OpensIn(agent[a], q) - 1
        BY <1>1, <3>1, <3>3
      <4> QED BY <2>3, <3>1, <3>2, <3>3, <4>1
    <3>4. CASE q # p
      BY <2>3, <3>1, <3>2, <3>4
    <3> QED BY <3>3, <3>4
  <2> QED BY <2>3, <2>4, <2>5, OneGoesOn
<1> QED BY <1>2, <1>3

LEMMA ConnectDrains ==
  ASSUME DrainInv, PoolsInv', NEW s \in SQLScrapes, connect(s)
  PROVE  DrainInv'
<1>1. /\ s \in Agents /\ s # Pinger /\ agent[s] \in AgentStates /\ Fits(s, agent[s])
      /\ agent[s].at = "connects" /\ UNCHANGED closed
  BY AgentsFinite, OfAgent DEF connect
<1>2. agent[s].have = 0
  BY <1>1 DEF Fits, Holding
<1>3. PICK one \in Nat : one = 1
  OBVIOUS
<1>4. PICK st : st = [agent[s] EXCEPT !.at = "uses", !.have = one]
  OBVIOUS
<1>5. st \in AgentStates
  BY <1>1, <1>4 DEF AgentStates, ScrapePlaces
<1>6. /\ st.at = "uses" /\ st.have = 1 /\ st.pool = agent[s].pool /\ st.closing = agent[s].closing
      /\ st.forgotten = agent[s].forgotten
  BY <1>1, <1>3, <1>4 DEF AgentStates
<1>7. Fits(s, st)
  BY <1>1, <1>6 DEF Fits, ScrapePlaces, Holding
<1>8. TakenIn(s, st) <= TakenIn(s, agent[s])
  <2>1. TakenIn(s, st) = 1 /\ TakenIn(s, agent[s]) = 1
    BY <1>1, <1>6, <1>7 DEF TakenIn, Fits
  <2> QED BY <2>1
<1>9. \/ Takes(s, agent[s].pool) /\ Becomes(s, st)
      \/ UNCHANGED pools /\ numOpen(agent[s].pool) < MaxPerTarget /\ Becomes(s, st)
      \/ UNCHANGED pools /\ At(s, "over")
  BY <1>3, <1>4 DEF connect
<1>10. CASE Takes(s, agent[s].pool) /\ Becomes(s, st)
  BY <1>1, <1>2, <1>5, <1>6, <1>7, <1>8, <1>10, HadIdle
<1>11. CASE UNCHANGED pools /\ numOpen(agent[s].pool) < MaxPerTarget /\ Becomes(s, st)
  BY <1>1, <1>2, <1>5, <1>6, <1>7, <1>8, <1>11, HadNew
<1>12. CASE UNCHANGED pools /\ At(s, "over")
  <2>1. PICK to : to = [agent[s] EXCEPT !.at = "over"]
    OBVIOUS
  <2>2. to \in AgentStates /\ to.at = "over"
    BY <1>1, <2>1 DEF AgentStates, ScrapePlaces
  <2>3. Kept(s, to) /\ Becomes(s, to)
    BY <1>1, <1>12, <2>1, <2>2 DEF At, Kept, AgentStates
  <2>4. /\ to.at \in ScrapePlaces
        /\ to.at \in Holding <=> agent[s].at \in Holding
    BY <1>1, <2>2 DEF ScrapePlaces, Holding
  <2> QED BY <1>1, <1>12, <2>3, <2>4, ScrapeGoesOn
<1> QED BY <1>9, <1>10, <1>11, <1>12

\* One that was to be closed is.
LEMMA ConnClosedDrains ==
  ASSUME DrainInv, PoolsInv', NEW s \in SQLScrapes, connClosed(s)
  PROVE  DrainInv'
<1>1. /\ s \in Agents /\ s # Pinger /\ agent[s] \in AgentStates /\ Fits(s, agent[s])
      /\ KnownOf(agent[s]) /\ UNCHANGED pools /\ UNCHANGED closed
  BY AgentsFinite, OfAgent DEF connClosed
<1>2. PICK line \in Seq(PoolIds) : line = agent[s].closing
  BY <1>1 DEF AgentStates
<1>3. PICK i \in DOMAIN line : Becomes(s, [agent[s] EXCEPT !.closing = RemoveAt(line, i)])
  BY <1>2 DEF connClosed
<1>4. PICK fewer : fewer = RemoveAt(line, i)
  OBVIOUS
<1>5. fewer \in Seq(PoolIds) /\ \A j \in DOMAIN fewer : \E k \in DOMAIN line : fewer[j] = line[k]
  BY <1>4, CountsTakenOut
<1>6. \A p : CountIn(fewer, {p}) <= CountIn(line, {p})
  BY <1>4, CountsTakenOut
<1>7. PICK st : st = [agent[s] EXCEPT !.closing = fewer]
  OBVIOUS
<1>8. st \in AgentStates /\ Becomes(s, st)
  BY <1>1, <1>3, <1>4, <1>5, <1>7 DEF AgentStates
<1>9. /\ st.at = agent[s].at /\ st.pool = agent[s].pool /\ st.have = agent[s].have
      /\ st.closing = fewer /\ st.forgotten = agent[s].forgotten
  BY <1>1, <1>7 DEF AgentStates
<1>10. Fits(s, st)
  BY <1>1, <1>9 DEF Fits
<1>11. TakenIn(s, st) <= TakenIn(s, agent[s])
  <2>1. TakenIn(s, st) = TakenIn(s, agent[s]) /\ TakenIn(s, agent[s]) \in Nat
    BY <1>1, <1>9, OpensNat DEF TakenIn
  <2> QED BY <2>1
<1>12. StillKnown /\ \A p \in DOMAIN pools' : Known(p)'
  BY <1>1, SameKnown DEF StillKnown, DrainInv, IdsFit
<1>13. KnownOf(st)'
  <2>1. \A j \in DOMAIN fewer : Known(fewer[j])
    BY <1>1, <1>2, <1>5 DEF KnownOf
  <2> QED BY <1>1, <1>9, <1>12, <2>1 DEF KnownOf, StillKnown
<1>14. ASSUME NEW p \in DOMAIN pools' PROVE pools'[p].idle + OpensIn(st, p) <= pools[p].idle + OpensIn(agent[s], p)
  <2>1. pools[p].idle \in Nat /\ pools'[p].idle = pools[p].idle
    BY <1>1, SQLAssumption DEF DrainInv, PoolsInv, SQLTyped, PoolStates
  <2>2. CountIn(fewer, {p}) \in Nat /\ CountIn(line, {p}) \in Nat
    BY <1>5, CountsNat
  <2>3. PICK m \in Nat : m = IF agent[s].pool = p THEN agent[s].have ELSE 0
    BY <1>1 DEF AgentStates
  <2>4. OpensIn(agent[s], p) = m + CountIn(line, {p}) /\ OpensIn(st, p) = m + CountIn(fewer, {p})
    BY <1>2, <1>9, <2>3 DEF OpensIn
  <2>5. PICK i1 \in Nat, i2 \in Nat : i1 = CountIn(line, {p}) /\ i2 = CountIn(fewer, {p})
    BY <2>2
  <2>6. i2 <= i1
    BY <1>6, <2>5
  <2>7. OpensIn(agent[s], p) = m + i1 /\ OpensIn(st, p) = m + i2
    BY <2>4, <2>5
  <2> QED BY <2>1, <2>6, <2>7
<1> QED BY <1>1, <1>8, <1>10, <1>11, <1>12, <1>13, <1>14, OneGoesOn

\* It is given back, or closed, and the place is yet to be.
LEMMA OverDrains ==
  ASSUME DrainInv, PoolsInv', NEW a \in Agents, NEW st \in AgentStates, Becomes(a, st),
         agent[a].at \in {"gives", "queues", "tallies", "returns", "discards"},
         st.at = "over", st.have = agent[a].have - 1, st.pool = agent[a].pool,
         st.closing = agent[a].closing, st.forgotten = agent[a].forgotten, UNCHANGED closed,
         \/ UNCHANGED pools
         \/ agent[a].pool \in DOMAIN pools /\ KeepsIdle(agent[a].pool, pools[agent[a].pool].idle + 1)
  PROVE  DrainInv'
<1>1. agent[a] \in AgentStates /\ Fits(a, agent[a]) /\ agent[a].have \in Nat
  BY OfAgent DEF AgentStates
<1>2. Fits(a, st)
  BY <1>1 DEF Fits, ScrapePlaces, RoundPlaces, Holding
<1>3. TakenIn(a, st) = TakenIn(a, agent[a])
  BY <1>1 DEF TakenIn, Fits
<1>4. TakenIn(a, st) <= TakenIn(a, agent[a])
  BY <1>1, <1>3, OpensNat
<1> QED BY <1>1, <1>2, <1>4, GivesOne

LEMMA ReturnedDrains ==
  ASSUME DrainInv, PoolsInv', NEW a \in Agents, agent[a].at \in {"tallies", "returns"}, Returned(a),
         UNCHANGED closed
  PROVE  DrainInv'
<1>1. agent[a] \in AgentStates /\ Fits(a, agent[a])
  BY OfAgent
<1>2. PICK r \in AgentStates : r = Looked(agent[a])
  BY <1>1, LookedIs
<1>3. /\ r.pool = agent[a].pool /\ r.closing = agent[a].closing
      /\ r.have = agent[a].have /\ r.forgotten = agent[a].forgotten
  BY <1>1, <1>2, LookedIs
<1>4. PICK n \in Nat : n = r.have - 1
  <2>1. agent[a].have > 0 /\ agent[a].have \in Nat
    BY <1>1 DEF Fits, Holding, AgentStates
  <2> QED BY <1>3, <2>1
<1>5. PICK st : st = [r EXCEPT !.at = "over", !.have = n]
  OBVIOUS
<1>6. st \in AgentStates
  BY <1>5 DEF AgentStates, ScrapePlaces
<1>7. /\ st.at = "over" /\ st.have = agent[a].have - 1 /\ st.pool = agent[a].pool
      /\ st.closing = agent[a].closing /\ st.forgotten = agent[a].forgotten
  BY <1>3, <1>4, <1>5 DEF AgentStates
<1>8. Becomes(a, st)
  BY <1>2, <1>4, <1>5 DEF Returned
<1>9. \/ UNCHANGED pools
      \/ agent[a].pool \in DOMAIN pools /\ KeepsIdle(agent[a].pool, pools[agent[a].pool].idle + 1)
  BY DEF Returned
<1> QED BY <1>6, <1>7, <1>8, <1>9, OverDrains

LEMMA GivesDrain ==
  ASSUME DrainInv, PoolsInv', NEW a \in Agents, Gives(a)
  PROVE  DrainInv'
<1>1. /\ agent[a] \in AgentStates /\ Fits(a, agent[a]) /\ UNCHANGED closed /\ \A p : IdleOf(p) \in Nat
      /\ agent[a].at \in {"gives", "queues", "tallies", "returns", "discards"}
  BY OfAgent DEF Gives, giveBack, lockGiving, tallyIdle, keepIdle, returnConn, discardConn
<1>2. Living \in SUBSET PoolIds /\ agent[a].others \in SUBSET PoolIds /\ agent[a].todo \in SUBSET PoolIds
  BY <1>1 DEF Living, DrainInv, PoolsInv, SQLTyped, AgentStates
<1>3. ASSUME UNCHANGED pools, NEW r \in AgentStates, r.pool = agent[a].pool, r.closing = agent[a].closing,
             r.have = agent[a].have, r.forgotten = agent[a].forgotten,
             NEW where \in {"queues", "tallies", "returns", "discards"},
             NEW O \in SUBSET PoolIds, NEW T \in SUBSET PoolIds, NEW n \in Int, NEW st,
             st = [r EXCEPT !.at = where, !.others = O, !.todo = T, !.sum = n], Becomes(a, st)
      PROVE  DrainInv'
  <2>1. st \in AgentStates
    BY <1>3 DEF AgentStates, ScrapePlaces
  <2>2. st.at = where /\ Kept(a, st)
    BY <1>3, <2>1 DEF Kept, AgentStates
  <2> QED BY <1>1, <1>3, <2>2, GiverGoesOn
<1> DEFINE Goes(st) ==
      \E r \in AgentStates, where \in {"queues", "tallies", "returns", "discards"},
         O \in SUBSET PoolIds, T \in SUBSET PoolIds, n \in Int :
           /\ r.pool = agent[a].pool /\ r.closing = agent[a].closing
           /\ r.have = agent[a].have /\ r.forgotten = agent[a].forgotten
           /\ st = [r EXCEPT !.at = where, !.others = O, !.todo = T, !.sum = n]
<1>4. ASSUME NEW st, Goes(st), Becomes(a, st), UNCHANGED pools PROVE DrainInv'
  BY <1>3, <1>4
<1>5. agent[a] = [agent[a] EXCEPT !.others = agent[a].others, !.todo = agent[a].todo, !.sum = agent[a].sum]
      /\ agent[a].sum \in Int
  BY <1>1 DEF AgentStates
<1>6. CASE giveBack(a)
  <2>1. PICK st : Becomes(a, st) /\ UNCHANGED pools /\
                  \/ \E where \in {"returns", "discards"} : st = [agent[a] EXCEPT !.at = where]
                  \/ st = [agent[a] EXCEPT !.at = "queues", !.others = Living, !.todo = Living]
    BY <1>6 DEF giveBack, At
  <2>2. Goes(st)
    <3>1. ASSUME NEW where \in {"returns", "discards"}, st = [agent[a] EXCEPT !.at = where] PROVE Goes(st)
      <4>1. st = [agent[a] EXCEPT !.at = where, !.others = agent[a].others, !.todo = agent[a].todo,
                                  !.sum = agent[a].sum]
        BY <1>1, <3>1 DEF AgentStates
      <4> QED BY <1>1, <1>2, <1>5, <4>1
    <3>2. CASE st = [agent[a] EXCEPT !.at = "queues", !.others = Living, !.todo = Living]
      <4>1. st = [agent[a] EXCEPT !.at = "queues", !.others = Living, !.todo = Living, !.sum = agent[a].sum]
        BY <1>1, <3>2 DEF AgentStates
      <4> QED BY <1>1, <1>2, <1>5, <4>1
    <3> QED BY <2>1, <3>1, <3>2
  <2> QED BY <1>4, <2>1, <2>2
<1>7. CASE lockGiving(a)
  <2>1. PICK n \in Int : n = 0
    OBVIOUS
  <2>2. PICK st : st = [agent[a] EXCEPT !.at = "tallies", !.sum = n]
    OBVIOUS
  <2>3. st = [agent[a] EXCEPT !.at = "tallies", !.others = agent[a].others, !.todo = agent[a].todo, !.sum = n]
    BY <1>1, <2>2 DEF AgentStates
  <2>4. Goes(st)
    BY <1>1, <1>2, <2>3
  <2>5. Becomes(a, st) /\ UNCHANGED pools
    BY <1>7, <2>1, <2>2 DEF lockGiving
  <2> QED BY <1>4, <2>4, <2>5
<1>8. CASE tallyIdle(a)
  <2>1. PICK q : Becomes(a, [agent[a] EXCEPT !.todo = agent[a].todo \ {q}, !.sum = agent[a].sum + IdleOf(q)])
    BY <1>8 DEF tallyIdle
  <2>2. PICK n \in Int : n = agent[a].sum + IdleOf(q)
    BY <1>1, <1>5
  <2>3. PICK T \in SUBSET PoolIds : T = agent[a].todo \ {q}
    BY <1>2
  <2>4. PICK st : st = [agent[a] EXCEPT !.todo = T, !.sum = n]
    OBVIOUS
  <2>5. st = [agent[a] EXCEPT !.at = "tallies", !.others = agent[a].others, !.todo = T, !.sum = n]
    BY <1>1, <1>8, <2>4 DEF AgentStates, tallyIdle
  <2>6. Goes(st)
    BY <1>1, <1>2, <2>5
  <2>7. Becomes(a, st) /\ UNCHANGED pools
    BY <1>8, <2>1, <2>2, <2>3, <2>4 DEF tallyIdle
  <2> QED BY <1>4, <2>6, <2>7
<1>9. CASE keepIdle(a)
  <2>1. CASE Returned(a)
    BY <1>1, <1>9, <2>1, ReturnedDrains DEF keepIdle
  <2>2. CASE ~Returned(a)
    <3>1. Becomes(a, [Looked(agent[a]) EXCEPT !.at = "discards"]) /\ UNCHANGED pools
      BY <1>9, <2>2 DEF keepIdle
    <3>2. PICK r \in AgentStates : r = Looked(agent[a])
      BY <1>1, LookedIs
    <3>3. /\ r.pool = agent[a].pool /\ r.closing = agent[a].closing
          /\ r.have = agent[a].have /\ r.forgotten = agent[a].forgotten
      BY <1>1, <3>2, LookedIs
    <3>4. PICK st : st = [r EXCEPT !.at = "discards"]
      OBVIOUS
    <3>5. st = [r EXCEPT !.at = "discards", !.others = r.others, !.todo = r.todo, !.sum = r.sum]
      BY <3>4 DEF AgentStates
    <3>6. r.others \in SUBSET PoolIds /\ r.todo \in SUBSET PoolIds /\ r.sum \in Int
      BY DEF AgentStates
    <3>7. Goes(st)
      BY <3>3, <3>5, <3>6
    <3> HIDE DEF Goes
    <3> QED BY <1>4, <3>1, <3>2, <3>4, <3>7
  <2> QED BY <2>1, <2>2
<1>10. CASE returnConn(a)
  BY <1>1, <1>10, ReturnedDrains DEF returnConn
<1>11. CASE discardConn(a)
  <2>1. PICK n \in Nat : n = agent[a].have - 1
    <3>1. agent[a].have > 0 /\ agent[a].have \in Nat
      BY <1>1 DEF Fits, Holding, AgentStates
    <3> QED BY <3>1
  <2>2. PICK st : st = [agent[a] EXCEPT !.at = "over", !.have = n]
    OBVIOUS
  <2>3. st \in AgentStates
    BY <1>1, <2>2 DEF AgentStates, ScrapePlaces
  <2>4. /\ st.at = "over" /\ st.have = agent[a].have - 1 /\ st.pool = agent[a].pool
        /\ st.closing = agent[a].closing /\ st.forgotten = agent[a].forgotten
    BY <1>1, <2>1, <2>2 DEF AgentStates
  <2>5. Becomes(a, st) /\ UNCHANGED pools
    BY <1>11, <2>1, <2>2 DEF discardConn
  <2> QED BY <1>1, <2>3, <2>4, <2>5, OverDrains
<1> QED BY <1>6, <1>7, <1>8, <1>9, <1>10, <1>11 DEF Gives

-----------------------------------------------------------------------------
(* The round. *)

LEMMA RestingIs ==
  /\ Resting \in AgentStates /\ Resting.at = "rests" /\ Resting.pool = <<>> /\ Resting.closing = <<>>
  /\ Resting.have = 0 /\ Resting.forgotten = FALSE
  /\ \A a \in Agents : Fits(a, Resting) /\ TakenIn(a, Resting) = 0 /\ KnownOf(Resting)
  /\ \A p \in PoolIds : OpensIn(Resting, p) = 0
<1>1. PICK none \in SUBSET PoolIds : none = {}
  OBVIOUS
<1>2. PICK line \in Seq(PoolIds) : line = <<>>
  BY EmptySeq
<1>3. PICK n \in Nat : n = 0
  OBVIOUS
<1>4. [at |-> "rests", pool |-> <<>>, others |-> none, todo |-> none, sum |-> n,
       have |-> n, closing |-> line, forgotten |-> FALSE] \in AgentStates
  BY DEF AgentStates, ScrapePlaces
<1>5. /\ Resting \in AgentStates /\ Resting.at = "rests" /\ Resting.pool = <<>> /\ Resting.closing = <<>>
      /\ Resting.have = 0 /\ Resting.forgotten = FALSE
  BY <1>1, <1>2, <1>3, <1>4 DEF Resting
<1>6. \A a : Fits(a, Resting) /\ TakenIn(a, Resting) = 0
  BY <1>5 DEF Fits, TakenIn, ScrapePlaces, RoundPlaces, Holding
<1>7. KnownOf(Resting)
  BY <1>5 DEF KnownOf
<1>8. ASSUME NEW p \in PoolIds PROVE OpensIn(Resting, p) = 0
  <2>1. {i \in DOMAIN Resting.closing : Resting.closing[i] \in {p}} = {}
    BY <1>5
  <2>2. CountIn(Resting.closing, {p}) = 0
    BY <2>1, FS_EmptySet DEF CountIn
  <2> QED BY <1>5, <2>2 DEF OpensIn
<1> QED BY <1>5, <1>6, <1>7, <1>8

LEMMA BeginRoundDrains ==
  ASSUME DrainInv, PoolsInv', NEW p \in Living, beginRound(p)
  PROVE  DrainInv'
<1>1. /\ Pinger \in Agents /\ agent[Pinger] \in AgentStates /\ UNCHANGED pools /\ UNCHANGED closed
      /\ p \in DOMAIN pools /\ p \in PoolIds /\ pools[p].idle \in Nat
  BY AgentsFinite, OfAgent, SQLAssumption DEF beginRound, Living, DrainInv, PoolsInv, SQLTyped, PoolStates
<1>2. PICK n \in Int : n = pools[p].idle
  BY <1>1
<1>3. PICK r \in AgentStates : r = Resting
  BY RestingIs
<1>4. PICK st : st = [r EXCEPT !.at = "takes", !.pool = p, !.sum = n]
  OBVIOUS
<1>5. st \in AgentStates
  BY <1>1, <1>4 DEF AgentStates, RoundPlaces
<1>6. r.have = 0 /\ r.closing = <<>> /\ r.forgotten = FALSE
  BY <1>3, RestingIs
<1>7. /\ st.at = "takes" /\ st.pool = p /\ st.have = 0 /\ st.closing = <<>> /\ st.forgotten = FALSE
  BY <1>4, <1>6 DEF AgentStates
<1>8. Becomes(Pinger, st)
  BY <1>2, <1>3, <1>4 DEF beginRound
<1>9. Fits(Pinger, st)
  BY <1>7 DEF Fits, RoundPlaces, Holding
<1>10. TakenIn(Pinger, st) <= TakenIn(Pinger, agent[Pinger])
  <2>1. TakenIn(Pinger, st) = 0
    BY <1>7 DEF TakenIn
  <2>2. TakenIn(Pinger, agent[Pinger]) \in Nat
    BY <1>1, OpensNat
  <2> QED BY <2>1, <2>2
<1>11. StillKnown /\ \A q \in DOMAIN pools' : Known(q)'
  BY <1>1, SameKnown DEF StillKnown, DrainInv, IdsFit
<1>12. KnownOf(st)'
  BY <1>1, <1>7, <1>11 DEF KnownOf
<1>13. ASSUME NEW q \in DOMAIN pools'
       PROVE  pools'[q].idle + OpensIn(st, q) <= pools[q].idle + OpensIn(agent[Pinger], q)
  <2>1. {i \in DOMAIN st.closing : st.closing[i] \in {q}} = {}
    BY <1>7
  <2>2. CountIn(st.closing, {q}) = 0
    BY <2>1, FS_EmptySet DEF CountIn
  <2>3. OpensIn(st, q) = 0
    BY <1>7, <2>2 DEF OpensIn
  <2>4. OpensIn(agent[Pinger], q) \in Nat
    BY <1>1, OpensNat
  <2>5. pools[q].idle \in Nat /\ pools'[q].idle = pools[q].idle
    BY <1>1, SQLAssumption DEF DrainInv, PoolsInv, SQLTyped, PoolStates
  <2> QED BY <2>3, <2>4, <2>5
<1> QED BY <1>1, <1>5, <1>8, <1>9, <1>10, <1>11, <1>12, <1>13, OneGoesOn

LEMMA PingedDrains ==
  ASSUME DrainInv, PoolsInv', Pinged, UNCHANGED pools, UNCHANGED closed
  PROVE  DrainInv'
<1>1. Pinger \in Agents /\ agent[Pinger] \in AgentStates /\ Fits(Pinger, agent[Pinger])
  BY AgentsFinite, OfAgent
<1>2. agent[Pinger].have \in Nat /\ TakenIn(Pinger, agent[Pinger]) \in Nat /\ agent[Pinger].closing = <<>>
  BY <1>1, OpensNat DEF AgentStates, Fits
<1>3. CASE agent[Pinger].have = 0
  <2>1. Becomes(Pinger, Resting)
    BY <1>3 DEF Pinged
  <2>2. Resting.have <= agent[Pinger].have /\ TakenIn(Pinger, Resting) <= TakenIn(Pinger, agent[Pinger])
    BY <1>1, <1>2, RestingIs
  <2> QED BY <1>1, <1>2, <2>1, <2>2, RestingIs, NoMoreOpens
<1>4. CASE agent[Pinger].have # 0
  <2>1. PICK n \in Int : n = 0
    OBVIOUS
  <2>2. PICK st : st = [agent[Pinger] EXCEPT !.at = "gives", !.sum = n]
    OBVIOUS
  <2>3. Becomes(Pinger, st)
    BY <1>4, <2>1, <2>2 DEF Pinged
  <2>4. st \in AgentStates /\ st.at = "gives"
    BY <1>1, <2>2 DEF AgentStates, ScrapePlaces
  <2>5. Kept(Pinger, st)
    BY <1>1, <2>2, <2>4 DEF Kept, AgentStates
  <2>6. Fits(Pinger, st)
    BY <1>1, <1>2, <1>4, <2>4, <2>5 DEF Fits, Kept, RoundPlaces, Holding
  <2>7. TakenIn(Pinger, st) <= TakenIn(Pinger, agent[Pinger])
    BY <1>2, <2>4, <2>5 DEF TakenIn, Kept
  <2> QED BY <1>1, <2>3, <2>5, <2>6, <2>7, KeptOpens
<1> QED BY <1>3, <1>4

LEMMA RoundDrains ==
  ASSUME DrainInv, PoolsInv', pingPlace \/ pingConn \/ pingOver
  PROVE  DrainInv'
<1>1. /\ Pinger \in Agents /\ agent[Pinger] \in AgentStates /\ Fits(Pinger, agent[Pinger]) /\ UNCHANGED closed
      /\ agent[Pinger].have \in Nat
  BY AgentsFinite, OfAgent DEF pingPlace, pingConn, pingOver, AgentStates
<1>2. CASE Pinged /\ UNCHANGED pools
  BY <1>1, <1>2, PingedDrains
<1>3. CASE pingPlace /\ ~Pinged
  <2>1. /\ agent[Pinger].at = "takes" /\ At(Pinger, "asks") /\ UNCHANGED pools
        /\ agent[Pinger].forgotten \/ Places < MaxPerTarget
    BY <1>3 DEF pingPlace
  <2>2. PICK st : st = [agent[Pinger] EXCEPT !.at = "asks"]
    OBVIOUS
  <2>3. st \in AgentStates /\ st.at = "asks"
    BY <1>1, <2>2 DEF AgentStates, RoundPlaces
  <2>4. Kept(Pinger, st) /\ Becomes(Pinger, st)
    BY <1>1, <2>1, <2>2, <2>3 DEF At, Kept, AgentStates
  <2>5. Fits(Pinger, st)
    BY <1>1, <2>3, <2>4 DEF Fits, Kept, RoundPlaces, Holding
  <2>6. \/ TakenIn(Pinger, st) <= TakenIn(Pinger, agent[Pinger])
        \/ Places < MaxPerTarget /\ TakenIn(Pinger, st) <= TakenIn(Pinger, agent[Pinger]) + 1
    BY <1>1, <2>1, <2>3, <2>4 DEF TakenIn, Kept
  <2> QED BY <1>1, <2>1, <2>4, <2>5, <2>6, KeptOpens
<1>4. CASE pingConn /\ ~(Pinged /\ UNCHANGED pools)
  <2>1. /\ agent[Pinger].at = "asks" /\ Takes(Pinger, agent[Pinger].pool)
        /\ Becomes(Pinger, [agent[Pinger] EXCEPT !.at = "takes", !.have = agent[Pinger].have + 1])
    BY <1>4 DEF pingConn
  <2>2. PICK n \in Nat : n = agent[Pinger].have + 1
    BY <1>1
  <2>3. PICK st : st = [agent[Pinger] EXCEPT !.at = "takes", !.have = n]
    OBVIOUS
  <2>4. st \in AgentStates
    BY <1>1, <2>3 DEF AgentStates, RoundPlaces
  <2>5. /\ st.at = "takes" /\ st.have = agent[Pinger].have + 1 /\ st.pool = agent[Pinger].pool
        /\ st.closing = agent[Pinger].closing /\ st.forgotten = agent[Pinger].forgotten
    BY <1>1, <2>2, <2>3 DEF AgentStates
  <2>6. Becomes(Pinger, st)
    BY <2>1, <2>2, <2>3
  <2>7. Fits(Pinger, st)
    BY <1>1, <2>5 DEF Fits, RoundPlaces, Holding
  <2>8. TakenIn(Pinger, st) <= TakenIn(Pinger, agent[Pinger])
    BY <1>1, <2>1, <2>5 DEF TakenIn
  <2> QED BY <1>1, <2>1, <2>4, <2>5, <2>6, <2>7, <2>8, HadIdle
<1> QED BY <1>2, <1>3, <1>4 DEF pingPlace, pingConn, pingOver

-----------------------------------------------------------------------------
(* What is given up, or goes with a pool. *)

\* Of no pool, and of no places, does an agent have more.
NoMoreOf(a, r, st) ==
  /\ st \in AgentStates /\ Fits(a, st)
  /\ st.pool = r.pool \/ st.pool = <<>>
  /\ st.closing = r.closing /\ st.have <= r.have
  /\ TakenIn(a, st) <= TakenIn(a, r)

LEMMA NoneMoved ==
  ASSUME DrainInv, NEW a \in Agents PROVE NoMoreOf(a, agent[a], agent[a])
<1>1. agent[a] \in AgentStates /\ Fits(a, agent[a])
  BY OfAgent
<1>2. agent[a].have \in Nat /\ TakenIn(a, agent[a]) \in Nat
  BY <1>1, OpensNat DEF AgentStates
<1> QED BY <1>1, <1>2 DEF NoMoreOf

LEMMA NoneMore ==
  ASSUME DrainInv, PoolsInv', DOMAIN agent' = Agents, agent' = [a \in Agents |-> agent'[a]],
         \A a \in Agents : NoMoreOf(a, agent[a], agent'[a]),
         StillKnown, DOMAIN pools' \subseteq DOMAIN pools,
         \A p \in DOMAIN pools' : pools'[p].idle <= pools[p].idle
  PROVE  DrainInv'
<1>1. agent \in [Agents -> AgentStates] /\ agent' \in [Agents -> AgentStates]
  BY DEF DrainInv, AgentsFit, NoMoreOf
<1>2. AgentsFit'
  <2>1. \A a \in Agents : Fits(a, agent'[a])
    BY DEF NoMoreOf
  <2> QED BY <1>1, <2>1 DEF AgentsFit, Fits
<1>3. IdsFit'
  <2>1. \A p \in DOMAIN pools' : Known(p)'
    BY DEF DrainInv, IdsFit, StillKnown
  <2>2. ASSUME NEW a \in Agents PROVE KnownOf(agent[a])'
    <3>1. KnownOf(agent[a]) /\ NoMoreOf(a, agent[a], agent'[a])
      BY OfAgent
    <3> QED BY <3>1 DEF KnownOf, NoMoreOf, StillKnown
  <2> QED BY <2>1, <2>2 DEF IdsFit
<1>4. ASSUME NEW p \in DOMAIN pools' PROVE numOpen(p)' <= MaxPerTarget
  <2> DEFINE f == [a \in Agents |-> OpensIn(agent[a], p)]
             g == [a \in Agents |-> OpensIn(agent'[a], p)]
  <2>1. f \in [Agents -> Nat] /\ g \in [Agents -> Nat]
    BY <1>1, OpensNat
  <2>2. \A a \in Agents : OpensIn(agent'[a], p) <= OpensIn(agent[a], p)
    <3> SUFFICES ASSUME NEW a \in Agents PROVE OpensIn(agent'[a], p) <= OpensIn(agent[a], p)
      OBVIOUS
    <3>1. p # <<>>
      <4>1. p \in PoolIds
        BY DEF PoolsInv, SQLTyped
      <4> QED BY <4>1, NoIdEmpty
    <3>2. agent[a] \in AgentStates /\ agent'[a] \in AgentStates
      BY <1>1
    <3>3. agent[a].have \in Nat /\ agent'[a].have \in Nat
      BY <3>2 DEF AgentStates
    <3>4. PICK n \in Nat : n = CountIn(agent[a].closing, {p})
      BY <3>2, CountsNat DEF AgentStates
    <3>5. NoMoreOf(a, agent[a], agent'[a])
      OBVIOUS
    <3>6. OpensIn(agent[a], p) = (IF agent[a].pool = p THEN agent[a].have ELSE 0) + n
      BY <3>4 DEF OpensIn
    <3>7. OpensIn(agent'[a], p) = (IF agent'[a].pool = p THEN agent'[a].have ELSE 0) + n
      BY <3>4, <3>5 DEF OpensIn, NoMoreOf
    <3>8. /\ agent'[a].pool = agent[a].pool \/ agent'[a].pool = <<>>
          /\ agent'[a].have <= agent[a].have
      BY <3>5 DEF NoMoreOf
    <3> QED BY <3>1, <3>3, <3>6, <3>7, <3>8
  <2>3. \A a \in Agents : g[a] <= f[a]
    BY <2>2
  <2> HIDE DEF f, g
  <2>4. SumOf(f) \in Nat /\ SumOf(g) \in Nat /\ SumOf(g) <= SumOf(f)
    BY <2>1, <2>3, AgentsFinite, SumNoMore
  <2>5. SumOf(f) = OpensOf(agent, p) /\ SumOf(g) = OpensOf(agent', p)
    BY DEF f, g, OpensOf
  <2>6. pools[p].idle + OpensOf(agent, p) <= MaxPerTarget
    BY CountedSo DEF DrainInv, PoolsDrain
  <2>7. numOpen(p)' = pools'[p].idle + OpensOf(agent', p)
    BY CountedSo
  <2>8. pools'[p].idle <= pools[p].idle /\ pools'[p].idle \in Nat /\ pools[p].idle \in Nat
    BY SQLAssumption DEF DrainInv, PoolsInv, SQLTyped, PoolStates
  <2>9. MaxPerTarget \in Nat
    BY SQLAssumption
  <2> QED BY <2>4, <2>5, <2>6, <2>7, <2>8, <2>9
<1>5. Places' \in 0..MaxPerTarget
  <2> DEFINE f == [a \in Agents |-> TakenIn(a, agent[a])]
             g == [a \in Agents |-> TakenIn(a, agent'[a])]
  <2>1. f \in [Agents -> Nat] /\ g \in [Agents -> Nat]
    BY <1>1, OpensNat
  <2>2. \A a \in Agents : g[a] <= f[a]
    BY DEF NoMoreOf
  <2> HIDE DEF f, g
  <2>3. SumOf(f) \in Nat /\ SumOf(g) \in Nat /\ SumOf(g) <= SumOf(f)
    BY <2>1, <2>2, AgentsFinite, SumNoMore
  <2>4. SumOf(f) = Places /\ SumOf(g) = Places'
    BY CountedSo DEF f, g, TakenOf
  <2>5. Places \in 0..MaxPerTarget /\ MaxPerTarget \in Nat
    BY SQLAssumption DEF DrainInv, PoolsDrain
  <2> QED BY <2>3, <2>4, <2>5
<1>6. PoolsAsUsed'
  BY DEF PoolsInv
<1>7. PoolsDrain'
  BY <1>4, <1>5, <1>6 DEF PoolsDrain
<1> QED BY <1>2, <1>3, <1>7 DEF DrainInv

\* The round that counts for no target holds no place any more.
LEMMA ForgetsNoMore ==
  ASSUME DrainInv, agent[Pinger].at # "rests"
  PROVE  NoMoreOf(Pinger, agent[Pinger], [agent[Pinger] EXCEPT !.forgotten = TRUE])
<1>1. agent[Pinger] \in AgentStates /\ Fits(Pinger, agent[Pinger])
  BY AgentsFinite, OfAgent
<1>2. PICK st : st = [agent[Pinger] EXCEPT !.forgotten = TRUE]
  OBVIOUS
<1>3. st \in AgentStates
  BY <1>1, <1>2 DEF AgentStates
<1>4. /\ st.at = agent[Pinger].at /\ st.pool = agent[Pinger].pool /\ st.closing = agent[Pinger].closing
      /\ st.have = agent[Pinger].have /\ st.forgotten = TRUE
  BY <1>1, <1>2 DEF AgentStates
<1>5. Fits(Pinger, st)
  BY <1>1, <1>4 DEF Fits
<1>6. TakenIn(Pinger, st) = 0 /\ TakenIn(Pinger, agent[Pinger]) \in Nat /\ agent[Pinger].have \in Nat
  BY <1>1, <1>4, OpensNat DEF TakenIn, AgentStates
<1> QED BY <1>2, <1>3, <1>4, <1>5, <1>6 DEF NoMoreOf

\* What agents have come to is what they come to when the round may forget.
LEMMA ForgettingNoMore ==
  ASSUME DrainInv, NEW agents, DOMAIN agents = Agents, agents = [a \in Agents |-> agents[a]],
         \A a \in Agents : NoMoreOf(a, agent[a], agents[a]), agents[Pinger] = agent[Pinger],
         NEW S, agent' = agents \/ agent' = Forgetting(agents, S)
  PROVE  /\ DOMAIN agent' = Agents /\ agent' = [a \in Agents |-> agent'[a]]
         /\ \A a \in Agents : NoMoreOf(a, agent[a], agent'[a])
<1>1. CASE agent' = agents
  BY <1>1
<1>2. CASE agent' # agents
  <2>1. agents[Pinger].at # "rests" /\ agent' = [agents EXCEPT ![Pinger].forgotten = TRUE]
    BY <1>2 DEF Forgetting
  <2>2. PICK st : st = [agent[Pinger] EXCEPT !.forgotten = TRUE]
    OBVIOUS
  <2>3. NoMoreOf(Pinger, agent[Pinger], st)
    BY <2>1, <2>2, ForgetsNoMore
  <2>4. agent' = [agents EXCEPT ![Pinger] = st]
    BY <2>1, <2>2
  <2> QED BY <2>3, <2>4, AgentsFinite
<1> QED BY <1>1, <1>2

LEMMA ReleaseDrains ==
  ASSUME DrainInv, PoolsInv', NEW s \in SQLScrapes, release(s)
  PROVE  DrainInv'
<1> DEFINE late == [agent[s] EXCEPT !.at = "late"]
           left == IF agent[s].closing = <<>> THEN Resting ELSE late
           agents == [agent EXCEPT ![s] = left]
           p == agent[s].pool
           last == pools[p].closed /\ Using(p) = {s}
<1>1. /\ agent[s].at = "leaves" /\ UNCHANGED closed
      /\ \/ last /\ pools' = Without({p}) /\ agent' = Forgetting(agents, {p})
         \/ ~last /\ agent' = agents /\ UNCHANGED pools
  BY DEF release, Becomes
<1>2. /\ s \in Agents /\ s # Pinger /\ agent[s] \in AgentStates /\ Fits(s, agent[s])
      /\ agent \in [Agents -> AgentStates]
  BY AgentsFinite, OfAgent
<1>3. agent[s].have \in Nat /\ TakenIn(s, agent[s]) \in Nat
  BY <1>2, OpensNat DEF AgentStates
<1>4. NoMoreOf(s, agent[s], Resting) \/ agent[s].closing # <<>>
  <2>1. 0 <= agent[s].have /\ 0 <= TakenIn(s, agent[s])
    BY <1>3
  <2> QED BY <1>2, <2>1, RestingIs DEF NoMoreOf
<1>5. NoMoreOf(s, agent[s], late)
  <2>1. late \in AgentStates
    BY <1>2 DEF AgentStates, ScrapePlaces
  <2>2. /\ late.at = "late" /\ late.pool = agent[s].pool /\ late.closing = agent[s].closing
        /\ late.have = agent[s].have /\ late.forgotten = agent[s].forgotten
    BY <1>2 DEF AgentStates
  <2> HIDE DEF late
  <2>3. Fits(s, late)
    BY <1>1, <1>2, <2>2 DEF Fits, ScrapePlaces, Holding
  <2>4. TakenIn(s, late) = 0
    BY <1>2, <2>2 DEF TakenIn
  <2> QED BY <1>3, <2>1, <2>2, <2>3, <2>4 DEF NoMoreOf
<1>6. NoMoreOf(s, agent[s], left)
  <2> HIDE DEF late
  <2> QED BY <1>4, <1>5
<1> HIDE DEF left
<1>7. /\ DOMAIN agents = Agents /\ agents = [a \in Agents |-> agents[a]]
      /\ agents[Pinger] = agent[Pinger] /\ \A a \in Agents : NoMoreOf(a, agent[a], agents[a])
  <2>1. /\ DOMAIN agents = Agents /\ agents = [a \in Agents |-> agents[a]] /\ agents[s] = left
        /\ \A a \in Agents : a # s => agents[a] = agent[a]
    BY <1>2
  <2> HIDE DEF agents
  <2>2. agents[Pinger] = agent[Pinger]
    BY <1>2, <2>1, AgentsFinite
  <2> QED BY <1>6, <2>1, <2>2, NoneMoved
<1> HIDE DEF agents
<1>8. /\ DOMAIN agent' = Agents /\ agent' = [a \in Agents |-> agent'[a]]
      /\ \A a \in Agents : NoMoreOf(a, agent[a], agent'[a])
  <2>1. agent' = agents \/ agent' = Forgetting(agents, {p})
    BY <1>1
  <2> HIDE DEF p, last
  <2> QED BY <1>7, <2>1, ForgettingNoMore
<1>9. /\ DOMAIN pools' \subseteq DOMAIN pools /\ \A q \in DOMAIN pools' : pools'[q] = pools[q]
      /\ Living \subseteq Living'
  <2>1. CASE last /\ pools' = Without({p})
    <3>1. DOMAIN pools' = DOMAIN pools \ {p} /\ \A q \in DOMAIN pools' : pools'[q] = pools[q]
      BY <2>1 DEF Without
    <3> QED BY <2>1, <3>1 DEF Living
  <2>2. CASE UNCHANGED pools
    BY <2>2 DEF Living
  <2> QED BY <1>1, <2>1, <2>2
<1>10. StillKnown
  <2>1. PoolsInv /\ closed' \in Nat /\ closed' = closed
    BY <1>1 DEF DrainInv, PoolsInv, SQLTyped
  <2> QED BY <1>9, <2>1, KnownFollow
<1>11. \A q \in DOMAIN pools' : pools'[q].idle <= pools[q].idle
  <2>1. \A q \in DOMAIN pools' : pools'[q].idle \in Nat
    BY SQLAssumption DEF PoolsInv, SQLTyped, PoolStates
  <2> QED BY <1>9, <2>1
<1> QED BY <1>8, <1>9, <1>10, <1>11, NoneMore

LEMMA LateClosedDrains ==
  ASSUME DrainInv, PoolsInv', NEW s \in SQLScrapes, lateClosed(s)
  PROVE  DrainInv'
<1>1. s \in Agents /\ agent[s] \in AgentStates /\ Becomes(s, Resting) /\ UNCHANGED pools /\ UNCHANGED closed
      /\ agent[s].closing = <<>>
  BY AgentsFinite, OfAgent DEF lateClosed
<1>2. 0 <= agent[s].have /\ 0 <= TakenIn(s, agent[s])
  <2>1. agent[s].have \in Nat /\ TakenIn(s, agent[s]) \in Nat
    BY <1>1, OpensNat DEF AgentStates
  <2> QED BY <2>1
<1>3. /\ Resting \in AgentStates /\ Fits(s, Resting) /\ Resting.pool = <<>>
      /\ Resting.closing = agent[s].closing /\ Resting.have <= agent[s].have
      /\ TakenIn(s, Resting) <= TakenIn(s, agent[s])
  BY <1>1, <1>2, RestingIs
<1> QED BY <1>1, <1>3, NoMoreOpens

LEMMA BefallsDrains ==
  ASSUME DrainInv, PoolsInv', NEW p \in DOMAIN pools, closePool(p) \/ closeIdle(p) \/ expire(p)
  PROVE  DrainInv'
<1>1. /\ agent \in [Agents -> AgentStates] /\ PoolsInv /\ closed \in Nat
      /\ \A q \in DOMAIN pools : pools[q].idle \in Nat
  BY OfAgent, AgentsFinite, SQLAssumption DEF DrainInv, PoolsInv, SQLTyped, PoolStates
<1>2. /\ DOMAIN agent' = Agents /\ agent' = [a \in Agents |-> agent'[a]]
      /\ \A a \in Agents : NoMoreOf(a, agent[a], agent'[a])
  <2>1. agent' = agent \/ agent' = Forgetting(agent, {p})
    BY DEF closePool, closeIdle, expire
  <2>2. DOMAIN agent = Agents /\ agent = [a \in Agents |-> agent[a]]
    BY <1>1
  <2>3. \A a \in Agents : NoMoreOf(a, agent[a], agent[a])
    BY NoneMoved
  <2> QED BY <2>1, <2>2, <2>3, ForgettingNoMore
<1>3. CASE closePool(p)
  <2>1. closed' = closed + 1
    BY <1>3 DEF closePool
  <2>2. StillKnown
    BY <1>1, <2>1, KnownFollow
  <2>3. DOMAIN pools' \subseteq DOMAIN pools /\ \A q \in DOMAIN pools' : pools'[q].idle = pools[q].idle
    <3>1. CASE pools' = Without({p})
      BY <3>1 DEF Without
    <3>2. CASE pools' = [pools EXCEPT ![p].closed = TRUE]
      BY <1>1, <3>2 DEF PoolsInv, SQLTyped, PoolStates
    <3> QED BY <1>3, <3>1, <3>2 DEF closePool
  <2>4. \A q \in DOMAIN pools' : pools'[q].idle <= pools[q].idle
    BY <1>1, <2>3
  <2> QED BY <1>2, <2>2, <2>3, <2>4, NoneMore
<1>4. CASE closeIdle(p) \/ expire(p)
  <2>1. /\ UNCHANGED closed /\ DOMAIN pools' = DOMAIN pools
        /\ \A q \in DOMAIN pools : q # p => pools'[q] = pools[q]
        /\ pools'[p].closed = pools[p].closed
    BY <1>1, <1>4 DEF closeIdle, expire, KeepsIdle, PoolsInv, SQLTyped, PoolStates
  <2>2. pools'[p].idle <= pools[p].idle
    <3>1. CASE closeIdle(p)
      <4>1. PICK st : st = [pools[p] EXCEPT !.keeps = FALSE, !.idle = 0]
        OBVIOUS
      <4>2. pools[p] \in PoolStates /\ pools \in [DOMAIN pools -> PoolStates]
        BY <1>1 DEF PoolsInv, SQLTyped
      <4>3. pools' = [pools EXCEPT ![p] = st]
        BY <3>1, <4>1, <4>2 DEF closeIdle
      <4>4. st.idle = 0
        BY <4>1, <4>2 DEF PoolStates
      <4>5. pools'[p].idle = 0
        BY <4>2, <4>3, <4>4
      <4> QED BY <1>1, <4>5
    <3>2. CASE expire(p)
      <4>1. pools'[p].idle = pools[p].idle - 1
        BY <1>1, <3>2 DEF expire, KeepsIdle, PoolsInv, SQLTyped, PoolStates
      <4> QED BY <1>1, <4>1
    <3> QED BY <1>4, <3>1, <3>2
  <2>3. Living \subseteq Living'
    BY <2>1 DEF Living
  <2>4. StillKnown
    BY <1>1, <2>1, <2>3, KnownFollow
  <2>5. \A q \in DOMAIN pools' : pools'[q].idle <= pools[q].idle
    BY <1>1, <2>1, <2>2
  <2> QED BY <1>2, <2>1, <2>4, <2>5, NoneMore
<1> QED BY <1>3, <1>4

-----------------------------------------------------------------------------
(* A scrape gets its pool. *)

\* Nothing of a pool is had by anybody who does not know it.
LEMMA UnknownOpens ==
  ASSUME DrainInv, NEW p \in PoolIds, ~Known(p)
  PROVE  OpensOf(agent, p) = 0
<1>1. ASSUME NEW a \in Agents PROVE OpensIn(agent[a], p) = 0
  <2>1. KnownOf(agent[a]) /\ p # <<>>
    BY OfAgent, NoIdEmpty
  <2>2. agent[a].pool # p
    BY <2>1 DEF KnownOf
  <2>3. {i \in DOMAIN agent[a].closing : agent[a].closing[i] \in {p}} = {}
    BY <2>1 DEF KnownOf
  <2>4. CountIn(agent[a].closing, {p}) = 0
    BY <2>3, FS_EmptySet DEF CountIn
  <2> QED BY <2>2, <2>4 DEF OpensIn
<1> DEFINE f == [a \in Agents |-> OpensIn(agent[a], p)]
<1>2. \A a \in DOMAIN f : f[a] = 0
  BY <1>1
<1> HIDE DEF f
<1>3. SumOf(f) = 0
  BY <1>2, SumOfNone
<1> QED BY <1>3 DEF f, OpensOf

\* A pool of a database that has none.
NewPool(d, p, gone) ==
  /\ PoolOf(d) = {} /\ p = <<d, closed'>> /\ closed' \in Nat
  /\ closed' > closed \/ (closed' = closed /\ gone = {})
  /\ pools' = [q \in (DOMAIN pools \ gone) \cup {p} |-> IF q = p THEN Opened ELSE pools[q]]

LEMMA AcquireShaped ==
  ASSUME DrainInv, NEW s \in SQLScrapes, NEW d \in Databases, acquire(s, d)
  PROVE  \E p, gone :
           /\ Becomes(s, [Resting EXCEPT !.at = "waits", !.pool = p]) /\ gone \subseteq Living
           /\ \/ p \in DOMAIN pools /\ UNCHANGED pools /\ UNCHANGED closed
              \/ NewPool(d, p, gone)
<1>1. closed \in Nat
  BY DEF DrainInv, PoolsInv, SQLTyped
<1>2. CASE PoolOf(d) # {}
  <2>1. PICK q \in PoolOf(d) : /\ Becomes(s, [Resting EXCEPT !.at = "waits", !.pool = q])
                               /\ UNCHANGED <<pools, closed>>
    BY <1>2 DEF acquire
  <2>2. q \in DOMAIN pools
    BY <2>1 DEF PoolOf, Living
  <2> WITNESS q, {}
  <2> QED BY <2>1, <2>2
<1>3. CASE PoolOf(d) = {}
  <2>1. PICK gone \in SUBSET Living :
          /\ IF Cardinality(Living) < MaxPerTarget
               THEN gone = {}
               ELSE Cardinality(gone) = 1 /\ \A q \in gone : Using(q) = {}
          /\ closed' = closed + Cardinality(gone)
          /\ pools' = [p \in (DOMAIN pools \ gone) \cup {<<d, closed'>>} |->
                         IF p = <<d, closed'>> THEN Opened ELSE pools[p]]
          /\ Becomes(s, [Resting EXCEPT !.at = "waits", !.pool = <<d, closed'>>])
    BY <1>3 DEF acquire
  <2>2. gone = {} => Cardinality(gone) = 0
    BY FS_EmptySet
  <2>3. closed' \in Nat /\ (closed' > closed \/ (closed' = closed /\ gone = {}))
    BY <1>1, <2>1, <2>2
  <2> WITNESS <<d, closed'>>, gone
  <2> QED BY <1>3, <2>1, <2>3 DEF NewPool
<1> QED BY <1>2, <1>3

LEMMA NewPoolIs ==
  ASSUME DrainInv, NEW d \in Databases, NEW p, NEW gone, NewPool(d, p, gone)
  PROVE  /\ p \in PoolIds /\ ~Known(p) /\ p \notin DOMAIN pools /\ StillKnown
         /\ DOMAIN pools' = (DOMAIN pools \ gone) \cup {p} /\ pools'[p] = Opened
         /\ \A q \in DOMAIN pools' : q # p => q \in DOMAIN pools /\ pools'[q] = pools[q]
<1>1. PoolsInv /\ closed \in Nat
  BY DEF DrainInv, PoolsInv, SQLTyped
<1>2. p[1] = d /\ p[2] = closed' /\ p \in PoolIds /\ closed' \in Nat
  BY DEF NewPool, PoolIds
<1>3. ~Known(p)
  <2>1. p \notin Living
    BY <1>2 DEF NewPool, PoolOf
  <2> QED BY <1>1, <1>2, <2>1 DEF NewPool, Known
<1>4. p \notin DOMAIN pools
  BY <1>3 DEF DrainInv, IdsFit
<1>5. /\ DOMAIN pools' = (DOMAIN pools \ gone) \cup {p} /\ pools'[p] = Opened
      /\ \A q \in DOMAIN pools' : q # p => q \in DOMAIN pools /\ pools'[q] = pools[q]
  BY DEF NewPool
<1>6. gone = {} => Living \subseteq Living'
  BY <1>4, <1>5 DEF Living
<1>7. StillKnown
  BY <1>1, <1>2, <1>6, KnownFollow DEF NewPool
<1> QED BY <1>2, <1>3, <1>4, <1>5, <1>7

LEMMA AcquireDrains ==
  ASSUME DrainInv, PoolsInv', NEW s \in SQLScrapes, NEW d \in Databases, acquire(s, d)
  PROVE  DrainInv'
<1>1. /\ s \in Agents /\ s # Pinger /\ agent[s] \in AgentStates /\ agent[s].at = "rests"
      /\ PoolsInv /\ closed \in Nat /\ \A q \in DOMAIN pools : pools[q].idle \in Nat /\ q \in PoolIds
  <2>1. s \in Agents /\ s # Pinger /\ agent[s] \in AgentStates
    BY AgentsFinite, OfAgent
  <2>2. agent[s].at = "rests"
    BY DEF acquire
  <2>3. PoolsInv /\ closed \in Nat /\ DOMAIN pools \subseteq PoolIds
    BY DEF DrainInv, PoolsInv, SQLTyped
  <2>4. \A q \in DOMAIN pools : pools[q].idle \in Nat
    BY SQLAssumption DEF DrainInv, PoolsInv, SQLTyped, PoolStates
  <2> QED BY <2>1, <2>2, <2>3, <2>4
<1>2. PICK p, gone :
        /\ Becomes(s, [Resting EXCEPT !.at = "waits", !.pool = p]) /\ gone \subseteq Living
        /\ \/ p \in DOMAIN pools /\ UNCHANGED pools /\ UNCHANGED closed
           \/ NewPool(d, p, gone)
  BY AcquireShaped
<1>3. p \in PoolIds
  BY <1>1, <1>2, NewPoolIs
<1>4. PICK r \in AgentStates : r = Resting
  BY RestingIs
<1>5. PICK st : st = [r EXCEPT !.at = "waits", !.pool = p]
  OBVIOUS
<1>6. st \in AgentStates
  BY <1>3, <1>5 DEF AgentStates, ScrapePlaces
<1>7. /\ st.at = "waits" /\ st.pool = p /\ st.have = 0 /\ st.closing = <<>> /\ st.forgotten = FALSE
  <2>1. r.have = 0 /\ r.closing = <<>> /\ r.forgotten = FALSE
    BY <1>4, RestingIs
  <2> QED BY <1>5, <2>1 DEF AgentStates
<1>8. Becomes(s, st)
  BY <1>2, <1>4, <1>5
<1>9. Fits(s, st)
  BY <1>1, <1>7 DEF Fits, ScrapePlaces, Holding
<1>10. TakenIn(s, st) <= TakenIn(s, agent[s])
  <2>1. TakenIn(s, st) = 0 /\ TakenIn(s, agent[s]) \in Nat
    BY <1>1, <1>7, OpensNat DEF TakenIn
  <2> QED BY <2>1
<1>11. ASSUME NEW q PROVE OpensIn(st, q) = 0 /\ OpensIn(agent[s], q) \in Nat
  <2>1. {i \in DOMAIN st.closing : st.closing[i] \in {q}} = {}
    BY <1>7
  <2>2. CountIn(st.closing, {q}) = 0
    BY <2>1, FS_EmptySet DEF CountIn
  <2>3. OpensIn(st, q) = 0
    BY <1>7, <2>2 DEF OpensIn
  <2>4. OpensIn(agent[s], q) \in Nat
    BY <1>1, OpensNat
  <2> QED BY <2>3, <2>4
<1>12. CASE p \in DOMAIN pools /\ UNCHANGED pools /\ UNCHANGED closed
  <2>1. StillKnown /\ \A q \in DOMAIN pools' : Known(q)'
    BY <1>12, SameKnown DEF StillKnown, DrainInv, IdsFit
  <2>2. KnownOf(st)'
    BY <1>7, <1>12, <2>1 DEF KnownOf
  <2>3. ASSUME NEW q \in DOMAIN pools' PROVE pools'[q].idle + OpensIn(st, q) <= pools[q].idle + OpensIn(agent[s], q)
    BY <1>1, <1>11, <1>12
  <2> QED BY <1>1, <1>6, <1>8, <1>9, <1>10, <1>12, <2>1, <2>2, <2>3, OneGoesOn
<1>13. CASE NewPool(d, p, gone)
  <2>1. ~Known(p) /\ StillKnown
    BY <1>13, NewPoolIs
  <2>2. /\ DOMAIN pools' = (DOMAIN pools \ gone) \cup {p} /\ pools'[p] = Opened
        /\ \A q \in DOMAIN pools' : q # p => q \in DOMAIN pools /\ pools'[q] = pools[q]
    BY <1>13, NewPoolIs
  <2>3. Opened.idle = 0 /\ ~Opened.closed
    BY DEF Opened
  <2>4. p[2] = closed' /\ closed' \in Nat
    BY <1>13 DEF NewPool
  <2>5. Known(p)'
    <3>1. p \in Living'
      BY <2>2, <2>3 DEF Living
    <3> QED BY <1>3, <2>4, <3>1 DEF Known
  <2>6. \A q \in DOMAIN pools' : Known(q)'
    BY <2>1, <2>2, <2>5 DEF StillKnown, DrainInv, IdsFit
  <2>7. KnownOf(st)'
    BY <1>7, <2>5 DEF KnownOf
  <2>8. ASSUME NEW q \in DOMAIN pools'
         PROVE  \/ q \in DOMAIN pools /\ pools'[q].idle + OpensIn(st, q) <= pools[q].idle + OpensIn(agent[s], q)
                \/ pools'[q].idle + OpensOf(agent, q) + OpensIn(st, q) <= MaxPerTarget + OpensIn(agent[s], q)
    <3>1. CASE q = p
      <4>1. OpensOf(agent, q) = 0
        BY <1>3, <2>1, <3>1, UnknownOpens
      <4>2. pools'[q].idle = 0
        BY <2>2, <2>3, <3>1
      <4> QED BY <1>11, <4>1, <4>2, SQLAssumption
    <3>2. CASE q # p
      <4>1. q \in DOMAIN pools /\ pools'[q].idle = pools[q].idle
        BY <2>2, <3>2
      <4> QED BY <1>1, <1>11, <4>1
    <3> QED BY <3>1, <3>2
  <2> QED BY <1>1, <1>6, <1>8, <1>9, <1>10, <2>1, <2>6, <2>7, <2>8, OneGoesOn
<1> QED BY <1>2, <1>12, <1>13

-----------------------------------------------------------------------------
(* The pools drain. *)

\* So it is at first, with no pool and nobody that has a place.
LEMMA InitialDrain == SQLInit => DrainInv
<1> SUFFICES ASSUME SQLInit PROVE DrainInv
  OBVIOUS
<1>1. PoolsInv
  BY InitialPools
<1>2. DOMAIN pools = {} /\ agent = [a \in Agents |-> Resting]
  BY DEF SQLInit
<1>3. AgentsFit
  BY <1>2, RestingIs DEF AgentsFit
<1>4. IdsFit
  BY <1>2, RestingIs DEF IdsFit
<1>5. Places = 0
  <2> DEFINE f == [a \in Agents |-> TakenIn(a, agent[a])]
  <2>1. \A a \in DOMAIN f : f[a] = 0
    BY <1>2, RestingIs
  <2> HIDE DEF f
  <2>2. SumOf(f) = 0
    BY <2>1, SumOfNone
  <2> QED BY <2>2, CountedSo DEF f, TakenOf
<1>6. PoolsDrain
  BY <1>1, <1>2, <1>5, SQLAssumption DEF PoolsDrain, PoolsInv
<1> QED BY <1>1, <1>3, <1>4, <1>6 DEF DrainInv

\* And after every step of a scrape, of the round, and of a reload.
LEMMA DrainStep == DrainInv /\ [SQLNext]_sqlvars => DrainInv'
<1> SUFFICES ASSUME DrainInv, [SQLNext]_sqlvars PROVE DrainInv'
  OBVIOUS
<1>1. PoolsInv'
  BY PoolsStep DEF DrainInv
<1>2. ASSUME NEW s \in SQLScrapes, Scrapes(s) PROVE DrainInv'
  BY <1>1, <1>2, ScrapeDrains, RoomDrains, ConnClosedDrains, ConnectDrains, ReleaseDrains, LateClosedDrains
     DEF Scrapes
<1>3. ASSUME NEW s \in SQLScrapes, NEW d \in Databases, acquire(s, d) PROVE DrainInv'
  BY <1>1, <1>3, AcquireDrains
<1>4. ASSUME NEW a \in Agents, Gives(a) PROVE DrainInv'
  BY <1>1, <1>4, GivesDrain
<1>5. ASSUME NEW p \in Living, beginRound(p) PROVE DrainInv'
  BY <1>1, <1>5, BeginRoundDrains
<1>6. ASSUME pingPlace \/ pingConn \/ pingOver PROVE DrainInv'
  BY <1>1, <1>6, RoundDrains
<1>7. ASSUME NEW p \in DOMAIN pools, closePool(p) \/ closeIdle(p) \/ expire(p) PROVE DrainInv'
  BY <1>1, <1>7, BefallsDrains
<1>8. ASSUME UNCHANGED sqlvars PROVE DrainInv'
  <2>1. UNCHANGED pools /\ UNCHANGED agent /\ UNCHANGED closed
    BY <1>8 DEF sqlvars
  <2>2. agent \in [Agents -> AgentStates] /\ PoolsInv
    BY DEF DrainInv, AgentsFit
  <2>3. /\ DOMAIN agent' = Agents /\ agent' = [a \in Agents |-> agent'[a]]
        /\ \A a \in Agents : NoMoreOf(a, agent[a], agent'[a])
    BY <2>1, <2>2, NoneMoved
  <2>4. StillKnown
    BY <2>1, SameKnown DEF StillKnown
  <2>5. DOMAIN pools' \subseteq DOMAIN pools /\ \A p \in DOMAIN pools' : pools'[p].idle <= pools[p].idle
    BY <2>1, <2>2, SQLAssumption DEF PoolsInv, SQLTyped, PoolStates
  <2> QED BY <1>1, <2>3, <2>4, <2>5, NoneMore
<1> QED BY <1>2, <1>3, <1>4, <1>5, <1>6, <1>7, <1>8 DEF SQLNext

\* Of a target, no more places are taken than max_per_target, and of each of
\* its pools no more connections are open than there are places, those given
\* up and yet to be closed among them (sqlTarget.sem, sqlPool and database/sql
\* under it), for any databases, scrapes and limits, whatever is closed under
\* them by reloads and by the keepalive.
THEOREM PoolsAlwaysDrain == SQLSpec => []PoolsDrain
<1>1. DrainInv => PoolsDrain
  BY DEF DrainInv
<1> QED BY <1>1, InitialDrain, DrainStep, PTL DEF SQLSpec

-----------------------------------------------------------------------------
(* What is idle. *)

\* What the pools of a set keep idle.
IdleIn(S) == SumOf([p \in S |-> IdleOf(p)])

\* What who tallies has added up covers what the pools it has read keep idle,
\* but for the only one left.
TallySays(st) ==
  \/ \A p, q \in Living \cap st.others : p = q
  \/ IdleIn((Living \cap st.others) \ st.todo) <= st.sum

\* Who tallies has the lock, and knows of pools that were.
GivingFits ==
  \A a \in Agents :
    /\ agent[a].at = "tallies" => giving = {a}
    /\ agent[a].at = "queues" => agent[a].todo = agent[a].others
    /\ agent[a].at \in {"queues", "tallies"} => \A q \in agent[a].others : Known(q)

Tallied == \A a \in Agents : agent[a].at = "tallies" => TallySays(agent[a])

IdleInv == DrainInv /\ GivingFits /\ (crossed \/ (IdleHeld /\ Tallied))

\* Of pools that are numbered up to some number there are finitely many.
LEMMA NumberedFinite ==
  ASSUME NEW D \in SUBSET PoolIds, NEW n \in Nat, \A p \in D : p[2] <= n
  PROVE  IsFiniteSet(D)
<1>1. IsFiniteSet(0..n)
  BY FS_Interval
<1>2. IsFiniteSet(Databases \X (0..n))
  BY <1>1, SQLAssumption, FS_Product
<1>3. \A p \in PoolIds : p = <<p[1], p[2]>> /\ p[1] \in Databases /\ p[2] \in Nat
  BY DEF PoolIds
<1>4. D \in SUBSET (Databases \X (0..n))
  <2> SUFFICES ASSUME NEW p \in D PROVE p \in Databases \X (0..n)
    OBVIOUS
  <2>1. p = <<p[1], p[2]>> /\ p[1] \in Databases /\ p[2] \in Nat /\ p[2] <= n
    BY <1>3
  <2>2. p[2] \in 0..n
    BY <2>1
  <2> QED BY <2>1, <2>2
<1> QED BY <1>2, <1>4, FS_Subset

\* So there are of those not closed, each of which keeps a number idle.
LEMMA LivingFinite ==
  /\ DrainInv  => IsFiniteSet(Living) /\ \A p : IdleOf(p) \in Nat
  /\ DrainInv' => IsFiniteSet(Living') /\ \A p : IdleOf(p)' \in Nat
<1>1. ASSUME DrainInv PROVE IsFiniteSet(Living) /\ \A p : IdleOf(p) \in Nat
  <2>1. Living \in SUBSET PoolIds /\ closed \in Nat
    BY <1>1 DEF DrainInv, PoolsInv, SQLTyped, Living
  <2>2. \A p \in Living : p[2] <= closed
    BY <1>1 DEF DrainInv, IdsFit, Known, Living
  <2>3. \A p \in DOMAIN pools : pools[p].idle \in Nat
    BY <1>1, SQLAssumption DEF DrainInv, PoolsInv, SQLTyped, PoolStates
  <2> QED BY <2>1, <2>2, <2>3, NumberedFinite DEF IdleOf
<1>2. ASSUME DrainInv' PROVE IsFiniteSet(Living') /\ \A p : IdleOf(p)' \in Nat
  <2>1. Living' \in SUBSET PoolIds /\ closed' \in Nat
    BY <1>2 DEF DrainInv, PoolsInv, SQLTyped, Living
  <2>2. \A p \in Living' : p[2] <= closed'
    BY <1>2 DEF DrainInv, IdsFit, Known, Living
  <2>3. \A p \in DOMAIN pools' : pools'[p].idle \in Nat
    BY <1>2, SQLAssumption DEF DrainInv, PoolsInv, SQLTyped, PoolStates
  <2> QED BY <2>1, <2>2, <2>3, NumberedFinite DEF IdleOf
<1> QED BY <1>1, <1>2

\* No pool keeps more idle, and none that is gone comes back.
PoolsNoMore ==
  /\ StillKnown
  /\ \A p \in Living' : Known(p) => p \in Living
  /\ \A p \in Living' : IdleOf(p)' <= IdleOf(p)

\* Of sets of pools of which the one is in the other but for new ones.
LEMMA IdleNoMore ==
  ASSUME DrainInv, DrainInv', PoolsNoMore,
         NEW S \in SUBSET Living, NEW T \in SUBSET Living', \A p \in T : Known(p) => p \in S
  PROVE  /\ SumOf([p \in T |-> IdleOf(p)']) \in Nat /\ IdleIn(S) \in Nat
         /\ SumOf([p \in T |-> IdleOf(p)']) <= IdleIn(S)
<1> DEFINE f == [p \in S |-> IdleOf(p)]
           g == [p \in T |-> IdleOf(p)']
<1>1. IsFiniteSet(S) /\ IsFiniteSet(T)
  BY LivingFinite, FS_Subset
<1>2. f \in [S -> Nat] /\ g \in [T -> Nat]
  BY LivingFinite
<1>3. ASSUME NEW y \in T PROVE g[y] = 0 \/ (y \in S /\ g[y] <= f[y])
  <2>1. IdleOf(y)' <= IdleOf(y) /\ IdleOf(y)' \in Nat
    BY LivingFinite DEF PoolsNoMore
  <2>2. y \in DOMAIN pools => Known(y)
    BY DEF DrainInv, IdsFit
  <2>3. y \in S \/ IdleOf(y) = 0
    BY <2>2 DEF IdleOf
  <2> QED BY <2>1, <2>3
<1> HIDE DEF f, g
<1>4. SumOf(g) \in Nat /\ SumOf(f) \in Nat /\ SumOf(g) <= SumOf(f)
  BY <1>1, <1>2, <1>3, SumFewer
<1> QED BY <1>4 DEF f, g, IdleIn

\* An agent goes on tallying as it was, or does not, or is to.
TalliesOn(a) ==
  \/ agent'[a].at \notin {"queues", "tallies"}
  \/ /\ agent'[a].at = "queues"
     /\ agent'[a].others = Living /\ agent'[a].todo = agent'[a].others
  \/ /\ agent'[a].at = agent[a].at /\ agent'[a].others = agent[a].others
     /\ agent'[a].todo = agent[a].todo /\ agent'[a].sum = agent[a].sum

\* A step with which no pool keeps more idle, and all who tally go on so.
LEMMA IdleFollows ==
  ASSUME IdleInv, DrainInv', PoolsNoMore, crossed => crossed', UNCHANGED giving,
         \A a \in Agents : TalliesOn(a)
  PROVE  IdleInv'
<1>1. DrainInv /\ GivingFits /\ (crossed \/ (IdleHeld /\ Tallied))
  BY DEF IdleInv
<1>2. \A p \in Living : Known(p)
  BY <1>1 DEF DrainInv, IdsFit, Living
<1>3. GivingFits'
  <2> SUFFICES ASSUME NEW a \in Agents
               PROVE  /\ agent'[a].at = "tallies" => giving' = {a}
                      /\ agent'[a].at = "queues" => agent'[a].todo = agent'[a].others
                      /\ agent'[a].at \in {"queues", "tallies"} => \A q \in agent'[a].others : Known(q)'
    BY DEF GivingFits
  <2>1. TalliesOn(a)
    OBVIOUS
  <2>2. \A p : Known(p) => Known(p)'
    BY DEF PoolsNoMore, StillKnown
  <2> QED BY <1>1, <1>2, <2>1, <2>2 DEF TalliesOn, GivingFits
<1>4. ASSUME IdleHeld PROVE IdleHeld'
  <2>1. PICK m, n \in Nat : m = SumOf([p \in Living' |-> IdleOf(p)']) /\ n = IdleIn(Living) /\ m <= n
    BY <1>1, IdleNoMore DEF PoolsNoMore
  <2>2. n <= MaxIdlePer
    BY <1>4, <2>1 DEF IdleHeld, IdleOpen, IdleIn
  <2>3. m <= MaxIdlePer
    BY <2>1, <2>2, SQLAssumption
  <2> QED BY <2>1, <2>3 DEF IdleHeld, IdleOpen
<1>5. ASSUME Tallied, NEW a \in Agents, agent'[a].at = "tallies" PROVE TallySays(agent[a])'
  <2> DEFINE others == agent[a].others
             S == (Living \cap others) \ agent[a].todo
             T == (Living' \cap others) \ agent[a].todo
  <2>1. /\ agent[a].at = "tallies" /\ agent'[a].others = others
        /\ agent'[a].todo = agent[a].todo /\ agent'[a].sum = agent[a].sum
    <3>1. TalliesOn(a)
      OBVIOUS
    <3> QED BY <1>5, <3>1 DEF TalliesOn
  <2>2. TallySays(agent[a])
    BY <1>5, <2>1 DEF Tallied
  <2>3. \A q \in others : Known(q)
    BY <1>1, <2>1 DEF GivingFits
  <2>4. Living' \cap others \subseteq Living \cap others
    BY <2>3 DEF PoolsNoMore
  <2>5. CASE \A p, q \in Living \cap others : p = q
    <3>1. \A p, q \in Living' \cap agent'[a].others : p = q
      BY <2>1, <2>4, <2>5
    <3> QED BY <3>1 DEF TallySays
  <2>6. CASE IdleIn(S) <= agent[a].sum
    <3>1. S \in SUBSET Living /\ T \in SUBSET Living' /\ \A p \in T : Known(p) => p \in S
      BY <2>4
    <3>2. PICK m, n \in Nat : m = SumOf([p \in T |-> IdleOf(p)']) /\ n = IdleIn(S) /\ m <= n
      BY <1>1, <3>1, IdleNoMore
    <3>3. PICK k \in Int : k = agent[a].sum
      BY <1>1, OfAgent DEF AgentStates
    <3>4. m <= k
      BY <2>6, <3>2, <3>3
    <3>5. SumOf([p \in (Living' \cap agent'[a].others) \ agent'[a].todo |-> IdleOf(p)']) <= agent'[a].sum
      BY <2>1, <3>2, <3>3, <3>4
    <3> QED BY <3>5 DEF TallySays, IdleIn
  <2> QED BY <2>2, <2>5, <2>6 DEF TallySays
<1> QED BY <1>1, <1>3, <1>4, <1>5 DEF IdleInv, Tallied

\* One agent goes on, or starts to tally, or takes an idle connection.
Alone(a) == \A b \in Agents : b # a => agent'[b] = agent[b]

\* ... of one agent.
LEMMA OneTallies ==
  ASSUME IdleInv, DrainInv', PoolsNoMore, crossed => crossed', UNCHANGED giving,
         NEW a \in Agents, Alone(a), TalliesOn(a)
  PROVE  IdleInv'
<1>1. ASSUME NEW b \in Agents PROVE TalliesOn(b)
  BY DEF Alone, TalliesOn
<1> QED BY <1>1, IdleFollows

\* With the pools as they are none keeps more idle.
LEMMA SamePools ==
  ASSUME DrainInv, UNCHANGED pools, UNCHANGED closed PROVE PoolsNoMore
<1>1. \A p : Known(p) => Known(p)'
  BY DEF Known, Living
<1>2. Living' = Living /\ \A p : IdleOf(p)' = IdleOf(p) /\ IdleOf(p) \in Nat
  BY LivingFinite DEF Living, IdleOf
<1> QED BY <1>1, <1>2 DEF PoolsNoMore, StillKnown

\* Nor with fewer of them, numbered on as they are closed.
LEMMA FewerPools ==
  ASSUME DrainInv, DrainInv', DOMAIN pools' \subseteq DOMAIN pools,
         Living' \subseteq Living, \A p \in DOMAIN pools' : pools'[p].idle <= pools[p].idle,
         closed' > closed \/ (closed' = closed /\ Living \subseteq Living')
  PROVE  PoolsNoMore
<1>1. StillKnown
  <2>1. PoolsInv /\ closed' \in Nat
    BY DEF DrainInv, PoolsInv, SQLTyped
  <2> QED BY <2>1, KnownFollow
<1>2. \A p \in Living' : p \in Living
  OBVIOUS
<1>3. ASSUME NEW p \in Living' PROVE IdleOf(p)' <= IdleOf(p)
  <2>1. p \in DOMAIN pools' /\ p \in DOMAIN pools
    BY DEF Living
  <2>2. IdleOf(p)' = pools'[p].idle
    BY <2>1 DEF IdleOf
  <2>3. IdleOf(p) = pools[p].idle
    BY <2>1 DEF IdleOf
  <2>4. pools'[p].idle <= pools[p].idle
    BY <2>1
  <2> QED BY <2>2, <2>3, <2>4
<1> QED BY <1>1, <1>2, <1>3 DEF PoolsNoMore

\* Nor as an idle connection is taken.
LEMMA TakesFewer ==
  ASSUME DrainInv, DrainInv', NEW a, NEW p, Takes(a, p), UNCHANGED closed
  PROVE  PoolsNoMore /\ (crossed => crossed')
<1>1. p \in DOMAIN pools /\ pools' = [pools EXCEPT ![p].idle = pools[p].idle - 1] /\ pools[p].idle \in Nat
  BY SQLAssumption DEF Takes, IdleOf, KeepsIdle, DrainInv, PoolsInv, SQLTyped, PoolStates
<1>2. pools \in [DOMAIN pools -> PoolStates]
  BY DEF DrainInv, PoolsInv, SQLTyped
<1>3. /\ DOMAIN pools' = DOMAIN pools
      /\ \A q \in DOMAIN pools : /\ pools'[q].closed = pools[q].closed
                                  /\ pools[q].idle \in Nat
                                  /\ pools'[q].idle = IF q = p THEN pools[p].idle - 1 ELSE pools[q].idle
  BY <1>1, <1>2, SQLAssumption DEF PoolStates
<1>4. \A q \in DOMAIN pools' : pools'[q].idle <= pools[q].idle
  BY <1>1, <1>3
<1>5. Living' = Living
  BY <1>3 DEF Living
<1>6. crossed => crossed'
  BY DEF Takes
<1> QED BY <1>3, <1>4, <1>5, <1>6, FewerPools

\* A step of one agent, the pools, the lock and the counts as they are.
LEMMA OnlyAgentTallies ==
  ASSUME IdleInv, DrainInv', UNCHANGED <<pools, giving, closed, crossed>>,
         NEW a \in Agents, Alone(a), TalliesOn(a)
  PROVE  IdleInv'
<1>1. UNCHANGED pools /\ UNCHANGED closed /\ UNCHANGED giving /\ UNCHANGED crossed
  OBVIOUS
<1>2. DrainInv
  BY DEF IdleInv
<1>3. PoolsNoMore
  BY <1>1, <1>2, SamePools
<1>4. crossed => crossed'
  BY <1>1
<1> QED BY <1>1, <1>3, <1>4, OneTallies

\* A step of one agent, that takes an idle connection.
LEMMA TakerTallies ==
  ASSUME IdleInv, DrainInv', NEW a \in Agents, NEW p, Takes(a, p), UNCHANGED closed, UNCHANGED giving,
         Alone(a), TalliesOn(a)
  PROVE  IdleInv'
<1>1. DrainInv
  BY DEF IdleInv
<1>2. PoolsNoMore /\ (crossed => crossed')
  BY <1>1, TakesFewer
<1> QED BY <1>2, OneTallies

\* What becomes of an agent becomes of none other.
LEMMA BecomesIt ==
  ASSUME IdleInv, NEW a \in Agents, NEW st, Becomes(a, st)
  PROVE  Alone(a) /\ agent'[a] = st
<1>1. agent \in [Agents -> AgentStates]
  BY DEF IdleInv, DrainInv, AgentsFit
<1> QED BY <1>1 DEF Becomes, Alone

\* An agent from one place to another, but to the tally.
LEMMA GoesElsewhere ==
  ASSUME IdleInv, NEW a \in Agents, NEW st, Becomes(a, st), st.at \notin {"queues", "tallies"}
  PROVE  Alone(a) /\ TalliesOn(a)
BY BecomesIt DEF TalliesOn

\* An agent of which only where it is changes, but to the tally.
LEMMA GoesTo ==
  ASSUME IdleInv, NEW a \in Agents, NEW to, to \notin {"queues", "tallies"}, At(a, to)
  PROVE  Alone(a) /\ TalliesOn(a)
<1>1. agent[a] \in AgentStates
  BY OfAgent DEF IdleInv
<1>2. PICK st : st = [agent[a] EXCEPT !.at = to]
  OBVIOUS
<1>3. st.at = to /\ Becomes(a, st)
  BY <1>1, <1>2 DEF At, AgentStates
<1> QED BY <1>3, GoesElsewhere

\* A scrape, but as it takes an idle connection or leaves its pool.
LEMMA ScrapeTallies ==
  ASSUME IdleInv, DrainInv', NEW s \in SQLScrapes,
         \/ takePlace(s) \/ placeTimeout(s) \/ otherPools(s) \/ readPlaces(s) \/ countIdle(s)
         \/ connClosed(s) \/ roomMade(s) \/ endStatement(s) \/ freePlace(s) \/ lateClosed(s)
  PROVE  IdleInv'
<1>1. s \in Agents /\ agent[s] \in AgentStates
  BY AgentsFinite, OfAgent DEF IdleInv
<1>2. UNCHANGED <<pools, giving, closed, crossed>>
  BY DEF takePlace, placeTimeout, otherPools, readPlaces, countIdle, connClosed, roomMade, endStatement,
         freePlace, lateClosed
<1>3. Alone(s) /\ TalliesOn(s)
  <2>1. CASE takePlace(s) \/ placeTimeout(s) \/ roomMade(s) \/ endStatement(s) \/ freePlace(s)
    <3>1. PICK to \in {"placed", "leaves", "connects", "over", "gives", "discards"} : At(s, to)
      BY <2>1 DEF takePlace, placeTimeout, roomMade, endStatement, freePlace
    <3> QED BY <1>1, <3>1, GoesTo
  <2>2. CASE otherPools(s)
    <3>1. CASE At(s, "connects")
      BY <1>1, <3>1, GoesTo
    <3>2. PICK others : Becomes(s, [agent[s] EXCEPT !.at = "looks", !.others = others, !.todo = others])
          \/ At(s, "connects")
      BY <2>2 DEF otherPools
    <3>3. [agent[s] EXCEPT !.at = "looks", !.others = others, !.todo = others].at = "looks"
      BY <1>1 DEF AgentStates
    <3> QED BY <1>1, <3>1, <3>2, <3>3, GoesElsewhere
  <2>3. CASE readPlaces(s)
    <3>1. [agent[s] EXCEPT !.at = "counts", !.sum = Places - MaxPerTarget].at = "counts"
      BY <1>1 DEF AgentStates
    <3> QED BY <1>1, <2>3, <3>1, GoesElsewhere DEF readPlaces
  <2>4. CASE countIdle(s)
    <3>1. agent[s].at = "counts"
      BY <2>4 DEF countIdle
    <3>2. /\ [agent[s] EXCEPT !.at = "rooms", !.todo = agent[s].others].at = "rooms"
          /\ [Looked(agent[s]) EXCEPT !.at = "connects"].at = "connects"
          /\ \A q : [agent[s] EXCEPT !.todo = @ \ {q}, !.sum = @ + IdleOf(q)].at = "counts"
      BY <1>1, <3>1 DEF AgentStates, Looked
    <3>3. PICK st : Becomes(s, st) /\ st.at \in {"rooms", "connects", "counts"}
      <4>1. CASE agent[s].todo = {} /\ agent[s].sum > 0
        BY <2>4, <3>2, <4>1 DEF countIdle
      <4>2. CASE agent[s].todo = {} /\ ~(agent[s].sum > 0)
        BY <2>4, <3>2, <4>2 DEF countIdle
      <4>3. CASE agent[s].todo # {}
        <5>1. PICK q : Becomes(s, [agent[s] EXCEPT !.todo = @ \ {q}, !.sum = @ + IdleOf(q)])
          BY <2>4, <4>3 DEF countIdle
        <5> QED BY <3>2, <5>1
      <4> QED BY <4>1, <4>2, <4>3
    <3> QED BY <1>1, <3>3, GoesElsewhere
  <2>5. CASE connClosed(s)
    <3>1. PICK i : Becomes(s, [agent[s] EXCEPT !.closing = RemoveAt(@, i)])
      BY <2>5 DEF connClosed
    <3>2. PICK st : st = [agent[s] EXCEPT !.closing = RemoveAt(@, i)]
      OBVIOUS
    <3>3. st.at = agent[s].at /\ st.others = agent[s].others /\ st.todo = agent[s].todo /\ st.sum = agent[s].sum
      BY <1>1, <3>2 DEF AgentStates
    <3>4. Becomes(s, st)
      BY <3>1, <3>2
    <3> QED BY <1>1, <3>3, <3>4, BecomesIt DEF TalliesOn
  <2>6. CASE lateClosed(s)
    <3>1. Resting.at = "rests"
      BY DEF Resting
    <3> QED BY <1>1, <2>6, <3>1, GoesElsewhere DEF lateClosed
  <2> QED BY <2>1, <2>2, <2>3, <2>4, <2>5, <2>6
<1> QED BY <1>1, <1>2, <1>3, OnlyAgentTallies

\* A scrape that may take an idle connection, for itself or to be closed.
LEMMA TakesTally ==
  ASSUME IdleInv, DrainInv', NEW s \in SQLScrapes, makeRoom(s) \/ connect(s)
  PROVE  IdleInv'
<1>1. s \in Agents /\ agent[s] \in AgentStates /\ UNCHANGED closed /\ UNCHANGED giving
  BY AgentsFinite, OfAgent DEF IdleInv, makeRoom, connect
<1>2. (\E p : Takes(s, p)) \/ UNCHANGED <<pools, crossed>>
  BY DEF makeRoom, connect
<1>3. Alone(s) /\ TalliesOn(s)
  <2>1. CASE makeRoom(s)
    <3>1. agent[s].at = "rooms"
      BY <2>1 DEF makeRoom
    <3>2. /\ \A q : [agent[s] EXCEPT !.sum = @ - 1, !.closing = Append(@, q)].at = "rooms"
          /\ \A q : [agent[s] EXCEPT !.todo = @ \ {q}].at = "rooms"
          /\ [Looked(agent[s]) EXCEPT !.at = "awaits"].at = "awaits"
      BY <1>1, <3>1 DEF AgentStates, Looked
    <3>3. PICK q : \/ Becomes(s, [agent[s] EXCEPT !.sum = @ - 1, !.closing = Append(@, q)])
                   \/ Becomes(s, [agent[s] EXCEPT !.todo = @ \ {q}])
                   \/ Becomes(s, [Looked(agent[s]) EXCEPT !.at = "awaits"])
      BY <2>1 DEF makeRoom
    <3>4. CASE Becomes(s, [agent[s] EXCEPT !.sum = @ - 1, !.closing = Append(@, q)])
      BY <1>1, <3>2, <3>4, GoesElsewhere
    <3>5. CASE Becomes(s, [agent[s] EXCEPT !.todo = @ \ {q}])
      BY <1>1, <3>2, <3>5, GoesElsewhere
    <3>6. CASE Becomes(s, [Looked(agent[s]) EXCEPT !.at = "awaits"])
      BY <1>1, <3>2, <3>6, GoesElsewhere
    <3> QED BY <3>3, <3>4, <3>5, <3>6
  <2>2. CASE connect(s)
    <3>1. [agent[s] EXCEPT !.at = "uses", !.have = 1].at = "uses"
      BY <1>1 DEF AgentStates
    <3>2. CASE Becomes(s, [agent[s] EXCEPT !.at = "uses", !.have = 1])
      BY <1>1, <3>1, <3>2, GoesElsewhere
    <3>3. CASE At(s, "over")
      BY <1>1, <3>3, GoesTo
    <3> QED BY <2>2, <3>2, <3>3 DEF connect
  <2> QED BY <2>1, <2>2
<1>4. CASE \E p : Takes(s, p)
  BY <1>1, <1>3, <1>4, TakerTallies
<1>5. CASE UNCHANGED <<pools, crossed>>
  BY <1>1, <1>3, <1>5, OnlyAgentTallies
<1> QED BY <1>2, <1>4, <1>5

\* The round as it goes on to give back what it has, or rests.
LEMMA PingedTallies == ASSUME IdleInv, Pinged PROVE Alone(Pinger) /\ TalliesOn(Pinger)
<1>1. Pinger \in Agents /\ agent[Pinger] \in AgentStates
  BY AgentsFinite, OfAgent DEF IdleInv
<1>2. Resting.at = "rests" /\ [agent[Pinger] EXCEPT !.at = "gives", !.sum = 0].at = "gives"
  BY <1>1 DEF Resting, AgentStates
<1>3. CASE Becomes(Pinger, Resting)
  BY <1>1, <1>2, <1>3, GoesElsewhere
<1>4. CASE Becomes(Pinger, [agent[Pinger] EXCEPT !.at = "gives", !.sum = 0])
  BY <1>1, <1>2, <1>4, GoesElsewhere
<1> QED BY <1>3, <1>4 DEF Pinged

\* The keepalive round.
LEMMA RoundTallies ==
  ASSUME IdleInv, DrainInv',
         (\E p \in Living : beginRound(p)) \/ pingPlace \/ pingConn \/ pingOver
  PROVE  IdleInv'
<1>1. Pinger \in Agents /\ agent[Pinger] \in AgentStates
  BY AgentsFinite, OfAgent DEF IdleInv
<1>2. ASSUME NEW p \in Living, beginRound(p) PROVE IdleInv'
  <2>1. [Resting EXCEPT !.at = "takes", !.pool = p, !.sum = pools[p].idle].at = "takes"
    BY DEF Resting
  <2>2. Alone(Pinger) /\ TalliesOn(Pinger)
    BY <1>1, <1>2, <2>1, GoesElsewhere DEF beginRound
  <2> QED BY <1>1, <1>2, <2>2, OnlyAgentTallies DEF beginRound
<1>3. CASE pingPlace \/ pingOver
  <2>1. At(Pinger, "asks") \/ Pinged
    BY <1>3 DEF pingPlace, pingOver
  <2>2. Alone(Pinger) /\ TalliesOn(Pinger)
    BY <1>1, <2>1, GoesTo, PingedTallies
  <2> QED BY <1>1, <1>3, <2>2, OnlyAgentTallies DEF pingPlace, pingOver
<1>4. CASE pingConn
  <2>1. CASE Pinged /\ UNCHANGED <<pools, crossed>>
    BY <1>1, <1>4, <2>1, PingedTallies, OnlyAgentTallies DEF pingConn
  <2>2. CASE /\ Takes(Pinger, agent[Pinger].pool)
             /\ Becomes(Pinger, [agent[Pinger] EXCEPT !.at = "takes", !.have = @ + 1])
    <3>1. [agent[Pinger] EXCEPT !.at = "takes", !.have = @ + 1].at = "takes"
      BY <1>1 DEF AgentStates
    <3>2. Alone(Pinger) /\ TalliesOn(Pinger)
      BY <1>1, <2>2, <3>1, GoesElsewhere
    <3> QED BY <1>1, <1>4, <2>2, <3>2, TakerTallies DEF pingConn
  <2> QED BY <1>4, <2>1, <2>2 DEF pingConn
<1> QED BY <1>2, <1>3, <1>4

\* An agent goes on as it was, but that its target may be forgotten.
SameStage(a) ==
  /\ agent'[a].at = agent[a].at /\ agent'[a].pool = agent[a].pool
  /\ agent'[a].others = agent[a].others /\ agent'[a].todo = agent[a].todo
  /\ agent'[a].sum = agent[a].sum
AsWas(st, old) ==
  /\ st.at = old.at /\ st.pool = old.pool /\ st.others = old.others /\ st.todo = old.todo
  /\ st.sum = old.sum /\ st.have = old.have
  /\ old.forgotten => st.forgotten
  /\ st.forgotten => old.forgotten \/ DOMAIN pools' = {}
GoesOnAs(a) == AsWas(agent'[a], agent[a])

\* A target forgotten leaves its agents as they were, but that it is.
LEMMA ForgettingIs ==
  ASSUME NEW agents \in [Agents -> AgentStates], NEW S, agent' = Forgetting(agents, S),
         DOMAIN pools' = DOMAIN pools \ S, NEW a \in Agents
  PROVE  AsWas(agent'[a], agents[a])
<1>1. agents[a] \in AgentStates /\ Pinger \in Agents
  BY AgentsFinite
<1>2. CASE agent' = agents
  BY <1>2 DEF AsWas
<1>3. CASE agent' = [agents EXCEPT ![Pinger].forgotten = TRUE] /\ DOMAIN pools \ S = {}
  <2>1. agent'[a] = IF a = Pinger THEN [agents[a] EXCEPT !.forgotten = TRUE] ELSE agents[a]
    BY <1>1, <1>3
  <2>2. DOMAIN pools' = {}
    BY <1>3
  <2> QED BY <1>1, <2>1, <2>2 DEF AgentStates, AsWas
<1> QED BY <1>2, <1>3 DEF Forgetting

\* What befalls a pool leaves no pool with more idle, and none new.
LEMMA BefallsFewer ==
  ASSUME DrainInv, DrainInv', NEW p \in DOMAIN pools, closePool(p) \/ closeIdle(p) \/ expire(p)
  PROVE  PoolsNoMore /\ DOMAIN pools' \subseteq DOMAIN pools /\ \A a \in Agents : GoesOnAs(a)
<1>1. /\ pools \in [DOMAIN pools -> PoolStates] /\ closed \in Nat
      /\ agent \in [Agents -> AgentStates]
  BY DEF DrainInv, PoolsInv, SQLTyped, AgentsFit
<1>3. \A q \in DOMAIN pools : pools[q].idle \in Nat /\ pools[q].closed \in BOOLEAN
  BY <1>1, SQLAssumption DEF PoolStates
<1>4. \A a \in Agents : GoesOnAs(a)
  <2>1. CASE UNCHANGED agent
    BY <2>1 DEF GoesOnAs, AsWas
  <2>2. CASE agent' = Forgetting(agent, {p}) /\ pools' = Without({p})
    <3>1. DOMAIN pools' = DOMAIN pools \ {p}
      BY <2>2 DEF Without
    <3> QED BY <1>1, <2>2, <3>1, ForgettingIs DEF GoesOnAs
  <2> QED BY <2>1, <2>2 DEF closePool, closeIdle, expire
<1>5. DOMAIN pools' \subseteq DOMAIN pools /\ Living' \subseteq Living
  <2>1. CASE pools' = Without({p})
    BY <2>1 DEF Without, Living
  <2>2. CASE pools' = [pools EXCEPT ![p].closed = TRUE]
    BY <1>1, <2>2 DEF Living, PoolStates
  <2>3. CASE closeIdle(p)
    BY <1>1, <2>3 DEF closeIdle, Living, PoolStates
  <2>4. CASE expire(p)
    BY <1>1, <2>4 DEF expire, KeepsIdle, Living, PoolStates
  <2> QED BY <2>1, <2>2, <2>3, <2>4 DEF closePool
<1>6. ASSUME NEW q \in DOMAIN pools' PROVE pools'[q].idle <= pools[q].idle
  <2>1. q \in DOMAIN pools /\ pools[q] \in PoolStates /\ pools[q].idle \in Nat
    BY <1>1, <1>3, <1>5
  <2>2. CASE pools' = Without({p})
    BY <2>1, <2>2 DEF Without
  <2>3. CASE pools' = [pools EXCEPT ![p].closed = TRUE]
    <3>1. pools'[q].idle = pools[q].idle
      BY <1>1, <2>1, <2>3 DEF PoolStates
    <3> QED BY <2>1, <3>1
  <2>4. CASE closeIdle(p)
    <3>1. pools'[q].idle = IF q = p THEN 0 ELSE pools[q].idle
      BY <1>1, <2>1, <2>4 DEF closeIdle, PoolStates
    <3> QED BY <2>1, <3>1
  <2>5. CASE expire(p)
    <3>1. pools'[q].idle = IF q = p THEN pools[p].idle - 1 ELSE pools[q].idle
      BY <1>1, <2>1, <2>5 DEF expire, KeepsIdle, PoolStates
    <3> QED BY <2>1, <3>1
  <2> QED BY <2>2, <2>3, <2>4, <2>5 DEF closePool
<1>7. closed' > closed \/ (closed' = closed /\ Living \subseteq Living')
  <2>1. CASE closePool(p)
    BY <1>1, <2>1 DEF closePool
  <2>2. CASE closeIdle(p)
    <3>1. closed' = closed
      BY <2>2 DEF closeIdle
    <3>2. Living \subseteq Living'
      BY <1>1, <2>2 DEF closeIdle, Living, PoolStates
    <3> QED BY <3>1, <3>2
  <2>3. CASE expire(p)
    <3>1. closed' = closed
      BY <2>3 DEF expire
    <3>2. Living \subseteq Living'
      BY <1>1, <2>3 DEF expire, KeepsIdle, Living, PoolStates
    <3> QED BY <3>1, <3>2
  <2> QED BY <2>1, <2>2, <2>3
<1>8. PoolsNoMore
  BY <1>1, <1>5, <1>6, <1>7, FewerPools
<1> QED BY <1>4, <1>5, <1>8

\* So whoever tallies goes on with what it added up.
LEMMA BefallsTally ==
  ASSUME IdleInv, DrainInv', NEW p \in DOMAIN pools, closePool(p) \/ closeIdle(p) \/ expire(p)
  PROVE  IdleInv'
<1>1. UNCHANGED giving /\ (crossed => crossed')
  BY DEF closePool, closeIdle, expire
<1>2. PoolsNoMore /\ \A a \in Agents : GoesOnAs(a)
  BY BefallsFewer DEF IdleInv
<1>3. \A a \in Agents : TalliesOn(a)
  BY <1>2 DEF GoesOnAs, AsWas, TalliesOn
<1> QED BY <1>1, <1>2, <1>3, IdleFollows

\* Nor does a scrape as it leaves, with its pool or without.
LEMMA ReleaseFewer ==
  ASSUME DrainInv, DrainInv', NEW s \in SQLScrapes, release(s)
  PROVE  /\ PoolsNoMore /\ DOMAIN pools' \subseteq DOMAIN pools
         /\ \A a \in Agents : a # s => GoesOnAs(a)
         /\ agent'[s].at \in {"rests", "late"} /\ agent'[s].have = 0
<1> DEFINE p == agent[s].pool
           last == pools[p].closed /\ Using(p) = {s}
           left == IF agent[s].closing = <<>> THEN Resting ELSE [agent[s] EXCEPT !.at = "late"]
           agents == [agent EXCEPT ![s] = left]
<1>1. /\ pools \in [DOMAIN pools -> PoolStates]
      /\ agent \in [Agents -> AgentStates] /\ s \in Agents /\ s # Pinger
  BY AgentsFinite DEF DrainInv, PoolsInv, SQLTyped, AgentsFit
<1>2. /\ UNCHANGED closed
      /\ \/ last /\ pools' = Without({p}) /\ agent' = Forgetting(agents, {p})
         \/ agent' = agents /\ UNCHANGED pools
  BY DEF release, Becomes
<1>3. left \in AgentStates /\ left.at \in {"rests", "late"} /\ left.have = 0
  <2>1. Resting \in AgentStates /\ Resting.at = "rests" /\ Resting.have = 0
    BY RestingIs
  <2>2. agent[s].have = 0
    <3>1. agent[s].at = "leaves" /\ Fits(s, agent[s])
      BY <1>1, OfAgent DEF release
    <3> QED BY <1>1, <3>1 DEF Fits, Holding
  <2>3. /\ [agent[s] EXCEPT !.at = "late"] \in AgentStates /\ [agent[s] EXCEPT !.at = "late"].at = "late"
        /\ [agent[s] EXCEPT !.at = "late"].have = 0
    BY <1>1, <2>2 DEF AgentStates, ScrapePlaces
  <2> QED BY <2>1, <2>3
<1>4. agents \in [Agents -> AgentStates] /\ \A a \in Agents : agents[a] = IF a = s THEN left ELSE agent[a]
  BY <1>1, <1>3
<1> HIDE DEF left, agents
<1>5. /\ \A a \in Agents : a # s => GoesOnAs(a)
      /\ agent'[s].at \in {"rests", "late"} /\ agent'[s].have = 0
  <2>1. CASE agent' = agents
    BY <1>1, <1>3, <1>4, <2>1 DEF GoesOnAs, AsWas
  <2>2. CASE agent' = Forgetting(agents, {p}) /\ pools' = Without({p})
    <3>1. DOMAIN pools' = DOMAIN pools \ {p}
      BY <2>2 DEF Without
    <3>2. \A a \in Agents : a # s => GoesOnAs(a)
      <4> SUFFICES ASSUME NEW a \in Agents, a # s PROVE GoesOnAs(a)
        OBVIOUS
      <4>1. AsWas(agent'[a], agents[a])
        BY <1>4, <2>2, <3>1, ForgettingIs
      <4> QED BY <1>4, <4>1 DEF GoesOnAs
    <3>3. agent'[s].at = agents[s].at /\ agent'[s].have = agents[s].have
      <4>1. AsWas(agent'[s], agents[s])
        BY <1>1, <1>4, <2>2, <3>1, ForgettingIs
      <4> QED BY <4>1 DEF AsWas
    <3> QED BY <1>1, <1>3, <1>4, <3>2, <3>3
  <2> QED BY <1>2, <2>1, <2>2
<1>6. PoolsNoMore /\ DOMAIN pools' \subseteq DOMAIN pools
  <2>1. CASE UNCHANGED pools
    BY <1>1, <1>2, <2>1, SamePools
  <2>2. CASE last /\ pools' = Without({p})
    <3>1. DOMAIN pools' \subseteq DOMAIN pools /\ Living' \subseteq Living /\ Living \subseteq Living'
      BY <2>2 DEF Without, Living
    <3>2. \A q \in DOMAIN pools : pools[q].idle \in Nat
      BY <1>1, SQLAssumption DEF PoolStates
    <3>3. \A q \in DOMAIN pools' : pools'[q].idle <= pools[q].idle
      BY <2>2, <3>1, <3>2 DEF Without
    <3> QED BY <1>1, <1>2, <3>1, <3>3, FewerPools
  <2> QED BY <1>2, <2>1, <2>2
<1> QED BY <1>5, <1>6

\* So whoever tallies goes on as a scrape leaves.
LEMMA ReleaseTallies ==
  ASSUME IdleInv, DrainInv', NEW s \in SQLScrapes, release(s)
  PROVE  IdleInv'
<1>1. UNCHANGED giving /\ (crossed => crossed')
  BY DEF release
<1>2. /\ PoolsNoMore /\ \A a \in Agents : a # s => GoesOnAs(a)
      /\ agent'[s].at \in {"rests", "late"}
  BY ReleaseFewer DEF IdleInv
<1>3. \A a \in Agents : TalliesOn(a)
  BY <1>2 DEF GoesOnAs, AsWas, TalliesOn
<1> QED BY <1>1, <1>2, <1>3, IdleFollows

\* A pool that a scrape makes keeps none idle, and closes one at most.
LEMMA AcquireFewer ==
  ASSUME DrainInv, DrainInv', NEW s \in SQLScrapes, NEW d \in Databases, acquire(s, d)
  PROVE  /\ PoolsNoMore /\ \A p \in DOMAIN pools' : Known(p) => p \in DOMAIN pools
         /\ Alone(s) /\ agent'[s].at = "waits" /\ agent'[s].have = 0
<1>1. s \in Agents /\ agent \in [Agents -> AgentStates]
  BY AgentsFinite DEF DrainInv, AgentsFit
<1>2. PICK p, gone :
        /\ Becomes(s, [Resting EXCEPT !.at = "waits", !.pool = p]) /\ gone \subseteq Living
        /\ \/ p \in DOMAIN pools /\ UNCHANGED pools /\ UNCHANGED closed
           \/ NewPool(d, p, gone)
  BY <1>1, AcquireShaped
<1>3. Alone(s) /\ agent'[s].at = "waits" /\ agent'[s].have = 0
  <2>1. PICK st : st = [Resting EXCEPT !.at = "waits", !.pool = p]
    OBVIOUS
  <2>2. st.at = "waits" /\ st.have = 0
    BY <2>1 DEF Resting
  <2> QED BY <1>1, <1>2, <2>1, <2>2 DEF Becomes, Alone
<1>4. CASE UNCHANGED pools /\ UNCHANGED closed
  BY <1>3, <1>4, SamePools
<1>5. CASE NewPool(d, p, gone)
  <2>1. /\ ~Known(p) /\ StillKnown
        /\ DOMAIN pools' = (DOMAIN pools \ gone) \cup {p} /\ pools'[p] = Opened
        /\ \A q \in DOMAIN pools' : q # p => q \in DOMAIN pools /\ pools'[q] = pools[q]
    BY <1>1, <1>5, NewPoolIs
  <2>2. \A q \in Living' : Known(q) => q \in Living
    BY <2>1 DEF Living
  <2>3. ASSUME NEW q \in Living' PROVE IdleOf(q)' <= IdleOf(q)
    <3>1. IdleOf(q) \in Nat /\ Opened.idle = 0 /\ q \in DOMAIN pools'
      BY <1>1, LivingFinite DEF Opened, Living
    <3>2. CASE q = p
      BY <2>1, <3>1, <3>2 DEF IdleOf
    <3>3. CASE q # p
      <4>1. IdleOf(q)' = IdleOf(q)
        BY <2>1, <3>1, <3>3 DEF IdleOf
      <4> QED BY <3>1, <4>1
    <3> QED BY <3>2, <3>3
  <2>4. PoolsNoMore
    BY <2>1, <2>2, <2>3 DEF PoolsNoMore
  <2>5. \A q \in DOMAIN pools' : Known(q) => q \in DOMAIN pools
    BY <2>1
  <2> QED BY <1>3, <2>4, <2>5
<1> QED BY <1>2, <1>4, <1>5

\* So whoever tallies goes on as a scrape gets its pool.
LEMMA AcquireTallies ==
  ASSUME IdleInv, DrainInv', NEW s \in SQLScrapes, NEW d \in Databases, acquire(s, d)
  PROVE  IdleInv'
<1>1. s \in Agents /\ UNCHANGED giving /\ (crossed => crossed')
  BY AgentsFinite DEF acquire
<1>2. PoolsNoMore /\ Alone(s) /\ agent'[s].at = "waits"
  BY AcquireFewer DEF IdleInv
<1>3. TalliesOn(s)
  BY <1>2 DEF TalliesOn
<1> QED BY <1>1, <1>2, <1>3, OneTallies

-----------------------------------------------------------------------------
(* Who gives a connection back. *)

\* One more pool read adds no more than it keeps idle.
LEMMA IdleOneMore ==
  ASSUME DrainInv, NEW S \in SUBSET Living, NEW q, NEW T \in SUBSET Living, T \subseteq S \cup {q}
  PROVE  IdleIn(S) \in Nat /\ IdleIn(T) \in Nat /\ IdleIn(T) <= IdleIn(S) + IdleOf(q)
<1> DEFINE f == [p \in S |-> IdleOf(p)]
           g == [p \in T |-> IdleOf(p)]
           h == [p \in T |-> IF p = q THEN 0 ELSE IdleOf(p)]
<1>1. IsFiniteSet(S) /\ IsFiniteSet(T) /\ IdleOf(q) \in Nat
  BY LivingFinite, FS_Subset
<1>2. f \in [S -> Nat] /\ g \in [T -> Nat] /\ h \in [T -> Nat]
  BY LivingFinite
<1>3. \A y \in T : h[y] = 0 \/ (y \in S /\ h[y] <= f[y])
  BY LivingFinite
<1>4. /\ \A y \in T : y # q => h[y] = g[y]
      /\ q \in T => g[q] = IdleOf(q) /\ h[q] = 0
      /\ q \notin T => g = h
  OBVIOUS
<1>5. SumOf(f) = IdleIn(S) /\ SumOf(g) = IdleIn(T)
  BY DEF IdleIn
<1> HIDE DEF f, g, h
<1>6. PICK m, n \in Nat : m = SumOf(h) /\ n = SumOf(f) /\ m <= n
  BY <1>1, <1>2, <1>3, SumFewer
<1>7. PICK k \in Nat : k = SumOf(g)
  BY <1>1, <1>2, SumFinite
<1>8. CASE q \in T
  <2>1. SumOf(h) + g[q] = SumOf(g) + h[q]
    BY <1>1, <1>2, <1>4, <1>8, SumButOne
  <2>2. k = m + IdleOf(q)
    BY <1>1, <1>4, <1>6, <1>7, <1>8, <2>1
  <2> QED BY <1>1, <1>5, <1>6, <1>7, <2>2
<1>9. CASE q \notin T
  <2>1. k = m
    BY <1>4, <1>6, <1>7, <1>9
  <2> QED BY <1>1, <1>5, <1>6, <1>7, <2>1
<1> QED BY <1>8, <1>9

\* Who gets the lock has read no pool yet.
LEMMA LockTallies ==
  ASSUME IdleInv, DrainInv', NEW a \in Agents, lockGiving(a)
  PROVE  IdleInv'
<1>1. /\ DrainInv /\ GivingFits /\ (crossed \/ (IdleHeld /\ Tallied))
      /\ agent[a] \in AgentStates
  BY OfAgent DEF IdleInv
<1>2. PICK st : st = [agent[a] EXCEPT !.at = "tallies", !.sum = 0]
  OBVIOUS
<1>3. /\ agent[a].at = "queues" /\ giving = {} /\ giving' = {a}
      /\ UNCHANGED pools /\ UNCHANGED closed /\ UNCHANGED crossed /\ Becomes(a, st)
  BY <1>2 DEF lockGiving
<1>4. st.at = "tallies" /\ st.others = agent[a].others /\ st.todo = agent[a].todo /\ st.sum = 0
  BY <1>1, <1>2 DEF AgentStates
<1>5. agent'[a] = st /\ Alone(a)
  BY <1>3, BecomesIt
<1>6. \A b \in Agents : agent[b].at # "tallies"
  BY <1>1, <1>3 DEF GivingFits
<1>7. agent[a].todo = agent[a].others
  BY <1>1, <1>3 DEF GivingFits
<1>8. Living' = Living /\ \A p : IdleOf(p)' = IdleOf(p)
  BY <1>3 DEF Living, IdleOf
<1>9. GivingFits'
  <2> SUFFICES ASSUME NEW b \in Agents
               PROVE  /\ agent'[b].at = "tallies" => giving' = {b}
                      /\ agent'[b].at = "queues" => agent'[b].todo = agent'[b].others
                      /\ agent'[b].at \in {"queues", "tallies"} => \A q \in agent'[b].others : Known(q)'
    BY DEF GivingFits
  <2>1. \A p : Known(p)' = Known(p)
    BY <1>3, SameKnown
  <2>2. \A q \in agent[a].others : Known(q)
    BY <1>1, <1>3 DEF GivingFits
  <2>3. CASE b = a
    BY <1>3, <1>4, <1>5, <2>1, <2>2, <2>3
  <2>4. CASE b # a
    <3>1. agent'[b] = agent[b]
      BY <1>5, <2>4 DEF Alone
    <3> QED BY <1>1, <1>6, <2>1, <3>1 DEF GivingFits
  <2> QED BY <2>3, <2>4
<1>10. Tallied'
  <2> SUFFICES ASSUME NEW b \in Agents, agent'[b].at = "tallies" PROVE TallySays(agent[b])'
    BY DEF Tallied
  <2>1. b = a
    BY <1>5, <1>6 DEF Alone
  <2>2. (Living' \cap st.others) \ st.todo = {}
    BY <1>4, <1>7
  <2>3. SumOf([p \in (Living' \cap st.others) \ st.todo |-> IdleOf(p)']) = 0
    BY <2>2, SumOfNone
  <2>4. SumOf([p \in (Living' \cap st.others) \ st.todo |-> IdleOf(p)']) <= st.sum
    BY <1>4, <2>3
  <2> QED BY <1>5, <2>1, <2>4 DEF TallySays, IdleIn
<1>11. IdleHeld => IdleHeld'
  BY <1>8 DEF IdleHeld, IdleOpen
<1> QED BY <1>1, <1>3, <1>9, <1>10, <1>11 DEF IdleInv

\* What a pool keeps idle is added up as the pool is read.
LEMMA TallyTallies ==
  ASSUME IdleInv, DrainInv', NEW a \in Agents, tallyIdle(a)
  PROVE  IdleInv'
<1>1. /\ DrainInv /\ GivingFits /\ (crossed \/ (IdleHeld /\ Tallied))
      /\ agent[a] \in AgentStates
  BY OfAgent DEF IdleInv
<1>2. PICK q \in agent[a].todo :
        Becomes(a, [agent[a] EXCEPT !.todo = @ \ {q}, !.sum = @ + IdleOf(q)])
  BY DEF tallyIdle
<1>3. PICK st : st = [agent[a] EXCEPT !.todo = @ \ {q}, !.sum = @ + IdleOf(q)]
  OBVIOUS
<1>4. /\ agent[a].at = "tallies" /\ UNCHANGED giving
      /\ UNCHANGED pools /\ UNCHANGED closed /\ UNCHANGED crossed /\ Becomes(a, st)
  BY <1>2, <1>3 DEF tallyIdle
<1>5. /\ st.at = "tallies" /\ st.others = agent[a].others /\ st.todo = agent[a].todo \ {q}
      /\ st.sum = agent[a].sum + IdleOf(q)
  BY <1>1, <1>3, <1>4 DEF AgentStates
<1>6. agent'[a] = st /\ Alone(a)
  BY <1>4, BecomesIt
<1>7. giving = {a} /\ \A b \in Agents : agent[b].at = "tallies" => b = a
  BY <1>1, <1>4 DEF GivingFits
<1>8. Living' = Living /\ \A p : IdleOf(p)' = IdleOf(p)
  BY <1>4 DEF Living, IdleOf
<1>9. GivingFits'
  <2> SUFFICES ASSUME NEW b \in Agents
               PROVE  /\ agent'[b].at = "tallies" => giving' = {b}
                      /\ agent'[b].at = "queues" => agent'[b].todo = agent'[b].others
                      /\ agent'[b].at \in {"queues", "tallies"} => \A p \in agent'[b].others : Known(p)'
    BY DEF GivingFits
  <2>1. \A p : Known(p)' = Known(p)
    BY <1>4, SameKnown
  <2>2. \A p \in agent[a].others : Known(p)
    BY <1>1, <1>4 DEF GivingFits
  <2>3. CASE b = a
    BY <1>4, <1>5, <1>6, <1>7, <2>1, <2>2, <2>3
  <2>4. CASE b # a
    <3>1. agent'[b] = agent[b]
      BY <1>6, <2>4 DEF Alone
    <3> QED BY <1>1, <1>4, <2>1, <3>1 DEF GivingFits
  <2> QED BY <2>3, <2>4
<1>10. ASSUME Tallied PROVE Tallied'
  <2> SUFFICES ASSUME NEW b \in Agents, agent'[b].at = "tallies" PROVE TallySays(agent[b])'
    BY DEF Tallied
  <2>1. b = a
    BY <1>6, <1>7 DEF Alone
  <2>2. TallySays(agent[a])
    BY <1>4, <1>10 DEF Tallied
  <2>3. CASE \A p, r \in Living \cap agent[a].others : p = r
    <3>1. \A p, r \in Living' \cap st.others : p = r
      BY <1>5, <1>8, <2>3
    <3> QED BY <1>6, <2>1, <3>1 DEF TallySays
  <2>4. CASE IdleIn((Living \cap agent[a].others) \ agent[a].todo) <= agent[a].sum
    <3> DEFINE S == (Living \cap agent[a].others) \ agent[a].todo
               T == (Living \cap st.others) \ st.todo
    <3>1. S \in SUBSET Living /\ T \in SUBSET Living /\ T \subseteq S \cup {q}
      BY <1>5
    <3>2. IdleIn(S) <= agent[a].sum
      BY <2>4
    <3>3. IdleIn(T) = SumOf([p \in (Living' \cap st.others) \ st.todo |-> IdleOf(p)'])
      BY <1>8 DEF IdleIn
    <3> HIDE DEF S, T
    <3>4. IdleIn(S) \in Nat /\ IdleIn(T) \in Nat /\ IdleIn(T) <= IdleIn(S) + IdleOf(q)
      BY <1>1, <3>1, IdleOneMore
    <3>5. agent[a].sum \in Int /\ IdleOf(q) \in Nat
      BY <1>1, LivingFinite DEF AgentStates
    <3>6. IdleIn(T) <= st.sum
      BY <1>5, <3>2, <3>4, <3>5
    <3> QED BY <1>6, <2>1, <3>3, <3>6 DEF TallySays, IdleIn
  <2> QED BY <2>2, <2>3, <2>4 DEF TallySays
<1>11. IdleHeld => IdleHeld'
  BY <1>8 DEF IdleHeld, IdleOpen
<1> QED BY <1>1, <1>4, <1>9, <1>10, <1>11 DEF IdleInv

\* A connection that goes back is one more that one pool keeps idle, at most.
LEMMA ReturnedIs ==
  ASSUME DrainInv, DrainInv', NEW a \in Agents, Returned(a), UNCHANGED closed,
         NEW p, p = agent[a].pool
  PROVE  /\ Living' = Living /\ \A q : Known(q)' = Known(q)
         /\ \A q : IdleOf(q)' \in 0..MaxIdlePer
         /\ IdleOf(p)' <= IdleOf(p) + 1 /\ \A q : q # p => IdleOf(q)' = IdleOf(q)
         /\ DOMAIN pools' = DOMAIN pools /\ (p \notin DOMAIN pools => UNCHANGED pools)
<1>1. pools \in [DOMAIN pools -> PoolStates]
  BY DEF DrainInv, PoolsInv, SQLTyped
<1>2. \A q : IdleOf(q) \in Nat /\ IdleOf(q)' \in Nat
  BY LivingFinite
<1>3. \A q : IdleOf(q)' \in 0..MaxIdlePer
  <2>1. \A q \in DOMAIN pools' : pools'[q].idle \in 0..MaxIdlePer
    BY DEF DrainInv, PoolsDrain, PoolsAsUsed
  <2>2. 0 \in 0..MaxIdlePer
    BY SQLAssumption
  <2> QED BY <2>1, <2>2 DEF IdleOf
<1>4. CASE UNCHANGED pools
  <2>1. Living' = Living /\ \A q : IdleOf(q)' = IdleOf(q) /\ IdleOf(q) <= IdleOf(q) + 1
    BY <1>2, <1>4 DEF Living, IdleOf
  <2>2. \A q : Known(q)' = Known(q)
    BY <1>4, SameKnown
  <2> QED BY <1>3, <1>4, <2>1, <2>2
<1>5. CASE ~UNCHANGED pools
  <2>1. p \in DOMAIN pools /\ pools' = [pools EXCEPT ![p].idle = pools[p].idle + 1]
    BY <1>5 DEF Returned, KeepsIdle
  <2>2. /\ DOMAIN pools' = DOMAIN pools
        /\ \A q \in DOMAIN pools : pools'[q].closed = pools[q].closed
        /\ \A q \in DOMAIN pools : pools'[q].idle = IF q = p THEN pools[p].idle + 1 ELSE pools[q].idle
    BY <1>1, <2>1 DEF PoolStates
  <2>3. Living' = Living
    BY <2>2 DEF Living
  <2>4. \A q : Known(q)' = Known(q)
    BY <2>3 DEF Known
  <2>5. \A q : q # p => IdleOf(q)' = IdleOf(q)
    BY <2>2 DEF IdleOf
  <2>6. IdleOf(p)' = IdleOf(p) + 1
    BY <2>1, <2>2 DEF IdleOf
  <2>7. IdleOf(p)' <= IdleOf(p) + 1
    BY <1>2, <2>6
  <2> QED BY <1>3, <2>1, <2>2, <2>3, <2>4, <2>5, <2>7
<1> QED BY <1>4, <1>5

\* Who has given a connection back no longer tallies.
LEMMA ReturnedGoes ==
  ASSUME IdleInv, NEW a \in Agents, Returned(a)
  PROVE  Alone(a) /\ agent'[a].at = "over"
<1>1. agent[a] \in AgentStates
  BY OfAgent DEF IdleInv
<1>2. PICK st : st = [Looked(agent[a]) EXCEPT !.at = "over", !.have = @ - 1]
  OBVIOUS
<1>3. st.at = "over"
  BY <1>1, <1>2 DEF Looked, AgentStates
<1>4. Becomes(a, st)
  BY <1>2 DEF Returned
<1> QED BY <1>3, <1>4, BecomesIt

\* What some pools keep idle as it changes for one of them, or for none.
LEMMA OneIdleMoves ==
  ASSUME DrainInv, DrainInv', Living' = Living,
         NEW p, \A q : q # p => IdleOf(q)' = IdleOf(q), NEW T
  PROVE  /\ IdleIn(Living \ T) \in Nat /\ IdleIn(Living \ T)' \in Nat
         /\ p \in Living \ T => IdleIn(Living \ T)' + IdleOf(p) = IdleIn(Living \ T) + IdleOf(p)'
         /\ p \notin Living \ T => IdleIn(Living \ T)' = IdleIn(Living \ T)
<1> DEFINE S == Living \ T
           f == [q \in S |-> IdleOf(q)]
           g == [q \in S |-> IdleOf(q)']
<1>1. IsFiniteSet(S)
  BY LivingFinite, FS_Subset
<1>2. f \in [S -> Nat] /\ g \in [S -> Nat]
  BY LivingFinite
<1>3. \A q \in S : q # p => g[q] = f[q]
  OBVIOUS
<1>4. p \in S => f[p] = IdleOf(p) /\ g[p] = IdleOf(p)'
  OBVIOUS
<1>5. Living' \ T = S
  OBVIOUS
<1>6. IdleIn(Living \ T) = SumOf(f)
  BY DEF IdleIn
<1>7. IdleIn(Living \ T)' = SumOf(g)
  BY <1>5 DEF IdleIn
<1> HIDE DEF f, g, S
<1>8. SumOf(f) \in Nat /\ SumOf(g) \in Nat
  BY <1>1, <1>2, SumFinite
<1>9. p \in S => SumOf(g) + f[p] = SumOf(f) + g[p]
  BY <1>1, <1>2, <1>3, SumButOne
<1>10. p \notin S => g = f
  BY <1>2, <1>3
<1> QED BY <1>4, <1>6, <1>7, <1>8, <1>9, <1>10 DEF S

\* One of them keeps one more, at most.
LEMMA OneMoreIdle ==
  ASSUME DrainInv, DrainInv', Living' = Living,
         NEW p, IdleOf(p)' <= IdleOf(p) + 1, \A q : q # p => IdleOf(q)' = IdleOf(q)
  PROVE  IdleOpen \in Nat /\ IdleOpen' \in Nat /\ IdleOpen' <= IdleOpen + 1
<1>1. Living \ {} = Living
  OBVIOUS
<1>2. PICK m, n \in Nat :
        /\ m = IdleIn(Living) /\ n = IdleIn(Living)'
        /\ p \in Living => n + IdleOf(p) = m + IdleOf(p)'
        /\ p \notin Living => n = m
  <2>1. /\ IdleIn(Living \ {}) \in Nat /\ IdleIn(Living \ {})' \in Nat
        /\ p \in Living => IdleIn(Living \ {})' + IdleOf(p) = IdleIn(Living \ {}) + IdleOf(p)'
        /\ p \notin Living => IdleIn(Living \ {})' = IdleIn(Living \ {})
    BY <1>1, OneIdleMoves
  <2> QED BY <1>1, <2>1
<1>3. IdleOf(p) \in Nat /\ IdleOf(p)' \in Nat
  BY LivingFinite
<1>4. n <= m + 1
  BY <1>2, <1>3
<1> QED BY <1>2, <1>4 DEF IdleOpen, IdleIn

\* What an only pool keeps is within the limit, which is a pool's too.
LEMMA OnlyPoolHeld ==
  ASSUME DrainInv', \A p, q \in Living' : p = q, \A p : IdleOf(p)' \in 0..MaxIdlePer
  PROVE  IdleHeld'
<1> DEFINE g == [q \in Living' |-> IdleOf(q)']
<1>1. IsFiniteSet(Living') /\ MaxIdlePer \in Nat
  BY LivingFinite, SQLAssumption
<1>2. g \in [Living' -> Nat]
  BY LivingFinite
<1>3. \A q \in Living' : g[q] <= MaxIdlePer
  OBVIOUS
<1>4. IdleOpen' = SumOf(g)
  BY DEF IdleOpen
<1> HIDE DEF g
<1>5. SumOf(g) <= MaxIdlePer
  BY <1>1, <1>2, <1>3, SumOfOne
<1> QED BY <1>4, <1>5 DEF IdleHeld

\* The others, as one agent gives up the lock or goes on without.
LEMMA GivingStays ==
  ASSUME GivingFits, \A p : Known(p) => Known(p)', NEW a \in Agents, Alone(a),
         agent'[a].at \notin {"queues", "tallies"}, UNCHANGED giving \/ giving = {a}
  PROVE  GivingFits'
<1> SUFFICES ASSUME NEW b \in Agents
             PROVE  /\ agent'[b].at = "tallies" => giving' = {b}
                    /\ agent'[b].at = "queues" => agent'[b].todo = agent'[b].others
                    /\ agent'[b].at \in {"queues", "tallies"} => \A q \in agent'[b].others : Known(q)'
  BY DEF GivingFits
<1>1. CASE b = a
  BY <1>1
<1>2. CASE b # a
  <2>1. agent'[b] = agent[b]
    BY <1>2 DEF Alone
  <2>2. agent[b].at = "tallies" => giving' = {b}
    BY <1>2 DEF GivingFits
  <2> QED BY <2>1, <2>2 DEF GivingFits
<1> QED BY <1>1, <1>2

\* Who has tallied gives back within the limit, or discards.
LEMMA KeepTallies ==
  ASSUME IdleInv, DrainInv', NEW a \in Agents, keepIdle(a)
  PROVE  IdleInv'
<1>1. /\ DrainInv /\ GivingFits /\ (crossed \/ (IdleHeld /\ Tallied))
      /\ agent[a] \in AgentStates
  BY OfAgent DEF IdleInv
<1>2. /\ agent[a].at = "tallies" /\ agent[a].todo = {} /\ giving' = {} /\ UNCHANGED closed
      /\ crossed' = (crossed \/ Living \ agent[a].others # {})
  BY DEF keepIdle
<1>3. giving = {a} /\ \A b \in Agents : agent[b].at = "tallies" => b = a
  BY <1>1, <1>2 DEF GivingFits
<1>4. CASE agent[a].sum < MaxIdlePer /\ Returned(a)
  <2>1. Alone(a) /\ agent'[a].at = "over"
    BY <1>4, ReturnedGoes
  <2>3. PICK p : p = agent[a].pool
    OBVIOUS
  <2>2. /\ Living' = Living /\ \A q : Known(q)' = Known(q)
        /\ \A q : IdleOf(q)' \in 0..MaxIdlePer
        /\ IdleOf(p)' <= IdleOf(p) + 1 /\ \A q : q # p => IdleOf(q)' = IdleOf(q)
    BY <1>1, <1>2, <1>4, <2>3, ReturnedIs
  <2>4. GivingFits'
    BY <1>1, <1>3, <2>1, <2>2, GivingStays
  <2>5. Tallied'
    BY <1>3, <2>1 DEF Tallied, Alone
  <2>6. ASSUME ~crossed' PROVE IdleHeld'
    <3>1. Living \subseteq agent[a].others /\ Tallied
      BY <1>1, <1>2, <2>6
    <3>2. TallySays(agent[a]) /\ (Living \cap agent[a].others) \ agent[a].todo = Living
      BY <1>2, <3>1 DEF Tallied
    <3>3. CASE \A q, r \in Living \cap agent[a].others : q = r
      <4>1. \A q, r \in Living' : q = r
        BY <2>2, <3>1, <3>3
      <4> QED BY <2>2, <4>1, OnlyPoolHeld
    <3>4. CASE IdleIn((Living \cap agent[a].others) \ agent[a].todo) <= agent[a].sum
      <4>1. IdleIn(Living) <= agent[a].sum
        BY <3>2, <3>4
      <4>2. IdleOpen <= agent[a].sum
        BY <4>1 DEF IdleOpen, IdleIn
      <4>3. IdleOpen \in Nat /\ IdleOpen' \in Nat /\ IdleOpen' <= IdleOpen + 1
        BY <1>1, <2>2, OneMoreIdle
      <4>4. agent[a].sum \in Int /\ MaxIdlePer \in Nat
        BY <1>1, SQLAssumption DEF AgentStates
      <4> QED BY <1>4, <4>2, <4>3, <4>4 DEF IdleHeld
    <3> QED BY <3>2, <3>3, <3>4 DEF TallySays
  <2> QED BY <2>4, <2>5, <2>6 DEF IdleInv
<1>5. CASE Becomes(a, [Looked(agent[a]) EXCEPT !.at = "discards"]) /\ UNCHANGED pools
  <2>1. [Looked(agent[a]) EXCEPT !.at = "discards"].at = "discards"
    BY <1>1 DEF Looked, AgentStates
  <2>2. Alone(a) /\ agent'[a].at = "discards"
    BY <1>5, <2>1, BecomesIt
  <2>3. \A p : Known(p)' = Known(p)
    BY <1>2, <1>5, SameKnown
  <2>4. GivingFits'
    BY <1>1, <1>3, <2>2, <2>3, GivingStays
  <2>5. Tallied'
    BY <1>3, <2>2 DEF Tallied, Alone
  <2>6. IdleHeld => IdleHeld'
    BY <1>5 DEF IdleHeld, IdleOpen, Living, IdleOf
  <2> QED BY <1>1, <1>2, <2>4, <2>5, <2>6 DEF IdleInv
<1> QED BY <1>4, <1>5 DEF keepIdle

\* Who found one pool gives back to that, which keeps no more than it may.
LEMMA ReturnTallies ==
  ASSUME IdleInv, DrainInv', NEW a \in Agents, returnConn(a)
  PROVE  IdleInv'
<1>1. DrainInv /\ GivingFits /\ (crossed \/ (IdleHeld /\ Tallied))
  BY DEF IdleInv
<1>2. /\ Returned(a) /\ UNCHANGED giving /\ UNCHANGED closed
      /\ crossed' = (crossed \/ Cardinality(Living) > 1)
  BY DEF returnConn
<1>3. Alone(a) /\ agent'[a].at = "over"
  BY <1>2, ReturnedGoes
<1>4. /\ Living' = Living /\ \A p : Known(p)' = Known(p)
      /\ \A p : IdleOf(p)' \in 0..MaxIdlePer
  <2>1. PICK p : p = agent[a].pool
    OBVIOUS
  <2> QED BY <1>1, <1>2, <2>1, ReturnedIs
<1>5. GivingFits'
  BY <1>1, <1>2, <1>3, <1>4, GivingStays
<1>6. ASSUME ~crossed' PROVE IdleHeld' /\ Tallied'
  <2>1. IsFiniteSet(Living) /\ ~(Cardinality(Living) > 1)
    BY <1>1, <1>2, <1>6, LivingFinite
  <2>2. \A p, q \in Living' : p = q
    BY <1>4, <2>1, AtMostOne
  <2>3. IdleHeld'
    BY <1>4, <2>2, OnlyPoolHeld
  <2>4. Tallied'
    BY <2>2 DEF Tallied, TallySays
  <2> QED BY <2>3, <2>4
<1> QED BY <1>5, <1>6 DEF IdleInv

\* Every step of giving a connection back.
LEMMA GivesTally ==
  ASSUME IdleInv, DrainInv', NEW a \in Agents, Gives(a)
  PROVE  IdleInv'
<1>1. agent[a] \in AgentStates
  BY OfAgent DEF IdleInv
<1>2. CASE giveBack(a)
  <2>1. CASE At(a, "discards") \/ At(a, "returns")
    BY <1>2, <2>1, GoesTo, OnlyAgentTallies DEF giveBack
  <2>2. CASE Becomes(a, [agent[a] EXCEPT !.at = "queues", !.others = Living, !.todo = Living])
    <3>1. PICK st : st = [agent[a] EXCEPT !.at = "queues", !.others = Living, !.todo = Living]
      OBVIOUS
    <3>2. st.at = "queues" /\ st.others = Living /\ st.todo = Living
      BY <1>1, <3>1 DEF AgentStates
    <3>3. Alone(a) /\ agent'[a] = st
      BY <2>2, <3>1, BecomesIt
    <3>4. TalliesOn(a)
      BY <3>2, <3>3 DEF TalliesOn
    <3> QED BY <1>2, <3>3, <3>4, OnlyAgentTallies DEF giveBack
  <2> QED BY <1>2, <2>1, <2>2 DEF giveBack
<1>3. CASE discardConn(a)
  <2>1. [agent[a] EXCEPT !.at = "over", !.have = @ - 1].at = "over"
    BY <1>1 DEF AgentStates
  <2>2. Alone(a) /\ TalliesOn(a)
    BY <1>3, <2>1, GoesElsewhere DEF discardConn
  <2> QED BY <1>3, <2>2, OnlyAgentTallies DEF discardConn
<1> QED BY <1>2, <1>3, LockTallies, TallyTallies, KeepTallies, ReturnTallies DEF Gives

\* So it is at first, with no pool.
LEMMA InitialIdle == SQLInit => IdleInv
<1> SUFFICES ASSUME SQLInit PROVE IdleInv
  OBVIOUS
<1>1. DrainInv
  BY InitialDrain
<1>2. Living = {} /\ \A a \in Agents : agent[a].at = "rests"
  BY DEF SQLInit, Living, Resting
<1>3. IdleOpen = 0
  <2>1. SumOf([p \in Living |-> IdleOf(p)]) = 0
    BY <1>2, SumOfNone
  <2> QED BY <2>1 DEF IdleOpen
<1> QED BY <1>1, <1>2, <1>3, SQLAssumption DEF IdleInv, GivingFits, Tallied, IdleHeld

\* And after every step.
LEMMA IdleStep == IdleInv /\ [SQLNext]_sqlvars => IdleInv'
<1> SUFFICES ASSUME IdleInv, [SQLNext]_sqlvars PROVE IdleInv'
  OBVIOUS
<1>1. DrainInv'
  BY DrainStep DEF IdleInv
<1>2. ASSUME NEW s \in SQLScrapes, Scrapes(s) PROVE IdleInv'
  BY <1>1, <1>2, ScrapeTallies, TakesTally, ReleaseTallies DEF Scrapes
<1>3. ASSUME NEW s \in SQLScrapes, NEW d \in Databases, acquire(s, d) PROVE IdleInv'
  BY <1>1, <1>3, AcquireTallies
<1>4. ASSUME NEW a \in Agents, Gives(a) PROVE IdleInv'
  BY <1>1, <1>4, GivesTally
<1>5. ASSUME (\E p \in Living : beginRound(p)) \/ pingPlace \/ pingConn \/ pingOver PROVE IdleInv'
  BY <1>1, <1>5, RoundTallies
<1>6. ASSUME NEW p \in DOMAIN pools, closePool(p) \/ closeIdle(p) \/ expire(p) PROVE IdleInv'
  BY <1>1, <1>6, BefallsTally
<1>7. ASSUME UNCHANGED sqlvars PROVE IdleInv'
  <2>1. UNCHANGED pools /\ UNCHANGED agent /\ UNCHANGED closed /\ UNCHANGED giving /\ UNCHANGED crossed
    BY <1>7 DEF sqlvars
  <2>2. PoolsNoMore
    BY <2>1, SamePools DEF IdleInv
  <2>3. \A a \in Agents : TalliesOn(a)
    BY <2>1 DEF TalliesOn
  <2> QED BY <1>1, <2>1, <2>2, <2>3, IdleFollows
<1> QED BY <1>2, <1>3, <1>4, <1>5, <1>6, <1>7 DEF SQLNext

\* The pools of a target keep no more idle connections than
\* max_idle_per_target, unless a count was out of date when it was acted on
\* (sqlPoolCache.giveBack), for any databases, scrapes and limits.
THEOREM IdleAlwaysHeld == SQLSpec => [](crossed \/ IdleHeld)
<1>1. IdleInv => crossed \/ IdleHeld
  BY DEF IdleInv
<1> QED BY <1>1, InitialIdle, IdleStep, PTL DEF SQLSpec

-----------------------------------------------------------------------------
(* What is open. *)

\* What the pools but for some keep idle, with the connections in use.
LoadBut(T) == Used + IdleIn(Living \ T)

\* A scrape that has its place and not yet its connection.
Stages  == {"looks", "counts", "rooms", "awaits", "connects"}
Pending == {s \in SQLScrapes : agent[s].at \in {"placed"} \cup Stages}

\* The pools made since a scrape read which others there are, and those in
\* which there has been a connection.
Unseen(st) == Living \ (st.others \cup {st.pool})
Touched(q) == IdleOf(q) > 0 \/ \E a \in Agents : agent[a].pool = q /\ agent[a].have > 0

\* There are places for what is open, but for the idle connections of some
\* pools, with one for each of those a scrape covers.
Room(C, T, n) == LoadBut(T) + Cardinality(C) <= MaxPerTarget + n

\* A scrape covers those that had a place and no connection when it read the
\* places: itself among them, if it covers any.
Looking(s, C, st) ==
  IF s \in C THEN Room(C, {}, 0) ELSE \A q \in Unseen(st) : ~Touched(q)
CountingRoom(C, st) ==
  \/ Room(C, {st.pool}, 0)
  \/ Room(C, {st.pool} \cup st.others, 0) /\ Room(C, {st.pool} \cup st.todo, st.sum)
MakingRoom(C, st) ==
  \/ Room(C, {st.pool}, 0)
  \/ Room(C, {st.pool} \cup st.todo, 0) /\ Room(C, {st.pool}, st.sum)
Held(s, C, st) ==
  /\ st.at = "looks"  => Looking(s, C, st)
  /\ st.at = "counts" => s \in C /\ CountingRoom(C, st)
  /\ st.at = "rooms"  => s \in C /\ MakingRoom(C, st)
  /\ st.at \in {"awaits", "connects"} => s \in C /\ Room(C, {st.pool}, 0)

\* Of two scrapes the later covers what the earlier does; and one that looks,
\* and has not seen a pool, is covered by whoever is to open a connection of it.
Ordered(cov) ==
  \A s, x \in SQLScrapes :
    s \in cov[s] /\ x \in cov[x] => cov[s] \subseteq cov[x] \/ cov[x] \subseteq cov[s]
Told(cov) ==
  \A x, y \in SQLScrapes :
    agent[x].at = "looks" /\ x \notin cov[x] /\ y \in cov[y] /\ agent[y].pool \in Unseen(agent[x])
      => x \in cov[y]
Covers(cov) ==
  /\ cov \in [SQLScrapes -> SUBSET Pending]
  /\ \A s \in SQLScrapes : Held(s, cov[s], agent[s])
  /\ Ordered(cov) /\ Told(cov)

\* Scrapes that look know of pools that were, their own apart; and of two
\* whose pools the other has not seen the later has not seen fewer; a round that
\* a forgotten target leaves behind is of a pool that is gone.
LookFits(st) ==
  /\ st.at = "looks" => st.todo = st.others /\ \A q \in st.others : Known(q)
  /\ st.at \in {"looks", "counts", "rooms"} => st.pool \notin st.others \cup st.todo
SeenFirst(u, v) ==
  u.at = "looks" /\ v.at = "looks" /\ v.pool \in Unseen(u) => Unseen(v) \subseteq Unseen(u)
LooksFit ==
  /\ \A s \in SQLScrapes : LookFits(agent[s])
  /\ \A x, y \in SQLScrapes : SeenFirst(agent[x], agent[y])
GoneForgotten == agent[Pinger].forgotten => agent[Pinger].pool \notin DOMAIN pools

OpenInv ==
  /\ DrainInv /\ LooksFit /\ GoneForgotten
  /\ crossed \/ (OpenHeld /\ \E cov : Covers(cov))

-----------------------------------------------------------------------------
(* Sums. *)

UsedIn(st) == IF st.forgotten THEN 0 ELSE st.have

\* What is in use is a number, that of each agent and of all.
LEMMA UsedNat ==
  /\ DrainInv  => Used \in Nat /\ \A a \in Agents : UsedIn(agent[a]) \in Nat
  /\ DrainInv' => Used' \in Nat /\ \A a \in Agents : UsedIn(agent'[a]) \in Nat
<1>1. ASSUME DrainInv PROVE Used \in Nat /\ \A a \in Agents : UsedIn(agent[a]) \in Nat
  <2>1. \A a \in Agents : agent[a] \in AgentStates
    BY <1>1, OfAgent
  <2>2. \A a \in Agents : UsedIn(agent[a]) \in Nat
    BY <2>1 DEF AgentStates, UsedIn
  <2> DEFINE f == [a \in Agents |-> IF agent[a].forgotten THEN 0 ELSE agent[a].have]
  <2>3. f \in [Agents -> Nat]
    BY <2>2 DEF UsedIn
  <2> HIDE DEF f
  <2>4. SumOf(f) \in Nat
    BY <2>3, AgentsFinite, SumFinite
  <2> QED BY <2>2, <2>4 DEF f, Used
<1>2. ASSUME DrainInv' PROVE Used' \in Nat /\ \A a \in Agents : UsedIn(agent'[a]) \in Nat
  <2>1. \A a \in Agents : agent'[a] \in AgentStates
    BY <1>2 DEF DrainInv, AgentsFit
  <2>2. \A a \in Agents : UsedIn(agent'[a]) \in Nat
    BY <2>1 DEF AgentStates, UsedIn
  <2> DEFINE f == [a \in Agents |-> IF agent'[a].forgotten THEN 0 ELSE agent'[a].have]
  <2>3. f \in [Agents -> Nat]
    BY <2>2 DEF UsedIn
  <2> HIDE DEF f
  <2>4. SumOf(f) \in Nat
    BY <2>3, AgentsFinite, SumFinite
  <2> QED BY <2>2, <2>4 DEF f, Used
<1> QED BY <1>1, <1>2

\* What is in use as agents change: one of them, or none having more.
LEMMA UsedMoves ==
  ASSUME DrainInv, DrainInv', NEW a \in Agents, Alone(a)
  PROVE  Used' + UsedIn(agent[a]) = Used + UsedIn(agent'[a])
<1> DEFINE f == [b \in Agents |-> IF agent[b].forgotten THEN 0 ELSE agent[b].have]
           g == [b \in Agents |-> IF agent'[b].forgotten THEN 0 ELSE agent'[b].have]
<1>1. f \in [Agents -> Nat] /\ g \in [Agents -> Nat]
  BY UsedNat DEF UsedIn
<1>2. \A b \in Agents : b # a => g[b] = f[b]
  BY DEF Alone
<1>3. f[a] = UsedIn(agent[a]) /\ g[a] = UsedIn(agent'[a])
  BY DEF UsedIn
<1>4. Used = SumOf(f) /\ Used' = SumOf(g)
  BY DEF Used
<1> HIDE DEF f, g
<1>5. SumOf(g) + f[a] = SumOf(f) + g[a]
  BY <1>1, <1>2, AgentsFinite, SumButOne
<1> QED BY <1>3, <1>4, <1>5

\* No more is in use in all when none has more.
LEMMA UsedNoMore ==
  ASSUME DrainInv, DrainInv', \A a \in Agents : UsedIn(agent'[a]) <= UsedIn(agent[a])
  PROVE  Used' <= Used
<1> DEFINE f == [b \in Agents |-> IF agent[b].forgotten THEN 0 ELSE agent[b].have]
           g == [b \in Agents |-> IF agent'[b].forgotten THEN 0 ELSE agent'[b].have]
<1>1. f \in [Agents -> Nat] /\ g \in [Agents -> Nat]
  BY UsedNat DEF UsedIn
<1>2. \A b \in Agents : g[b] <= f[b]
  BY DEF UsedIn
<1>4. Used = SumOf(f) /\ Used' = SumOf(g)
  BY DEF Used
<1> HIDE DEF f, g
<1>5. SumOf(g) <= SumOf(f)
  BY <1>1, <1>2, AgentsFinite, SumNoMore
<1> QED BY <1>4, <1>5

\* What is open but for some pools is a number.
LEMMA LoadNat ==
  /\ DrainInv  => \A T : IdleIn(Living \ T) \in Nat /\ LoadBut(T) \in Nat
  /\ DrainInv' => \A T : IdleIn(Living \ T)' \in Nat /\ LoadBut(T)' \in Nat
<1>1. ASSUME DrainInv, NEW T PROVE IdleIn(Living \ T) \in Nat /\ LoadBut(T) \in Nat
  <2> DEFINE f == [p \in Living \ T |-> IdleOf(p)]
  <2>1. IsFiniteSet(Living \ T) /\ f \in [Living \ T -> Nat]
    BY <1>1, LivingFinite, FS_Subset
  <2>2. IdleIn(Living \ T) = SumOf(f)
    BY DEF IdleIn
  <2> HIDE DEF f
  <2>3. SumOf(f) \in Nat /\ Used \in Nat
    BY <1>1, <2>1, SumFinite, UsedNat
  <2> QED BY <2>2, <2>3 DEF LoadBut
<1>2. ASSUME DrainInv', NEW T PROVE IdleIn(Living \ T)' \in Nat /\ LoadBut(T)' \in Nat
  <2> DEFINE f == [p \in Living' \ T |-> IdleOf(p)']
  <2>1. IsFiniteSet(Living' \ T) /\ f \in [Living' \ T -> Nat]
    BY <1>2, LivingFinite, FS_Subset
  <2>2. IdleIn(Living \ T)' = SumOf(f)
    BY DEF IdleIn
  <2> HIDE DEF f
  <2>3. SumOf(f) \in Nat /\ Used' \in Nat
    BY <1>2, <2>1, SumFinite, UsedNat
  <2> QED BY <2>2, <2>3 DEF LoadBut
<1> QED BY <1>1, <1>2

\* Of the same pools, or fewer, or more that keep none idle.
LEMMA LoadLess ==
  ASSUME DrainInv, NEW T, NEW V, \A q \in Living \ T : q \notin V \/ IdleOf(q) = 0
  PROVE  LoadBut(T) <= LoadBut(V)
<1> DEFINE f == [p \in Living \ V |-> IdleOf(p)]
           g == [p \in Living \ T |-> IdleOf(p)]
<1>1. IsFiniteSet(Living \ V) /\ IsFiniteSet(Living \ T)
  BY LivingFinite, FS_Subset
<1>2. f \in [Living \ V -> Nat] /\ g \in [Living \ T -> Nat]
  BY LivingFinite
<1>3. \A y \in Living \ T : g[y] = 0 \/ (y \in Living \ V /\ g[y] <= f[y])
  BY LivingFinite
<1>4. IdleIn(Living \ V) = SumOf(f) /\ IdleIn(Living \ T) = SumOf(g)
  BY DEF IdleIn
<1> HIDE DEF f, g
<1>5. SumOf(g) <= SumOf(f) /\ SumOf(f) \in Nat /\ SumOf(g) \in Nat
  BY <1>1, <1>2, <1>3, SumFewer
<1>6. Used \in Nat
  BY UsedNat
<1> QED BY <1>4, <1>5, <1>6 DEF LoadBut

\* One more pool.
LEMMA LoadOneMore ==
  ASSUME DrainInv, NEW V, NEW q
  PROVE  LoadBut(V) <= LoadBut(V \cup {q}) + IdleOf(q)
<1> DEFINE S == Living \ (V \cup {q})
           T == Living \ V
<1>1. S \in SUBSET Living /\ T \in SUBSET Living /\ T \subseteq S \cup {q}
  OBVIOUS
<1>2. LoadBut(V) = Used + IdleIn(T) /\ LoadBut(V \cup {q}) = Used + IdleIn(S)
  BY DEF LoadBut
<1> HIDE DEF S, T
<1>3. PICK m, n \in Nat : m = IdleIn(S) /\ n = IdleIn(T) /\ n <= m + IdleOf(q)
  BY <1>1, IdleOneMore
<1>4. PICK k, i \in Nat : k = Used /\ i = IdleOf(q)
  BY UsedNat, LivingFinite
<1> QED BY <1>2, <1>3, <1>4

\* Whoever is to have a connection holds a place for it.
LEMMA PlacesForAll ==
  ASSUME DrainInv
  PROVE  Used + Cardinality(Pending) <= Places /\ Places <= MaxPerTarget /\ Places \in Nat
<1> DEFINE f == [a \in Agents |-> IF agent[a].forgotten THEN 0 ELSE agent[a].have]
           g == [a \in Agents |-> TakenIn(a, agent[a])]
           allF == UNION {{a} \X (1..f[a]) : a \in Agents}
           allG == UNION {{a} \X (1..g[a]) : a \in Agents}
           own == Pending \X {1}
<1>1. /\ Places \in 0..MaxPerTarget /\ MaxPerTarget \in Nat
      /\ \A a \in Agents : agent[a] \in AgentStates /\ Fits(a, agent[a])
  BY OfAgent, AgentsFinite
<1>2. f \in [Agents -> Nat]
  BY <1>1 DEF AgentStates
<1>3. \A a \in Agents : g[a] \in Nat /\ f[a] <= g[a]
  <2> TAKE a \in Agents
  <2>1. agent[a].have \in Nat /\ Fits(a, agent[a])
    BY <1>1 DEF AgentStates
  <2>2. a # Pinger /\ agent[a].at \in {"rests", "waits", "leaves", "late"} => agent[a].have = 0
    BY <2>1 DEF Fits, Holding
  <2>3. a # Pinger => agent[a].have <= 1
    BY <2>1 DEF Fits
  <2> QED BY <2>1, <2>2, <2>3 DEF TakenIn
<1>4. \A s \in Pending : s \in Agents /\ f[s] = 0 /\ g[s] = 1
  <2> TAKE s \in Pending
  <2>1. s \in Agents /\ s # Pinger /\ agent[s].at \in {"placed"} \cup Stages
    BY AgentsFinite DEF Pending
  <2>2. agent[s].have = 0 /\ ~agent[s].forgotten
    BY <1>1, <2>1 DEF Fits, Holding, Stages
  <2> QED BY <2>1, <2>2 DEF TakenIn, Stages
<1>5. g \in [Agents -> Nat]
  BY <1>3
<1>6. Used = SumOf(f) /\ Places = SumOf(g)
  BY CountedSo DEF Used, TakenOf
<1>7. SumOf(f) = Cardinality(allF) /\ SumOf(g) = Cardinality(allG)
  BY DEF SumOf
<1> HIDE DEF f, g
<1>8. allF \cap own = {}
  <2>1. 1..0 = {}
    OBVIOUS
  <2>2. \A s \in Pending : 1..f[s] = {}
    BY <1>4, <2>1
  <2> QED BY <2>2
<1>9. allF \cup own \in SUBSET allG
  <2>1. \A a \in Agents : \A i \in 1..f[a] : i \in 1..g[a]
    <3> SUFFICES ASSUME NEW a \in Agents, NEW i \in 1..f[a] PROVE i \in 1..g[a]
      OBVIOUS
    <3>1. PICK m, n \in Nat : m = f[a] /\ n = g[a] /\ m <= n
      BY <1>2, <1>3
    <3> QED BY <3>1
  <2>2. 1 \in 1..1
    OBVIOUS
  <2>3. \A s \in Pending : s \in Agents /\ 1 \in 1..g[s]
    BY <1>4, <2>2
  <2>4. allF \subseteq allG
    BY <2>1
  <2>5. own \subseteq allG
    BY <2>3
  <2> QED BY <2>4, <2>5
<1>10. IsFiniteSet(allF) /\ IsFiniteSet(allG)
  BY <1>2, <1>5, AgentsFinite, SumFinite
<1>11. IsFiniteSet(Pending) /\ Cardinality(Pending) \in Nat
  BY SQLAssumption, FS_Subset, FS_CardinalityType DEF Pending
<1>12. IsFiniteSet(own) /\ Cardinality(own) = Cardinality(Pending)
  <2>1. IsFiniteSet({1}) /\ Cardinality({1}) = 1
    BY FS_Singleton
  <2>2. IsFiniteSet(own) /\ Cardinality(own) = Cardinality(Pending) * Cardinality({1})
    BY <1>11, <2>1, FS_Product
  <2>3. Cardinality(Pending) * 1 = Cardinality(Pending)
    BY <1>11
  <2> QED BY <2>1, <2>2, <2>3
<1> HIDE DEF allF, allG, own
<1>13. Cardinality(allF \cup own) = Cardinality(allF) + Cardinality(own)
  BY <1>8, <1>10, <1>12, CountedApart
<1>14. Cardinality(allF \cup own) <= Cardinality(allG)
  BY <1>9, <1>10, FS_Subset
<1> QED BY <1>1, <1>6, <1>7, <1>12, <1>13, <1>14

-----------------------------------------------------------------------------
(* What stays so, as nothing more is open. *)

\* A scrape keeps its place among those that are to have a connection, or is
\* not, or not yet, one of them.
Stays(x) ==
  \/ agent'[x].at \notin {"placed"} \cup Stages
  \/ agent'[x].at = "placed" /\ x \notin Pending
  \/ SameStage(x)

\* No more is open, or none counts and no more is open in all.
LoadsFall ==
  /\ LoadBut({})' <= LoadBut({})
  /\ Counting' = {} \/ \A T : LoadBut(T)' <= LoadBut(T)

\* No pool comes back, and none has its first connection.
NoneComes ==
  /\ StillKnown
  /\ \A p \in Living' : Known(p) => p \in Living
  /\ \A p \in Living' : Touched(p)' => Touched(p)

\* As no more is open there stays room, for as many or fewer.
LEMMA RoomFalls ==
  ASSUME DrainInv, DrainInv', NEW D \in SUBSET SQLScrapes, NEW C \in SUBSET D,
         NEW T, NEW n \in Int, LoadBut(T)' <= LoadBut(T), Room(D, T, n)
  PROVE  Room(C, T, n)'
<1>1. IsFiniteSet(D)
  BY SQLAssumption, FS_Subset
<1>2. PICK c, d \in Nat : c = Cardinality(C) /\ d = Cardinality(D) /\ c <= d
  BY <1>1, FS_Subset, FS_CardinalityType
<1>3. PICK k, l \in Nat : k = LoadBut(T) /\ l = LoadBut(T)'
  BY LoadNat
<1>4. MaxPerTarget \in Nat /\ l <= k /\ k + d <= MaxPerTarget + n
  BY <1>2, <1>3, SQLAssumption DEF Room
<1>5. l + c <= MaxPerTarget + n
  BY <1>2, <1>4, <1>3
<1> QED BY <1>2, <1>3, <1>5 DEF Room

\* A pool that a scrape has not seen after is one it had not before, if it was.
LEMMA UnseenStays ==
  ASSUME DrainInv, NoneComes, NEW st, LookFits(st), st.at = "looks", NEW p, p \in Unseen(st)'
  PROVE  Known(p) => p \in Unseen(st)
BY DEF NoneComes, Unseen

\* A pool in which there is a connection, or was one, is not yet to be made.
LEMMA TouchedKnown ==
  ASSUME DrainInv, NEW p, Touched(p), p \in PoolIds
  PROVE  Known(p)
<1>1. CASE IdleOf(p) > 0
  BY <1>1 DEF IdleOf, DrainInv, IdsFit
<1>2. CASE ~(IdleOf(p) > 0)
  <2>1. PICK a \in Agents : agent[a].pool = p
    BY <1>2 DEF Touched
  <2>2. p # <<>>
    BY NoIdEmpty
  <2> QED BY <2>1, <2>2, OfAgent DEF KnownOf
<1> QED BY <1>1, <1>2

\* All that is open is what the pools, but for none, keep and have in use.
LEMMA OpenIs ==
  /\ DrainInv  => (OpenHeld <=> LoadBut({}) <= MaxPerTarget)
  /\ DrainInv' => (OpenHeld' <=> LoadBut({})' <= MaxPerTarget)
<1>1. ASSUME DrainInv PROVE OpenHeld <=> LoadBut({}) <= MaxPerTarget
  <2>1. Living \ {} = Living
    OBVIOUS
  <2>2. LoadBut({}) = Used + IdleIn(Living)
    BY <2>1 DEF LoadBut
  <2>3. IdleOpen = IdleIn(Living)
    BY DEF IdleOpen, IdleIn
  <2>4. PICK m, n \in Nat : m = Used /\ n = IdleIn(Living)
    BY <1>1, <2>1, UsedNat, LoadNat
  <2> QED BY <2>2, <2>3, <2>4 DEF OpenHeld
<1>2. ASSUME DrainInv' PROVE OpenHeld' <=> LoadBut({})' <= MaxPerTarget
  <2>1. Living' \ {} = Living'
    OBVIOUS
  <2>2. LoadBut({})' = Used' + IdleIn(Living)'
    BY <2>1 DEF LoadBut
  <2>3. IdleOpen' = IdleIn(Living)'
    BY DEF IdleOpen, IdleIn
  <2>4. PICK m, n \in Nat : m = Used' /\ n = IdleIn(Living \ {})'
    BY <1>2, UsedNat, LoadNat
  <2>5. IdleIn(Living \ {})' = IdleIn(Living)'
    BY <2>1
  <2> QED BY <2>2, <2>3, <2>4, <2>5 DEF OpenHeld
<1> QED BY <1>1, <1>2

\* As no more is open, no more than max_per_target is.
LEMMA OpenFalls ==
  ASSUME DrainInv, DrainInv', OpenHeld, LoadBut({})' <= LoadBut({})
  PROVE  OpenHeld'
<1>1. PICK k, l \in Nat : k = LoadBut({}) /\ l = LoadBut({})' /\ l <= k
  BY LoadNat
<1>2. k <= MaxPerTarget /\ MaxPerTarget \in Nat
  BY <1>1, OpenIs, SQLAssumption
<1>3. l <= MaxPerTarget
  BY <1>1, <1>2
<1> QED BY <1>1, <1>3, OpenIs

\* What a scrape relies on it goes on to rely on, of those it covers who are left.
LEMMA HeldStays ==
  ASSUME OpenInv, DrainInv', NoneComes, LoadsFall, NEW x \in SQLScrapes, SameStage(x),
         NEW D \in SUBSET Pending, NEW C \in SUBSET D, x \in D => x \in C, Held(x, D, agent[x])
  PROVE  Held(x, C, agent[x])'
<1>1. DrainInv /\ D \in SUBSET SQLScrapes /\ x \in Agents /\ LookFits(agent[x])
  BY AgentsFinite DEF OpenInv, Pending, LooksFit
<1>2. agent[x] \in AgentStates
  BY <1>1, OfAgent
<1>3. PICK st, new : st = agent[x] /\ new = agent'[x]
  OBVIOUS
<1>4. /\ new.at = st.at /\ new.pool = st.pool /\ new.others = st.others
      /\ new.todo = st.todo /\ new.sum = st.sum /\ st.sum \in Int
  BY <1>2, <1>3 DEF SameStage, AgentStates
<1>5. ASSUME NEW T, NEW n \in Int, Room(D, T, n), st.at \in Stages \ {"looks"} PROVE Room(C, T, n)'
  <2>1. x \in Counting'
    BY <1>3, <1>4, <1>5 DEF Counting, Stages
  <2>2. LoadBut(T)' <= LoadBut(T)
    BY <2>1 DEF LoadsFall
  <2> QED BY <1>1, <1>5, <2>2, RoomFalls
<1>6. Held(x, D, st)
  BY <1>3
<1>7. CASE st.at = "looks"
  <2>1. CASE x \in D
    <3>1. Room(D, {}, 0)
      BY <1>6, <1>7, <2>1 DEF Held, Looking
    <3>2. LoadBut({})' <= LoadBut({})
      BY DEF LoadsFall
    <3>3. Room(C, {}, 0)'
      BY <1>1, <3>1, <3>2, RoomFalls
    <3>4. Looking(x, C, new)'
      BY <2>1, <3>3 DEF Looking
    <3> QED BY <1>3, <1>4, <1>7, <3>4 DEF Held, Looking, Unseen
  <2>2. CASE x \notin D
    <3>1. \A p \in Unseen(st) : ~Touched(p)
      BY <1>6, <1>7, <2>2 DEF Held, Looking
    <3>2. ASSUME NEW p \in Unseen(st)', Touched(p)' PROVE FALSE
      <4>1. p \in Living' /\ p \in PoolIds
        BY <3>2 DEF Unseen, Living, DrainInv, PoolsInv, SQLTyped
      <4>2. Touched(p)
        BY <3>2, <4>1 DEF NoneComes
      <4>3. Known(p)
        BY <1>1, <4>1, <4>2, TouchedKnown
      <4>4. p \in Unseen(st)
        BY <1>1, <1>3, <1>7, <3>2, <4>3, UnseenStays
      <4> QED BY <3>1, <4>2, <4>4
    <3>3. x \notin C
      BY <2>2
    <3> QED BY <1>3, <1>4, <1>7, <3>2, <3>3 DEF Held, Looking, Unseen
  <2> QED BY <2>1, <2>2
<1>8. CASE st.at = "counts"
  <2>1. x \in C /\ CountingRoom(D, st)
    BY <1>6, <1>8 DEF Held
  <2>2. CountingRoom(C, new)'
    BY <1>4, <1>5, <1>8, <2>1 DEF CountingRoom, Stages
  <2> QED BY <1>3, <1>4, <1>8, <2>1, <2>2 DEF Held
<1>9. CASE st.at = "rooms"
  <2>1. x \in C /\ MakingRoom(D, st)
    BY <1>6, <1>9 DEF Held
  <2>2. MakingRoom(C, new)'
    BY <1>4, <1>5, <1>9, <2>1 DEF MakingRoom, Stages
  <2> QED BY <1>3, <1>4, <1>9, <2>1, <2>2 DEF Held
<1>10. CASE st.at \in {"awaits", "connects"}
  <2>1. x \in C /\ Room(D, {st.pool}, 0)
    BY <1>6, <1>10 DEF Held
  <2>2. Room(C, {new.pool}, 0)'
    BY <1>4, <1>5, <1>10, <2>1 DEF Stages
  <2> QED BY <1>3, <1>4, <1>10, <2>1, <2>2 DEF Held
<1>11. CASE st.at \notin Stages
  BY <1>3, <1>4, <1>11 DEF Held, Stages
<1> QED BY <1>7, <1>8, <1>9, <1>10, <1>11 DEF Stages

\* Who looks goes on looking, or knows its own pool from the others.
LooksOn(x) == SameStage(x) \/ (agent'[x].at # "looks" /\ LookFits(agent[x])')

\* A scrape that stays among those to have a connection goes on looking.
LEMMA StaysLooks == ASSUME NEW x, Stays(x) PROVE LooksOn(x)
BY DEF Stays, LooksOn, LookFits, Stages

\* And knows of pools, and of those it has not seen, as before.
LEMMA LooksStay ==
  ASSUME OpenInv, DrainInv', NoneComes, \A x \in SQLScrapes : LooksOn(x)
  PROVE  LooksFit'
<1>1. DrainInv /\ LooksFit
  BY DEF OpenInv
<1>2. ASSUME NEW x \in SQLScrapes PROVE LookFits(agent[x])'
  <2>1. LooksOn(x) /\ LookFits(agent[x])
    BY <1>1 DEF LooksFit
  <2>2. \A p : Known(p) => Known(p)'
    BY DEF NoneComes, StillKnown
  <2>3. CASE SameStage(x)
    BY <2>1, <2>2, <2>3 DEF SameStage, LookFits
  <2> QED BY <2>1, <2>3 DEF LooksOn
<1>3. ASSUME NEW x \in SQLScrapes, NEW y \in SQLScrapes PROVE SeenFirst(agent[x], agent[y])'
  <2> SUFFICES ASSUME agent'[x].at = "looks", agent'[y].at = "looks", agent'[y].pool \in Unseen(agent[x])',
                      NEW p \in Unseen(agent[y])'
               PROVE  p \in Unseen(agent[x])'
    BY DEF SeenFirst
  <2>1. SameStage(x) /\ SameStage(y)
    BY DEF LooksOn
  <2>2. PICK u, v : u = agent[x] /\ v = agent[y]
    OBVIOUS
  <2>3. u.at = "looks" /\ v.at = "looks" /\ LookFits(u) /\ LookFits(v) /\ SeenFirst(u, v)
    BY <1>1, <2>1, <2>2 DEF SameStage, LooksFit
  <2>4. v.pool \in Unseen(u)' /\ p \in Unseen(v)'
    BY <2>1, <2>2 DEF SameStage, Unseen
  <2>5. p \in Living'
    BY <2>4 DEF Unseen
  <2>6. x \in Agents /\ y \in Agents /\ \A q \in PoolIds : q # <<>>
    BY AgentsFinite, NoIdEmpty
  <2>7. v.pool \in PoolIds /\ Known(v.pool)
    <3>1. v.pool \in Living'
      BY <2>4 DEF Unseen
    <3>2. v.pool \in PoolIds
      BY <3>1 DEF Living, DrainInv, PoolsInv, SQLTyped
    <3> QED BY <1>1, <2>2, <2>6, <3>2, OfAgent DEF KnownOf
  <2>8. v.pool \in Unseen(u)
    BY <1>1, <2>3, <2>4, <2>7, UnseenStays
  <2>9. CASE Known(p)
    <3>1. p \in Unseen(v)
      BY <1>1, <2>3, <2>4, <2>9, UnseenStays
    <3>2. p \in Unseen(u)
      BY <2>3, <2>8, <3>1 DEF SeenFirst
    <3>3. p \in Unseen(u)'
      BY <2>5, <3>2 DEF Unseen
    <3> QED BY <2>1, <2>2, <3>3 DEF SameStage, Unseen
  <2>10. CASE ~Known(p)
    <3>1. p \notin u.others
      BY <2>3, <2>10 DEF LookFits
    <3>2. p \in PoolIds
      BY <2>5 DEF Living, DrainInv, PoolsInv, SQLTyped
    <3>3. p # u.pool
      BY <1>1, <2>2, <2>6, <2>10, <3>2, OfAgent DEF KnownOf
    <3>4. p \in Unseen(u)'
      BY <2>5, <3>1, <3>3 DEF Unseen
    <3> QED BY <2>1, <2>2, <3>4 DEF SameStage, Unseen
  <2> QED BY <2>9, <2>10
<1> QED BY <1>2, <1>3 DEF LooksFit

\* A step with which no more is open, and no scrape goes on to its connection.
LEMMA OpenStays ==
  ASSUME OpenInv, DrainInv', NoneComes, ~crossed' => LoadsFall, GoneForgotten', crossed => crossed',
         \A x \in SQLScrapes : Stays(x)
  PROVE  OpenInv'
<1>1. LooksFit'
  BY StaysLooks, LooksStay
<1>2. ASSUME ~crossed' PROVE OpenHeld' /\ \E cov : Covers(cov)'
  <2>1. DrainInv /\ LoadsFall /\ OpenHeld /\ \E cov : Covers(cov)
    BY <1>2 DEF OpenInv
  <2>2. PICK cov : Covers(cov)
    BY <2>1
  <2>3. PICK still : still = Pending'
    OBVIOUS
  <2>4. PICK new : new = [x \in SQLScrapes |-> cov[x] \cap still]
    OBVIOUS
  <2>5. \A x \in SQLScrapes : cov[x] \in SUBSET Pending /\ Held(x, cov[x], agent[x]) /\ new[x] = cov[x] \cap still
    BY <2>2, <2>4 DEF Covers
  <2>6. new \in [SQLScrapes -> SUBSET still]
    BY <2>4
  <2>7. ASSUME NEW x \in SQLScrapes PROVE Held(x, new[x], agent[x])'
    <3>1. CASE agent'[x].at \notin Stages
      BY <3>1 DEF Held, Stages
    <3>2. CASE SameStage(x) /\ agent'[x].at \in Stages
      <4>1. x \in still
        BY <2>3, <3>2 DEF Pending
      <4> QED BY <2>1, <2>5, <3>2, <4>1, HeldStays
    <3> QED BY <3>1, <3>2 DEF Stays, Stages
  <2>8. Ordered(new)'
    BY <2>2, <2>5 DEF Covers, Ordered
  <2>9. Told(new)'
    <3> SUFFICES ASSUME NEW x \in SQLScrapes, NEW y \in SQLScrapes, agent'[x].at = "looks", x \notin new[x],
                        y \in new[y], agent'[y].pool \in Unseen(agent[x])'
                 PROVE  x \in new[y]
      BY DEF Told
    <3>1. SameStage(x)
      BY DEF Stays, Stages
    <3>2. x \in still /\ agent[x].at = "looks"
      BY <2>3, <3>1 DEF Pending, SameStage, Stages
    <3>3. x \notin cov[x] /\ y \in cov[y] /\ y \in Pending /\ y \in Pending'
      BY <2>3, <2>5, <3>2
    <3>4. SameStage(y)
      BY <3>3 DEF Pending, Stays
    <3>5. PICK u : u = agent[x]
      OBVIOUS
    <3>6. agent[y].pool \in Unseen(u)'
      BY <3>1, <3>4, <3>5 DEF SameStage, Unseen
    <3>7. LookFits(u) /\ Known(agent[y].pool)
      <4>1. agent[y].pool \in PoolIds
        BY <3>6 DEF Unseen, Living, DrainInv, PoolsInv, SQLTyped
      <4>2. y \in Agents /\ agent[y].pool # <<>>
        BY <4>1, AgentsFinite, NoIdEmpty
      <4> QED BY <2>1, <3>5, <4>2, OfAgent DEF KnownOf, OpenInv, LooksFit
    <3>8. agent[y].pool \in Unseen(agent[x])
      BY <2>1, <3>2, <3>5, <3>6, <3>7, UnseenStays
    <3>9. x \in cov[y]
      BY <2>2, <3>2, <3>3, <3>8 DEF Covers, Told
    <3> QED BY <2>5, <3>2, <3>9
  <2>10. Covers(new)'
    BY <2>3, <2>6, <2>7, <2>8, <2>9 DEF Covers
  <2>11. OpenHeld'
    BY <2>1, OpenFalls DEF LoadsFall
  <2> QED BY <2>10, <2>11
<1> QED BY <1>1, <1>2 DEF OpenInv

-----------------------------------------------------------------------------
(* Steps with which nothing more is open. *)

\* An agent has no more connections than it had, of the pool it has.
UsedFalls(a) ==
  /\ UsedIn(agent'[a]) <= UsedIn(agent[a])
  /\ agent'[a].have > 0 => agent[a].have > 0 /\ agent'[a].pool = agent[a].pool

\* No more is open when no pool keeps more idle and no agent has more.
LEMMA NoMoreOpen ==
  ASSUME DrainInv, DrainInv', PoolsNoMore, \A a \in Agents : UsedFalls(a)
  PROVE  NoneComes /\ LoadsFall /\ \A T : LoadBut(T)' <= LoadBut(T)
<1>1. ASSUME NEW T PROVE LoadBut(T)' <= LoadBut(T)
  <2>1. PICK k, l \in Nat : k = Used /\ l = Used' /\ l <= k
    BY UsedNat, UsedNoMore DEF UsedFalls
  <2>2. PICK m, n \in Nat : m = IdleIn(Living \ T)' /\ n = IdleIn(Living \ T) /\ m <= n
    <3> DEFINE S == Living \ T
               V == Living' \ T
    <3>1. S \in SUBSET Living /\ V \in SUBSET Living' /\ \A p \in V : Known(p) => p \in S
      BY DEF PoolsNoMore
    <3>2. IdleIn(Living \ T)' = SumOf([p \in V |-> IdleOf(p)'])
      BY DEF IdleIn
    <3> HIDE DEF S, V
    <3>3. /\ SumOf([p \in V |-> IdleOf(p)']) \in Nat /\ IdleIn(S) \in Nat
          /\ SumOf([p \in V |-> IdleOf(p)']) <= IdleIn(S)
      BY <3>1, IdleNoMore
    <3> QED BY <3>2, <3>3 DEF S
  <2>3. LoadBut(T)' = l + m /\ LoadBut(T) = k + n
    BY <2>1, <2>2 DEF LoadBut
  <2> QED BY <2>1, <2>2, <2>3
<1>2. ASSUME NEW p \in Living', Touched(p)' PROVE Touched(p)
  <2>1. IdleOf(p)' <= IdleOf(p) /\ IdleOf(p)' \in Nat /\ IdleOf(p) \in Nat
    BY LivingFinite DEF PoolsNoMore
  <2>2. CASE IdleOf(p)' > 0
    BY <2>1, <2>2 DEF Touched
  <2>3. CASE \E a \in Agents : agent'[a].pool = p /\ agent'[a].have > 0
    BY <2>3 DEF UsedFalls, Touched
  <2> QED BY <1>2, <2>2, <2>3 DEF Touched
<1> QED BY <1>1, <1>2 DEF NoneComes, LoadsFall, PoolsNoMore

\* A step with which none keeps or has more.
LEMMA OpenFollows ==
  ASSUME OpenInv, DrainInv', PoolsNoMore, GoneForgotten', crossed => crossed',
         \A a \in Agents : UsedFalls(a), \A x \in SQLScrapes : Stays(x)
  PROVE  OpenInv'
<1>1. DrainInv
  BY DEF OpenInv
<1>2. NoneComes /\ LoadsFall
  BY <1>1, NoMoreOpen
<1> QED BY <1>2, OpenStays

\* Of one agent, the others as they were.
LEMMA OthersFall ==
  ASSUME DrainInv, NEW a \in Agents, Alone(a), UsedFalls(a)
  PROVE  \A b \in Agents : UsedFalls(b)
<1> TAKE b \in Agents
<1>1. UsedIn(agent[b]) \in Nat
  BY UsedNat
<1>2. CASE b # a
  BY <1>1, <1>2 DEF Alone, UsedFalls
<1> QED BY <1>2

\* One agent goes on; the other scrapes stay where they are.
LEMMA OthersStay ==
  ASSUME NEW a \in Agents, Alone(a), a \in SQLScrapes => Stays(a)
  PROVE  \A x \in SQLScrapes : Stays(x)
<1> TAKE x \in SQLScrapes
<1>1. x \in Agents
  BY AgentsFinite
<1>2. CASE x # a
  BY <1>1, <1>2 DEF Alone, Stays, SameStage
<1> QED BY <1>2

\* A step of one agent, with which none keeps or has more.
LEMMA OneOpens ==
  ASSUME OpenInv, DrainInv', PoolsNoMore, GoneForgotten', crossed => crossed',
         NEW a \in Agents, Alone(a), UsedFalls(a), a \in SQLScrapes => Stays(a)
  PROVE  OpenInv'
<1>1. DrainInv
  BY DEF OpenInv
<1>2. \A b \in Agents : UsedFalls(b)
  BY <1>1, OthersFall
<1>3. \A x \in SQLScrapes : Stays(x)
  BY OthersStay
<1> QED BY <1>2, <1>3, OpenFollows

\* A round that is forgotten stays so, of a pool that stays gone.
LEMMA GoneStays ==
  ASSUME OpenInv, NEW a \in Agents, Alone(a), DOMAIN pools' \subseteq DOMAIN pools,
         a = Pinger /\ agent'[a].forgotten => agent[a].forgotten /\ agent'[a].pool = agent[a].pool
  PROVE  GoneForgotten'
<1>1. GoneForgotten /\ Pinger \in Agents
  BY AgentsFinite DEF OpenInv
<1>2. CASE a = Pinger
  BY <1>1, <1>2 DEF GoneForgotten
<1>3. CASE a # Pinger
  BY <1>1, <1>3 DEF GoneForgotten, Alone
<1> QED BY <1>2, <1>3

\* An agent that goes on with no more than it had, and the pools as they are.
LEMMA OnlyAgentOpens ==
  ASSUME OpenInv, DrainInv', UNCHANGED pools, UNCHANGED closed, crossed => crossed',
         NEW a \in Agents, NEW st, Becomes(a, st),
         st.have \in Nat /\ st.have <= agent[a].have,
         st.have > 0 \/ st.forgotten => st.pool = agent[a].pool /\ st.forgotten = agent[a].forgotten,
         a \in SQLScrapes => st.at \notin {"placed"} \cup Stages \/ (st.at = "placed" /\ a \notin Pending)
  PROVE  OpenInv'
<1>1. DrainInv /\ agent \in [Agents -> AgentStates] /\ agent[a] \in AgentStates
  BY OfAgent DEF OpenInv
<1>2. agent'[a] = st /\ Alone(a)
  BY <1>1 DEF Becomes, Alone
<1>3. PoolsNoMore
  BY <1>1, SamePools
<1>4. UsedFalls(a)
  <2>1. agent[a].have \in Nat /\ agent[a].forgotten \in BOOLEAN
    BY <1>1 DEF AgentStates
  <2>2. st.have > 0 => agent[a].have > 0
    BY <2>1
  <2>3. UsedIn(st) <= UsedIn(agent[a])
    BY <2>1 DEF UsedIn
  <2> QED BY <1>2, <2>2, <2>3 DEF UsedFalls
<1>5. a \in SQLScrapes => Stays(a)
  BY <1>2 DEF Stays
<1>6. GoneForgotten'
  <2>1. agent[a].forgotten \in BOOLEAN
    BY <1>1 DEF AgentStates
  <2>2. st.forgotten => agent[a].forgotten /\ st.pool = agent[a].pool
    BY <2>1
  <2> QED BY <1>2, <2>2, GoneStays
<1> QED BY <1>2, <1>3, <1>4, <1>5, <1>6, OneOpens

\* An agent of which only where it is changes.
LEMMA OnlyAtOpens ==
  ASSUME OpenInv, DrainInv', UNCHANGED pools, UNCHANGED closed, crossed => crossed',
         NEW a \in Agents, NEW to, At(a, to),
         a \in SQLScrapes => to \notin {"placed"} \cup Stages \/ (to = "placed" /\ a \notin Pending)
  PROVE  OpenInv'
<1>1. agent[a] \in AgentStates
  BY OfAgent DEF OpenInv
<1>2. PICK st : st = [agent[a] EXCEPT !.at = to]
  OBVIOUS
<1>3. /\ st.at = to /\ st.have = agent[a].have /\ st.pool = agent[a].pool
      /\ st.forgotten = agent[a].forgotten /\ agent[a].have \in Nat
  BY <1>1, <1>2 DEF AgentStates
<1>4. Becomes(a, st)
  BY <1>2 DEF At
<1>5. st.have \in Nat /\ st.have <= agent[a].have
  BY <1>3
<1>6. a \in SQLScrapes => st.at \notin {"placed"} \cup Stages \/ (st.at = "placed" /\ a \notin Pending)
  BY <1>3
<1> QED BY <1>3, <1>4, <1>5, <1>6, OnlyAgentOpens

\* A scrape before it has its place, and after its statement.
LEMMA ScrapeOpens ==
  ASSUME OpenInv, DrainInv', NEW s \in SQLScrapes,
         \/ takePlace(s) \/ placeTimeout(s) \/ (roomMade(s) /\ At(s, "over"))
         \/ endStatement(s) \/ freePlace(s)
  PROVE  OpenInv'
<1>1. s \in Agents
  BY AgentsFinite
<1>2. UNCHANGED pools /\ UNCHANGED closed /\ (crossed => crossed')
  BY DEF takePlace, placeTimeout, roomMade, endStatement, freePlace
<1>3. CASE takePlace(s)
  <2>1. s \notin Pending /\ At(s, "placed")
    BY <1>3 DEF takePlace, Pending, Stages
  <2> QED BY <1>1, <1>2, <2>1, OnlyAtOpens
<1>4. CASE ~takePlace(s)
  <2>1. PICK to \in {"leaves", "over", "gives", "discards"} : At(s, to)
    BY <1>4 DEF placeTimeout, endStatement, freePlace
  <2>2. to \notin {"placed"} \cup Stages
    BY <2>1 DEF Stages
  <2> QED BY <1>1, <1>2, <2>1, <2>2, OnlyAtOpens
<1> QED BY <1>3, <1>4

\* A connection is closed that a scrape took to make room.
LEMMA ClosesOpen ==
  ASSUME OpenInv, DrainInv', NEW s \in SQLScrapes, connClosed(s) \/ lateClosed(s)
  PROVE  OpenInv'
<1>1. /\ s \in Agents /\ DrainInv /\ agent[s] \in AgentStates
      /\ UNCHANGED pools /\ UNCHANGED closed /\ (crossed => crossed')
  BY AgentsFinite, OfAgent DEF OpenInv, connClosed, lateClosed
<1>2. CASE connClosed(s)
  <2>1. PICK i : Becomes(s, [agent[s] EXCEPT !.closing = RemoveAt(@, i)])
    BY <1>2 DEF connClosed
  <2>2. PICK st : st = [agent[s] EXCEPT !.closing = RemoveAt(@, i)]
    OBVIOUS
  <2>3. /\ st.at = agent[s].at /\ st.pool = agent[s].pool /\ st.others = agent[s].others
        /\ st.todo = agent[s].todo /\ st.sum = agent[s].sum /\ st.have = agent[s].have
        /\ st.forgotten = agent[s].forgotten
    BY <1>1, <2>2 DEF AgentStates
  <2>4. agent'[s] = st /\ Alone(s)
    BY <1>1, <2>1, <2>2 DEF Becomes, Alone, DrainInv, AgentsFit
  <2>5. UsedFalls(s)
    <3>1. UsedIn(agent[s]) \in Nat
      BY <1>1, UsedNat
    <3> QED BY <2>3, <2>4, <3>1 DEF UsedFalls, UsedIn
  <2>6. Stays(s)
    BY <2>3, <2>4 DEF Stays, SameStage
  <2>7. GoneForgotten'
    BY <1>1, <2>3, <2>4, GoneStays
  <2> QED BY <1>1, <2>4, <2>5, <2>6, <2>7, SamePools, OneOpens
<1>3. CASE lateClosed(s)
  <2>1. Becomes(s, Resting)
    BY <1>3 DEF lateClosed
  <2>2. Resting.have = 0 /\ Resting.at = "rests" /\ ~Resting.forgotten
    BY RestingIs
  <2>3. agent[s].have \in Nat /\ "rests" \notin {"placed"} \cup Stages
    BY <1>1 DEF AgentStates, Stages
  <2>4. Resting.have \in Nat /\ Resting.have <= agent[s].have /\ ~(Resting.have > 0)
    BY <2>2, <2>3
  <2> QED BY <1>1, <2>1, <2>2, <2>3, <2>4, OnlyAgentOpens
<1> QED BY <1>2, <1>3

\* The round as it goes on to give back what it has, or rests.
LEMMA PingedOpens ==
  ASSUME OpenInv, DrainInv', UNCHANGED pools, UNCHANGED closed, crossed => crossed', Pinged
  PROVE  OpenInv'
<1>1. Pinger \in Agents /\ agent[Pinger] \in AgentStates /\ Pinger \notin SQLScrapes
  BY AgentsFinite, OfAgent, SQLAssumption DEF OpenInv
<1>2. CASE Becomes(Pinger, Resting)
  <2>1. agent[Pinger].have \in Nat /\ Resting.have = 0 /\ ~Resting.forgotten
    BY <1>1, RestingIs DEF AgentStates
  <2>2. Resting.have \in Nat /\ Resting.have <= agent[Pinger].have /\ ~(Resting.have > 0)
    BY <2>1
  <2> QED BY <1>1, <1>2, <2>1, <2>2, OnlyAgentOpens
<1>3. CASE Becomes(Pinger, [agent[Pinger] EXCEPT !.at = "gives", !.sum = 0])
  <2>1. PICK st : st = [agent[Pinger] EXCEPT !.at = "gives", !.sum = 0]
    OBVIOUS
  <2>2. /\ st.have = agent[Pinger].have /\ st.pool = agent[Pinger].pool
        /\ st.forgotten = agent[Pinger].forgotten /\ agent[Pinger].have \in Nat
    BY <1>1, <2>1 DEF AgentStates
  <2>3. st.have \in Nat /\ st.have <= agent[Pinger].have /\ Becomes(Pinger, st)
    BY <1>3, <2>1, <2>2
  <2> QED BY <1>1, <2>2, <2>3, OnlyAgentOpens
<1> QED BY <1>2, <1>3 DEF Pinged

\* The round as it begins, and as it takes and frees its places.
LEMMA RoundOpens ==
  ASSUME OpenInv, DrainInv', (\E p \in Living : beginRound(p)) \/ pingPlace \/ pingOver
  PROVE  OpenInv'
<1>1. /\ Pinger \in Agents /\ agent[Pinger] \in AgentStates /\ Pinger \notin SQLScrapes
      /\ UNCHANGED pools /\ UNCHANGED closed /\ (crossed => crossed')
  <2>1. UNCHANGED pools /\ UNCHANGED closed /\ (crossed => crossed')
    <3>1. UNCHANGED <<pools, giving, closed, crossed>>
      BY DEF beginRound, pingPlace, pingOver
    <3> QED BY <3>1
  <2> QED BY <2>1, AgentsFinite, OfAgent, SQLAssumption DEF OpenInv
<1>2. ASSUME NEW p \in Living, beginRound(p) PROVE OpenInv'
  <2>1. PICK st : st = [Resting EXCEPT !.at = "takes", !.pool = p, !.sum = pools[p].idle]
    OBVIOUS
  <2>2. st.have = 0 /\ ~st.forgotten /\ agent[Pinger].have \in Nat
    BY <1>1, <2>1 DEF Resting, AgentStates
  <2>3. st.have \in Nat /\ st.have <= agent[Pinger].have /\ ~(st.have > 0)
    BY <2>2
  <2>4. Becomes(Pinger, st)
    BY <1>2, <2>1 DEF beginRound
  <2> QED BY <1>1, <2>2, <2>3, <2>4, OnlyAgentOpens
<1>3. CASE At(Pinger, "asks")
  BY <1>1, <1>3, OnlyAtOpens
<1>4. CASE Pinged
  BY <1>1, <1>4, PingedOpens
<1> QED BY <1>2, <1>3, <1>4 DEF pingPlace, pingOver

\* Who gives a connection back, but for giving it.
LEMMA GivesOpens ==
  ASSUME OpenInv, DrainInv', NEW a \in Agents,
         \/ giveBack(a) \/ lockGiving(a) \/ tallyIdle(a) \/ discardConn(a)
         \/ (keepIdle(a) /\ UNCHANGED pools /\ Becomes(a, [Looked(agent[a]) EXCEPT !.at = "discards"]))
  PROVE  OpenInv'
<1>1. /\ agent[a] \in AgentStates /\ Fits(a, agent[a]) /\ UNCHANGED pools
      /\ UNCHANGED closed /\ (crossed => crossed')
  <2>1. agent[a] \in AgentStates /\ Fits(a, agent[a])
    BY OfAgent DEF OpenInv
  <2>2. CASE giveBack(a) \/ tallyIdle(a) \/ discardConn(a)
    <3>1. UNCHANGED <<pools, giving, closed, crossed>>
      BY <2>2 DEF giveBack, tallyIdle, discardConn
    <3> QED BY <2>1, <3>1
  <2>4. CASE lockGiving(a)
    BY <2>1, <2>4 DEF lockGiving
  <2>3. CASE keepIdle(a) /\ UNCHANGED pools
    BY <2>1, <2>3 DEF keepIdle
  <2> QED BY <2>2, <2>3, <2>4
<1>2. CASE At(a, "discards") \/ At(a, "returns")
  BY <1>1, <1>2, OnlyAtOpens DEF Stages
<1>3. CASE ~(At(a, "discards") \/ At(a, "returns"))
  <2>1. PICK st : /\ Becomes(a, st)
                  /\ st.at \in {"queues", "tallies", "over", "discards"} /\ st.pool = agent[a].pool
                  /\ st.forgotten = agent[a].forgotten
                  /\ st.have = agent[a].have \/ (st.have = agent[a].have - 1 /\ agent[a].at = "discards")
    <3>1. CASE giveBack(a)
      <4>1. Becomes(a, [agent[a] EXCEPT !.at = "queues", !.others = Living, !.todo = Living])
        BY <1>3, <3>1 DEF giveBack
      <4>2. PICK st : st = [agent[a] EXCEPT !.at = "queues", !.others = Living, !.todo = Living]
        OBVIOUS
      <4>3. st.at = "queues" /\ st.pool = agent[a].pool /\ st.forgotten = agent[a].forgotten /\ st.have = agent[a].have
        BY <1>1, <4>2 DEF AgentStates
      <4> QED BY <4>1, <4>2, <4>3
    <3>2. CASE lockGiving(a)
      <4>1. PICK st : st = [agent[a] EXCEPT !.at = "tallies", !.sum = 0]
        OBVIOUS
      <4>2. st.at = "tallies" /\ st.pool = agent[a].pool /\ st.forgotten = agent[a].forgotten /\ st.have = agent[a].have
        BY <1>1, <4>1 DEF AgentStates
      <4>3. Becomes(a, st)
        BY <3>2, <4>1 DEF lockGiving
      <4> QED BY <4>2, <4>3
    <3>3. CASE tallyIdle(a)
      <4>1. PICK q : Becomes(a, [agent[a] EXCEPT !.todo = @ \ {q}, !.sum = @ + IdleOf(q)])
        BY <3>3 DEF tallyIdle
      <4>2. PICK st : st = [agent[a] EXCEPT !.todo = @ \ {q}, !.sum = @ + IdleOf(q)]
        OBVIOUS
      <4>3. st.at = "tallies" /\ st.pool = agent[a].pool /\ st.forgotten = agent[a].forgotten /\ st.have = agent[a].have
        BY <1>1, <3>3, <4>2 DEF AgentStates, tallyIdle
      <4> QED BY <4>1, <4>2, <4>3
    <3>4. CASE discardConn(a)
      <4>1. PICK st : st = [agent[a] EXCEPT !.at = "over", !.have = @ - 1]
        OBVIOUS
      <4>2. st.at = "over" /\ st.pool = agent[a].pool /\ st.forgotten = agent[a].forgotten /\ st.have = agent[a].have - 1
        BY <1>1, <4>1 DEF AgentStates
      <4>3. Becomes(a, st) /\ agent[a].at = "discards"
        BY <3>4, <4>1 DEF discardConn
      <4> QED BY <4>2, <4>3
    <3>5. CASE Becomes(a, [Looked(agent[a]) EXCEPT !.at = "discards"])
      <4>1. PICK st : st = [Looked(agent[a]) EXCEPT !.at = "discards"]
        OBVIOUS
      <4>2. st.at = "discards" /\ st.pool = agent[a].pool /\ st.forgotten = agent[a].forgotten /\ st.have = agent[a].have
        BY <1>1, <4>1 DEF AgentStates, Looked
      <4> QED BY <3>5, <4>1, <4>2
    <3> QED BY <3>1, <3>2, <3>3, <3>4, <3>5
  <2>2. agent[a].have \in Nat /\ (agent[a].at = "discards" => agent[a].have > 0)
    BY <1>1 DEF AgentStates, Fits, Holding
  <2>3. st.have \in Nat /\ st.have <= agent[a].have
    BY <2>1, <2>2
  <2>4. st.at \notin {"placed"} \cup Stages
    BY <2>1 DEF Stages
  <2> QED BY <1>1, <2>1, <2>3, <2>4, OnlyAgentOpens
<1> QED BY <1>2, <1>3

\* An agent that goes on as it was, its target forgotten or not.
LEMMA AsWasOpens ==
  ASSUME DrainInv, NEW a \in Agents, GoesOnAs(a)
  PROVE  UsedFalls(a) /\ Stays(a)
<1>1. agent[a] \in AgentStates
  BY OfAgent
<1>2. PICK st, old : st = agent'[a] /\ old = agent[a] /\ AsWas(st, old)
  BY DEF GoesOnAs
<1>3. old.have \in Nat /\ st.have = old.have /\ st.pool = old.pool
  BY <1>1, <1>2 DEF AgentStates, AsWas
<1>4. old.forgotten => st.forgotten
  BY <1>2 DEF AsWas
<1>5. UsedIn(st) <= UsedIn(old)
  BY <1>3, <1>4 DEF UsedIn
<1>6. SameStage(a)
  BY <1>2 DEF AsWas, SameStage
<1> QED BY <1>2, <1>3, <1>5, <1>6 DEF UsedFalls, Stays

\* The target is forgotten with its last pool.
LEMMA PoolGone ==
  ASSUME OpenInv, DOMAIN pools' \subseteq DOMAIN pools, GoesOnAs(Pinger)
  PROVE  GoneForgotten'
<1>1. AsWas(agent'[Pinger], agent[Pinger]) /\ GoneForgotten
  BY DEF GoesOnAs, OpenInv
<1> QED BY <1>1 DEF AsWas, GoneForgotten

\* A pool is closed, or its idle connections are.
LEMMA BefallsOpens ==
  ASSUME OpenInv, DrainInv', NEW p \in DOMAIN pools, closePool(p) \/ closeIdle(p) \/ expire(p)
  PROVE  OpenInv'
<1>1. DrainInv /\ (crossed => crossed')
  BY DEF OpenInv, closePool, closeIdle, expire
<1>2. PoolsNoMore /\ DOMAIN pools' \subseteq DOMAIN pools /\ \A a \in Agents : GoesOnAs(a)
  BY <1>1, BefallsFewer
<1>3. (\A a \in Agents : UsedFalls(a)) /\ \A x \in SQLScrapes : Stays(x)
  BY <1>1, <1>2, AsWasOpens, AgentsFinite
<1>4. GoneForgotten'
  BY <1>2, PoolGone, AgentsFinite
<1> QED BY <1>1, <1>2, <1>3, <1>4, OpenFollows

\* A scrape that has no connection has none in use.
LEMMA NoneInUse ==
  ASSUME DrainInv, NEW s \in Agents, agent'[s].have = 0
  PROVE  UsedFalls(s)
<1>1. UsedIn(agent[s]) \in Nat
  BY UsedNat
<1>2. UsedIn(agent'[s]) = 0
  BY DEF UsedIn
<1> QED BY <1>1, <1>2 DEF UsedFalls

\* A scrape leaves its pool, which may go with it.
LEMMA ReleaseOpens ==
  ASSUME OpenInv, DrainInv', NEW s \in SQLScrapes, release(s)
  PROVE  OpenInv'
<1>1. DrainInv /\ (crossed => crossed') /\ s \in Agents /\ s # Pinger
  BY AgentsFinite DEF OpenInv, release
<1>2. /\ PoolsNoMore /\ DOMAIN pools' \subseteq DOMAIN pools
      /\ \A a \in Agents : a # s => GoesOnAs(a)
      /\ agent'[s].at \in {"rests", "late"} /\ agent'[s].have = 0
  BY <1>1, ReleaseFewer
<1>3. \A a \in Agents : UsedFalls(a)
  BY <1>1, <1>2, AsWasOpens, NoneInUse
<1>4. \A x \in SQLScrapes : Stays(x)
  <2>1. Stays(s)
    BY <1>2 DEF Stays, Stages
  <2> QED BY <1>1, <1>2, <2>1, AsWasOpens, AgentsFinite
<1>5. GoneForgotten'
  BY <1>1, <1>2, PoolGone, AgentsFinite
<1> QED BY <1>1, <1>2, <1>3, <1>4, <1>5, OpenFollows

\* A scrape gets its pool, made now or before.
LEMMA AcquireOpens ==
  ASSUME OpenInv, DrainInv', NEW s \in SQLScrapes, NEW d \in Databases, acquire(s, d)
  PROVE  OpenInv'
<1>1. DrainInv /\ (crossed => crossed') /\ s \in Agents /\ s # Pinger /\ Pinger \in Agents
  BY AgentsFinite DEF OpenInv, acquire
<1>2. /\ PoolsNoMore /\ \A p \in DOMAIN pools' : Known(p) => p \in DOMAIN pools
      /\ Alone(s) /\ agent'[s].at = "waits" /\ agent'[s].have = 0
  BY <1>1, AcquireFewer
<1>3. UsedFalls(s)
  BY <1>1, <1>2, NoneInUse
<1>4. Stays(s)
  BY <1>2 DEF Stays, Stages
<1>5. GoneForgotten'
  <2> SUFFICES ASSUME agent'[Pinger].forgotten, agent'[Pinger].pool \in DOMAIN pools' PROVE FALSE
    BY DEF GoneForgotten
  <2>1. agent'[Pinger] = agent[Pinger]
    BY <1>1, <1>2 DEF Alone
  <2>2. agent[Pinger].pool \in PoolIds
    BY <2>1 DEF DrainInv, PoolsInv, SQLTyped
  <2>3. Known(agent[Pinger].pool)
    BY <1>1, <2>2, OfAgent, NoIdEmpty DEF KnownOf
  <2> QED BY <1>2, <2>1, <2>3 DEF OpenInv, GoneForgotten
<1> QED BY <1>1, <1>2, <1>3, <1>4, <1>5, OneOpens

-----------------------------------------------------------------------------
(* Steps that open a connection, or take one that is idle, or give one back. *)

\* An idle connection becomes one in use: as many are open, and no scrape counts.
LEMMA TakenOpens ==
  ASSUME OpenInv, DrainInv', NEW a \in Agents, Takes(a, agent[a].pool), UNCHANGED closed, Alone(a),
         agent'[a].pool = agent[a].pool, agent'[a].forgotten = agent[a].forgotten,
         agent'[a].have <= agent[a].have + 1,
         a \in SQLScrapes => agent'[a].at \notin {"placed"} \cup Stages
  PROVE  OpenInv'
<1> DEFINE p == agent[a].pool
<1>1. DrainInv /\ GoneForgotten
  BY DEF OpenInv
<1>2. PoolsNoMore /\ (crossed => crossed')
  BY <1>1, TakesFewer
<1>3. /\ p \in DOMAIN pools /\ IdleOf(p) > 0
      /\ pools' = [pools EXCEPT ![p].idle = pools[p].idle - 1]
      /\ crossed' = (crossed \/ pools[p].closed \/ Counting \ {a} # {})
  BY DEF Takes, IdleOf, KeepsIdle
<1>4. pools \in [DOMAIN pools -> PoolStates]
  BY <1>1 DEF DrainInv, PoolsInv, SQLTyped
<1>5. /\ DOMAIN pools' = DOMAIN pools
      /\ \A q \in DOMAIN pools : pools'[q].closed = pools[q].closed
      /\ \A q \in DOMAIN pools : pools'[q].idle = IF q = p THEN pools[p].idle - 1 ELSE pools[q].idle
  BY <1>3, <1>4 DEF PoolStates
<1>6. Living' = Living
  BY <1>5 DEF Living
<1>7. \A x \in SQLScrapes : Stays(x)
  <2>1. a \in SQLScrapes => Stays(a)
    BY DEF Stays
  <2> QED BY <2>1, OthersStay
<1>8. GoneForgotten'
  BY <1>1, <1>5, AgentsFinite DEF GoneForgotten, Alone
<1>9. NoneComes
  <2>1. ASSUME NEW q \in Living', Touched(q)' PROVE Touched(q)
    <3>1. IdleOf(q)' <= IdleOf(q) /\ IdleOf(q) \in Nat /\ IdleOf(q)' \in Nat
      BY <1>1, <1>2, LivingFinite DEF PoolsNoMore
    <3>2. CASE IdleOf(q)' > 0
      BY <3>1, <3>2 DEF Touched
    <3>3. ASSUME NEW b \in Agents, agent'[b].pool = q, agent'[b].have > 0 PROVE Touched(q)
      <4>1. CASE b = a
        BY <1>3, <3>3, <4>1 DEF Touched
      <4>2. CASE b # a
        BY <3>3, <4>2 DEF Touched, Alone
      <4> QED BY <4>1, <4>2
    <3> QED BY <2>1, <3>2, <3>3 DEF Touched
  <2> QED BY <1>2, <2>1 DEF NoneComes, PoolsNoMore
<1>10. ASSUME ~crossed' PROVE LoadsFall
  <2>1. p \in Living /\ Counting \ {a} = {}
    BY <1>3, <1>10 DEF Living
  <2>2. Counting' = {}
    <3>1. \A x \in SQLScrapes : x # a => agent'[x] = agent[x]
      BY AgentsFinite DEF Alone
    <3> QED BY <2>1, <3>1 DEF Counting, Stages
  <2>3. \A q : q # p => IdleOf(q)' = IdleOf(q)
    BY <1>5 DEF IdleOf
  <2>4. IdleOf(p)' = IdleOf(p) - 1 /\ IdleOf(p) \in Nat
    BY <1>1, <1>3, <1>5, LivingFinite DEF IdleOf
  <2>5. PICK o : o = p
    OBVIOUS
  <2>6. PICK m, n, k, l \in Nat :
          /\ m = IdleIn(Living \ {}) /\ n = IdleIn(Living \ {})' /\ n + 1 = m
          /\ k = Used /\ l = Used'
    <3>1. /\ IdleIn(Living \ {}) \in Nat /\ IdleIn(Living \ {})' \in Nat
          /\ o \in Living \ {} => IdleIn(Living \ {})' + IdleOf(o) = IdleIn(Living \ {}) + IdleOf(o)'
      BY <1>1, <1>6, <2>3, <2>5, OneIdleMoves
    <3>2. IdleOf(o)' = IdleOf(o) - 1 /\ IdleOf(o) \in Nat /\ o \in Living
      BY <2>1, <2>4, <2>5
    <3> HIDE DEF p
    <3> QED BY <1>1, <3>1, <3>2, UsedNat
  <2>7. l <= k + 1
    <3>1. Used' + UsedIn(agent[a]) = Used + UsedIn(agent'[a])
      BY <1>1, UsedMoves
    <3>2. UsedIn(agent[a]) \in Nat /\ UsedIn(agent'[a]) \in Nat
      BY <1>1, UsedNat
    <3>3. UsedIn(agent'[a]) <= UsedIn(agent[a]) + 1
      BY <3>2 DEF UsedIn
    <3> QED BY <2>6, <3>1, <3>2, <3>3
  <2>8. LoadBut({}) = k + m /\ LoadBut({})' = l + n
    BY <2>6 DEF LoadBut
  <2>9. LoadBut({})' <= LoadBut({})
    BY <2>6, <2>7, <2>8
  <2> QED BY <2>2, <2>9 DEF LoadsFall
<1> QED BY <1>2, <1>7, <1>8, <1>9, <1>10, OpenStays

\* The round takes an idle connection, or finds none.
LEMMA PingConnOpens == ASSUME OpenInv, DrainInv', pingConn PROVE OpenInv'
<1>1. Pinger \in Agents /\ Pinger \notin SQLScrapes /\ agent[Pinger] \in AgentStates /\ UNCHANGED closed
  <2>1. UNCHANGED closed
    BY DEF pingConn
  <2> QED BY <2>1, AgentsFinite, SQLAssumption, OfAgent DEF OpenInv
<1>2. CASE Pinged /\ UNCHANGED <<pools, crossed>>
  BY <1>1, <1>2, PingedOpens
<1>3. CASE /\ Takes(Pinger, agent[Pinger].pool)
           /\ Becomes(Pinger, [agent[Pinger] EXCEPT !.at = "takes", !.have = @ + 1])
  <2>1. PICK st : st = [agent[Pinger] EXCEPT !.at = "takes", !.have = @ + 1]
    OBVIOUS
  <2>2. /\ st.pool = agent[Pinger].pool /\ st.forgotten = agent[Pinger].forgotten
        /\ st.have = agent[Pinger].have + 1 /\ agent[Pinger].have \in Nat
    BY <1>1, <2>1 DEF AgentStates
  <2>3. agent'[Pinger] = st /\ Alone(Pinger)
    BY <1>1, <1>3, <2>1 DEF Becomes, Alone, OpenInv, DrainInv, AgentsFit
  <2>4. agent'[Pinger].have <= agent[Pinger].have + 1
    BY <2>2, <2>3
  <2> QED BY <1>1, <1>3, <2>2, <2>3, <2>4, TakenOpens
<1> QED BY <1>2, <1>3 DEF pingConn

\* A scrape takes an idle connection, or fails.
LEMMA ConnectTakesOpens ==
  ASSUME OpenInv, DrainInv', NEW s \in SQLScrapes, connect(s),
         Takes(s, agent[s].pool) \/ At(s, "over")
  PROVE  OpenInv'
<1>1. s \in Agents /\ agent[s] \in AgentStates /\ UNCHANGED closed
  <2>1. UNCHANGED closed
    BY DEF connect
  <2> QED BY <2>1, AgentsFinite, OfAgent DEF OpenInv
<1>2. CASE At(s, "over") /\ UNCHANGED <<pools, crossed>>
  <2>1. "over" \notin {"placed"} \cup Stages
    BY DEF Stages
  <2> QED BY <1>1, <1>2, <2>1, OnlyAtOpens
<1>3. CASE Takes(s, agent[s].pool) /\ Becomes(s, [agent[s] EXCEPT !.at = "uses", !.have = 1])
  <2>1. PICK st : st = [agent[s] EXCEPT !.at = "uses", !.have = 1]
    OBVIOUS
  <2>2. /\ st.at = "uses" /\ st.pool = agent[s].pool /\ st.forgotten = agent[s].forgotten
        /\ st.have = 1 /\ agent[s].have \in Nat
    BY <1>1, <2>1 DEF AgentStates
  <2>3. agent'[s] = st /\ Alone(s)
    BY <1>1, <1>3, <2>1 DEF Becomes, Alone, OpenInv, DrainInv, AgentsFit
  <2>4. agent'[s].have <= agent[s].have + 1 /\ agent'[s].at \notin {"placed"} \cup Stages
    BY <2>2, <2>3 DEF Stages
  <2> QED BY <1>1, <1>3, <2>2, <2>3, <2>4, TakenOpens
<1>4. IdleOf(agent[s].pool) > 0 => ~(pools[agent[s].pool].idle = 0)
  BY DEF IdleOf
<1> QED BY <1>2, <1>3, <1>4 DEF connect, Takes

\* One fewer is in use, and one more idle, at most.
LEMMA ReturnedOpens ==
  ASSUME OpenInv, DrainInv', NEW a \in Agents, Returned(a), UNCHANGED closed, crossed => crossed',
         agent[a].have > 0
  PROVE  OpenInv'
<1>1. DrainInv /\ agent[a] \in AgentStates /\ GoneForgotten
  BY OfAgent DEF OpenInv
<1>2. PICK p : p = agent[a].pool
  OBVIOUS
<1>3. /\ Living' = Living /\ \A q : Known(q)' = Known(q)
      /\ IdleOf(p)' <= IdleOf(p) + 1 /\ \A q : q # p => IdleOf(q)' = IdleOf(q)
      /\ DOMAIN pools' = DOMAIN pools /\ (p \notin DOMAIN pools => UNCHANGED pools)
  BY <1>1, <1>2, ReturnedIs
<1>4. PICK st : st = [Looked(agent[a]) EXCEPT !.at = "over", !.have = @ - 1]
  OBVIOUS
<1>5. /\ st.at = "over" /\ st.pool = p /\ st.forgotten = agent[a].forgotten /\ st.have = agent[a].have - 1
  BY <1>1, <1>2, <1>4 DEF Looked, AgentStates
<1>6. agent'[a] = st /\ Alone(a)
  BY <1>1, <1>4 DEF Returned, Becomes, Alone, DrainInv, AgentsFit
<1>7. GoneForgotten'
  <2>1. agent'[a].forgotten => agent[a].forgotten /\ agent'[a].pool = agent[a].pool
    BY <1>2, <1>5, <1>6
  <2> QED BY <1>3, <1>6, <2>1, GoneStays
<1>8. \A x \in SQLScrapes : Stays(x)
  <2>1. Stays(a)
    BY <1>5, <1>6 DEF Stays, Stages
  <2> QED BY <1>6, <2>1, OthersStay
<1>9. NoneComes
  <2>1. ASSUME NEW q \in Living', Touched(q)' PROVE Touched(q)
    <3>1. CASE q = p
      BY <1>2, <3>1 DEF Touched
    <3>2. CASE q # p
      <4>1. IdleOf(q)' = IdleOf(q)
        BY <1>3, <3>2
      <4>2. \A b \in Agents : agent'[b].pool = q => agent'[b] = agent[b]
        BY <1>5, <1>6, <3>2 DEF Alone
      <4> QED BY <2>1, <4>1, <4>2 DEF Touched
    <3> QED BY <3>1, <3>2
  <2> QED BY <1>3, <2>1 DEF NoneComes, StillKnown
<1>10. ASSUME NEW T PROVE LoadBut(T)' <= LoadBut(T)
  <2>1. PICK m, n, k, l, i, j \in Nat :
          /\ m = IdleIn(Living \ T) /\ n = IdleIn(Living \ T)' /\ k = Used /\ l = Used'
          /\ i = IdleOf(p) /\ j = IdleOf(p)'
    BY <1>1, UsedNat, LoadNat, LivingFinite
  <2>2. /\ p \in Living \ T => n + i = m + j
        /\ p \notin Living \ T => n = m
        /\ j <= i + 1
    BY <1>1, <1>3, <2>1, OneIdleMoves
  <2>3. n <= m + 1 /\ (UNCHANGED pools => n <= m)
    <3>1. UNCHANGED pools => j = i
      BY <2>1 DEF IdleOf
    <3> QED BY <2>1, <2>2, <3>1
  <2>4. PICK u, v \in Nat : u = UsedIn(agent[a]) /\ v = UsedIn(st) /\ l + u = k + v
    <3>1. Used' + UsedIn(agent[a]) = Used + UsedIn(agent'[a])
      BY <1>1, <1>6, UsedMoves
    <3>2. UsedIn(agent[a]) \in Nat /\ UsedIn(agent'[a]) \in Nat
      BY <1>1, UsedNat
    <3> QED BY <1>6, <2>1, <3>1, <3>2
  <2>5. CASE agent[a].forgotten
    <3>1. UNCHANGED pools
      <4>1. a = Pinger
        <5>1. Fits(a, agent[a])
          BY <1>1, OfAgent
        <5> QED BY <2>5, <5>1 DEF Fits
      <4> QED BY <1>1, <1>2, <1>3, <2>5, <4>1 DEF GoneForgotten
    <3>2. u = 0 /\ v = 0
      BY <1>5, <2>4, <2>5 DEF UsedIn
    <3>3. l = k
      BY <2>1, <2>4, <3>2
    <3> QED BY <2>1, <2>3, <3>1, <3>3 DEF LoadBut
  <2>6. CASE ~agent[a].forgotten
    <3>1. agent[a].have \in Nat
      BY <1>1 DEF AgentStates
    <3>2. u = agent[a].have /\ v = agent[a].have - 1
      BY <1>5, <2>4, <2>6 DEF UsedIn
    <3>3. l + 1 = k
      BY <2>1, <2>4, <3>1, <3>2
    <3> QED BY <2>1, <2>3, <3>3 DEF LoadBut
  <2> QED BY <2>5, <2>6
<1>11. LoadsFall
  BY <1>10 DEF LoadsFall
<1> QED BY <1>7, <1>8, <1>9, <1>11, OpenStays

\* A connection goes back to its pool, or is to be closed.
LEMMA GivenOpens ==
  ASSUME OpenInv, DrainInv', NEW a \in Agents, keepIdle(a) \/ returnConn(a)
  PROVE  OpenInv'
<1>1. /\ Fits(a, agent[a]) /\ agent[a] \in AgentStates
      /\ agent[a].at \in {"tallies", "returns"} /\ UNCHANGED closed /\ (crossed => crossed')
  <2>1. agent[a].at \in {"tallies", "returns"} /\ UNCHANGED closed /\ (crossed => crossed')
    BY DEF keepIdle, returnConn
  <2> QED BY <2>1, OfAgent DEF OpenInv
<1>2. agent[a].have > 0
  BY <1>1 DEF Fits, Holding
<1>3. CASE Returned(a)
  BY <1>1, <1>2, <1>3, ReturnedOpens
<1>4. CASE ~Returned(a)
  <2>1. keepIdle(a) /\ UNCHANGED pools /\ Becomes(a, [Looked(agent[a]) EXCEPT !.at = "discards"])
    BY <1>4 DEF keepIdle, returnConn
  <2> QED BY <2>1, GivesOpens
<1> QED BY <1>3, <1>4

-----------------------------------------------------------------------------
(* A scrape that makes room for its connection. *)

\* It goes on covering those it does, or starts to, all there are.
RoomFor(s, st, all) ==
  \A C \in SUBSET all :
    Held(s, C, agent[s]) => (s \in C /\ Held(s, C, st)') \/ Held(s, all, st)'

\* One scrape goes on among those to have a connection, and the others stay.
LEMMA AloneOpens ==
  ASSUME NEW s \in SQLScrapes, Alone(s), s \in Pending, s \in Pending'
  PROVE  /\ Pending' = Pending
         /\ \A x \in SQLScrapes : x # s => agent'[x] = agent[x] /\ SameStage(x) /\ LooksOn(x)
<1>1. \A x \in SQLScrapes : x # s => agent'[x] = agent[x]
  BY AgentsFinite DEF Alone
<1>2. Pending' = Pending
  BY <1>1 DEF Pending
<1> QED BY <1>1, <1>2 DEF SameStage, LooksOn

\* A step of a scrape to its connection: it covers those it did, or all there are.
LEMMA OneRooms ==
  ASSUME OpenInv, DrainInv', NoneComes, LoadsFall, GoneForgotten', crossed => crossed',
         NEW s \in SQLScrapes, s \in Pending, NEW st, Becomes(s, st), st.at \in Stages \ {"looks"},
         st.pool = agent[s].pool, st.at \in {"counts", "rooms"} => st.pool \notin st.others \cup st.todo,
         NEW all, all = Pending, ~crossed' => RoomFor(s, st, all)
  PROVE  OpenInv'
<1>0. agent'[s] = st /\ Alone(s)
  BY AgentsFinite DEF Becomes, Alone, OpenInv, DrainInv, AgentsFit
<1>1. s \in Pending'
  BY <1>0 DEF Pending
<1>2. /\ Pending' = all
      /\ \A x \in SQLScrapes : x # s => agent'[x] = agent[x] /\ SameStage(x) /\ LooksOn(x)
  BY <1>0, <1>1, AloneOpens
<1>3. LooksFit'
  <2>1. LooksOn(s)
    BY <1>0 DEF LooksOn, Stages, LookFits
  <2> QED BY <1>2, <2>1, LooksStay
<1>4. ASSUME ~crossed' PROVE OpenHeld' /\ \E cov : Covers(cov)'
  <2>1. DrainInv /\ OpenHeld /\ \E cov : Covers(cov)
    BY <1>4 DEF OpenInv
  <2>2. PICK cov : Covers(cov)
    BY <2>1
  <2>3. \A x \in SQLScrapes : cov[x] \in SUBSET all /\ Held(x, cov[x], agent[x])
    BY <2>2 DEF Covers
  <2>4. PICK C \in SUBSET all : (C = cov[s] \/ C = all) /\ s \in C /\ Held(s, C, st)'
    BY <1>4, <2>3 DEF RoomFor
  <2>5. PICK new : new = [x \in SQLScrapes |-> IF x = s THEN C ELSE cov[x]]
    OBVIOUS
  <2>6. new \in [SQLScrapes -> SUBSET all] /\ new[s] = C /\ \A x \in SQLScrapes : x # s => new[x] = cov[x]
    BY <2>3, <2>5
  <2>7. ASSUME NEW x \in SQLScrapes PROVE Held(x, new[x], agent[x])'
    <3>1. CASE x = s
      <4>1. Held(s, C, agent[s])'
        BY <1>0, <2>4
      <4> QED BY <2>6, <3>1, <4>1
    <3>2. CASE x # s
      <4>1. cov[x] \in SUBSET Pending /\ Held(x, cov[x], agent[x]) /\ SameStage(x)
        BY <1>2, <2>3, <3>2
      <4>2. Held(x, cov[x], agent[x])'
        BY <4>1, HeldStays
      <4> QED BY <2>6, <3>2, <4>2
    <3> QED BY <3>1, <3>2
  <2>8. Ordered(new)'
    <3> SUFFICES ASSUME NEW u \in SQLScrapes, NEW v \in SQLScrapes, u \in new[u], v \in new[v]
                 PROVE  new[u] \subseteq new[v] \/ new[v] \subseteq new[u]
      BY DEF Ordered
    <3>1. CASE C = all /\ (u = s \/ v = s)
      BY <2>6, <3>1
    <3>2. CASE C = cov[s] \/ ~(u = s \/ v = s)
      <4>1. new[u] = cov[u] /\ new[v] = cov[v]
        BY <2>6, <3>2
      <4> QED BY <2>2, <4>1 DEF Covers, Ordered
    <3> QED BY <2>4, <3>1, <3>2
  <2>9. Told(new)'
    <3> SUFFICES ASSUME NEW x \in SQLScrapes, NEW y \in SQLScrapes, agent'[x].at = "looks", x \notin new[x],
                        y \in new[y], agent'[y].pool \in Unseen(agent[x])'
                 PROVE  x \in new[y]
      BY DEF Told
    <3>1. x # s /\ agent'[x] = agent[x] /\ x \notin cov[x] /\ agent'[y].pool = agent[y].pool
      BY <1>0, <1>2, <2>4, <2>6
    <3>2. x \in all
      BY <1>2, <3>1 DEF Pending, Stages
    <3>3. CASE y = s /\ C = all
      BY <2>6, <3>2, <3>3
    <3>4. CASE ~(y = s /\ C = all)
      <4>1. new[y] = cov[y]
        BY <2>4, <2>6, <3>4
      <4>2. agent[y].pool \in Unseen(agent[x])
        <5>1. PICK u : u = agent[x]
          OBVIOUS
        <5>2. agent[y].pool \in Unseen(u)'
          BY <3>1, <5>1 DEF Unseen
        <5>3. LookFits(u) /\ u.at = "looks"
          BY <3>1, <5>1 DEF OpenInv, LooksFit
        <5>4. Known(agent[y].pool)
          <6>1. agent[y].pool \in PoolIds
            BY <5>2 DEF Unseen, Living, DrainInv, PoolsInv, SQLTyped
          <6>2. y \in Agents /\ agent[y].pool # <<>>
            BY <6>1, AgentsFinite, NoIdEmpty
          <6> QED BY <2>1, <6>2, OfAgent DEF KnownOf
        <5> QED BY <2>1, <5>1, <5>2, <5>3, <5>4, UnseenStays
      <4>3. x \in cov[y]
        BY <2>2, <3>1, <4>1, <4>2 DEF Covers, Told
      <4> QED BY <4>1, <4>3
    <3> QED BY <3>3, <3>4
  <2>10. Covers(new)'
    BY <1>2, <2>6, <2>7, <2>8, <2>9 DEF Covers
  <2>11. OpenHeld'
    BY <2>1, OpenFalls DEF LoadsFall
  <2> QED BY <2>10, <2>11
<1> QED BY <1>3, <1>4 DEF OpenInv

\* It has seen all the pools there are, and covers none yet.
LEMMA LookOpens ==
  ASSUME OpenInv, DrainInv', UNCHANGED pools, UNCHANGED closed, crossed => crossed',
         NEW s \in SQLScrapes, agent[s].at = "placed", NEW st, Becomes(s, st),
         st.at = "looks", st.pool = agent[s].pool, st.others = Living \ {agent[s].pool},
         st.todo = st.others, st.have = agent[s].have, st.forgotten = agent[s].forgotten
  PROVE  OpenInv'
<1>1. DrainInv /\ s \in Agents /\ s # Pinger /\ LooksFit
  BY AgentsFinite DEF OpenInv
<1>2. agent'[s] = st /\ Alone(s)
  BY <1>1 DEF Becomes, Alone, DrainInv, AgentsFit
<1>3. s \in Pending /\ s \in Pending'
  BY <1>2 DEF Pending, Stages
<1>4. /\ Pending' = Pending
      /\ \A x \in SQLScrapes : x # s => agent'[x] = agent[x] /\ SameStage(x) /\ LooksOn(x)
  BY <1>2, <1>3, AloneOpens
<1>5. NoneComes /\ LoadsFall
  <2>1. UsedIn(agent[s]) \in Nat
    BY <1>1, UsedNat
  <2>2. UsedFalls(s)
    BY <1>2, <2>1 DEF UsedFalls, UsedIn
  <2>3. \A b \in Agents : UsedFalls(b)
    BY <1>1, <1>2, <2>2, OthersFall
  <2> QED BY <1>1, <2>3, SamePools, NoMoreOpen
<1>6. GoneForgotten'
  BY <1>1, <1>2, GoneStays
<1>7. Living' = Living /\ (\A p : Known(p)' = Known(p)) /\ \A p \in Living : Known(p)
  <2>1. \A p \in DOMAIN pools : Known(p)
    BY <1>1 DEF DrainInv, IdsFit
  <2> QED BY <2>1, SameKnown DEF Living
<1>8. \A u : Unseen(u)' = Unseen(u)
  BY <1>7 DEF Unseen
<1>9. Unseen(st) = {}
  BY DEF Unseen
<1>10. LooksFit'
  <2>1. ASSUME NEW x \in SQLScrapes PROVE LookFits(agent[x])'
    <3>1. CASE x = s
      <4>1. \A q \in st.others : Known(q)'
        BY <1>7
      <4> QED BY <1>2, <3>1, <4>1 DEF LookFits
    <3>2. CASE x # s
      <4>1. LookFits(agent[x]) /\ agent'[x] = agent[x]
        BY <1>1, <1>4, <3>2 DEF LooksFit
      <4> QED BY <1>7, <4>1 DEF LookFits
    <3> QED BY <3>1, <3>2
  <2>2. ASSUME NEW x \in SQLScrapes, NEW y \in SQLScrapes PROVE SeenFirst(agent[x], agent[y])'
    <3>1. PICK u, v : u = agent'[x] /\ v = agent'[y]
      OBVIOUS
    <3>2. CASE x = s \/ y = s
      <4>1. Unseen(u) = {} \/ Unseen(v) = {}
        BY <1>2, <1>9, <3>1, <3>2
      <4>2. SeenFirst(u, v)
        BY <4>1 DEF SeenFirst
      <4> QED BY <1>8, <3>1, <4>2 DEF SeenFirst
    <3>3. CASE x # s /\ y # s
      <4>1. u = agent[x] /\ v = agent[y] /\ SeenFirst(agent[x], agent[y])
        BY <1>1, <1>4, <3>1, <3>3 DEF LooksFit
      <4>2. SeenFirst(u, v)
        BY <4>1
      <4> QED BY <1>8, <3>1, <4>2 DEF SeenFirst
    <3> QED BY <3>2, <3>3
  <2> QED BY <2>1, <2>2 DEF LooksFit
<1>11. ASSUME ~crossed' PROVE OpenHeld' /\ \E cov : Covers(cov)'
  <2>1. OpenHeld /\ \E cov : Covers(cov)
    BY <1>11 DEF OpenInv
  <2>2. PICK cov : Covers(cov)
    BY <2>1
  <2>3. \A x \in SQLScrapes : cov[x] \in SUBSET Pending /\ Held(x, cov[x], agent[x])
    BY <2>2 DEF Covers
  <2>4. PICK new : new = [x \in SQLScrapes |-> IF x = s THEN {} ELSE cov[x]]
    OBVIOUS
  <2>5. new \in [SQLScrapes -> SUBSET Pending] /\ new[s] = {} /\ \A x \in SQLScrapes : x # s => new[x] = cov[x]
    BY <2>3, <2>4
  <2>6. ASSUME NEW x \in SQLScrapes PROVE Held(x, new[x], agent[x])'
    <3>1. CASE x = s
      <4>1. Looking(s, {}, st)'
        BY <1>8, <1>9 DEF Looking
      <4>2. Held(s, {}, st)'
        BY <4>1 DEF Held
      <4> QED BY <1>2, <2>5, <3>1, <4>2 DEF Held, Looking, Unseen
    <3>2. CASE x # s
      <4>1. cov[x] \in SUBSET Pending /\ Held(x, cov[x], agent[x]) /\ SameStage(x)
        BY <1>4, <2>3, <3>2
      <4>2. Held(x, cov[x], agent[x])'
        BY <1>5, <4>1, HeldStays
      <4> QED BY <2>5, <3>2, <4>2
    <3> QED BY <3>1, <3>2
  <2>7. Ordered(new)'
    <3> SUFFICES ASSUME NEW u \in SQLScrapes, NEW v \in SQLScrapes, u \in new[u], v \in new[v]
                 PROVE  new[u] \subseteq new[v] \/ new[v] \subseteq new[u]
      BY DEF Ordered
    <3>1. new[u] = cov[u] /\ new[v] = cov[v]
      BY <2>5
    <3> QED BY <2>2, <3>1 DEF Covers, Ordered
  <2>8. Told(new)'
    <3> SUFFICES ASSUME NEW x \in SQLScrapes, NEW y \in SQLScrapes, agent'[x].at = "looks", x \notin new[x],
                        y \in new[y], agent'[y].pool \in Unseen(agent[x])'
                 PROVE  x \in new[y]
      BY DEF Told
    <3>1. y # s /\ new[y] = cov[y] /\ agent'[y] = agent[y]
      BY <1>4, <2>5
    <3>2. PICK u : u = agent'[x]
      OBVIOUS
    <3>3. agent[y].pool \in Unseen(u)
      BY <1>8, <3>1, <3>2 DEF Unseen
    <3>4. x # s
      BY <1>2, <1>9, <3>2, <3>3
    <3>5. agent'[x] = agent[x] /\ x \notin cov[x]
      BY <1>4, <2>5, <3>4
    <3> QED BY <2>2, <3>1, <3>2, <3>3, <3>5 DEF Covers, Told
  <2>9. Covers(new)'
    BY <1>4, <2>5, <2>6, <2>7, <2>8 DEF Covers
  <2>10. OpenHeld'
    BY <1>1, <1>5, <2>1, OpenFalls DEF LoadsFall
  <2> QED BY <2>9, <2>10
<1> QED BY <1>10, <1>11, <1>6 DEF OpenInv

\* One connection more is open, for which there was a place among those covered.
LEMMA OneMoreLoad ==
  ASSUME DrainInv, DrainInv', UNCHANGED pools, NEW s \in SQLScrapes, Alone(s),
         UsedIn(agent[s]) = 0, UsedIn(agent'[s]) = 1, NEW T
  PROVE  LoadBut(T) \in Nat /\ LoadBut(T)' = LoadBut(T) + 1
<1>1. s \in Agents
  BY AgentsFinite
<1>3. Used' + UsedIn(agent[s]) = Used + UsedIn(agent'[s])
  BY <1>1, UsedMoves
<1>4. PICK k, l \in Nat : k = Used /\ l = Used'
  BY UsedNat
<1>5. PICK n \in Nat : n = IdleIn(Living \ T)
  BY LoadNat
<1>6. IdleIn(Living \ T)' = IdleIn(Living \ T)
  BY DEF IdleIn, Living, IdleOf
<1>7. l = k + 1
  <2>1. Used' + 0 = Used + 1
    BY <1>3
  <2>2. l + 0 = k + 1
    BY <1>4, <2>1
  <2> QED BY <2>2
<1> QED BY <1>4, <1>5, <1>6, <1>7 DEF LoadBut

\* The place that one of those covered had is taken by its connection.
LEMMA RoomFilled ==
  ASSUME NEW C \in SUBSET SQLScrapes, NEW s \in C, NEW T, NEW n \in Int,
         LoadBut(T) \in Nat, LoadBut(T)' = LoadBut(T) + 1, Room(C, T, n)
  PROVE  Room(C \ {s}, T, n)'
<1>1. IsFiniteSet(C)
  BY SQLAssumption, FS_Subset
<1>2. PICK c, d \in Nat : c = Cardinality(C) /\ d = Cardinality(C \ {s}) /\ d + 1 = c
  BY <1>1, FS_RemoveElement, FS_CardinalityType, FS_Subset
<1>3. PICK k \in Nat : k = LoadBut(T) /\ LoadBut(T)' = k + 1
  OBVIOUS
<1>4. MaxPerTarget \in Nat /\ k + c <= MaxPerTarget + n
  BY <1>2, <1>3, SQLAssumption DEF Room
<1>5. (k + 1) + d <= MaxPerTarget + n
  BY <1>2, <1>4
<1> QED BY <1>2, <1>3, <1>5 DEF Room

\* As it is for those that a scrape covers whom another covers with it.
LEMMA RoomWithin ==
  ASSUME DrainInv, NEW D \in SUBSET SQLScrapes, NEW s \in D, NEW C \in SUBSET (D \ {s}), NEW T,
         \A V : LoadBut(V) \in Nat /\ LoadBut(V)' = LoadBut(V) + 1, Room(D, {}, 0)
  PROVE  Room(C \ {s}, T, 0)'
<1>1. Room(D \ {s}, {}, 0)'
  BY RoomFilled
<1>2. IsFiniteSet(D \ {s}) /\ C \ {s} \in SUBSET (D \ {s})
  BY SQLAssumption, FS_Subset
<1>3. PICK c, d \in Nat : c = Cardinality(C \ {s}) /\ d = Cardinality(D \ {s}) /\ c <= d
  BY <1>2, FS_Subset, FS_CardinalityType
<1>4. LoadBut(T) <= LoadBut({})
  BY LoadLess
<1>5. PICK k, l \in Nat : k = LoadBut({})' /\ l = LoadBut(T)' /\ l <= k
  BY <1>4
<1>6. MaxPerTarget \in Nat /\ k + d <= MaxPerTarget + 0
  BY <1>1, <1>3, <1>5, SQLAssumption DEF Room
<1>7. l + c <= MaxPerTarget + 0
  BY <1>3, <1>5, <1>6
<1> QED BY <1>3, <1>5, <1>7 DEF Room

\* A scrape opens a connection of a pool that keeps none idle: who looks and
\* has not seen that pool covers from then on those that the scrape did.
LEMMA NewOpens ==
  ASSUME OpenInv, DrainInv', UNCHANGED pools, UNCHANGED closed, UNCHANGED crossed,
         NEW s \in SQLScrapes, agent[s].at = "connects", NEW st, Becomes(s, st),
         st.at = "uses", st.have = 1, st.forgotten = agent[s].forgotten,
         NEW p, p = agent[s].pool, st.pool = p, IdleOf(p) = 0
  PROVE  OpenInv'
<1>1. DrainInv /\ s \in Agents /\ s # Pinger /\ LooksFit
  BY AgentsFinite DEF OpenInv
<1>2. agent'[s] = st /\ Alone(s)
  BY <1>1 DEF Becomes, Alone, DrainInv, AgentsFit
<1>3. agent[s].have = 0 /\ ~agent'[s].forgotten
  <2>1. Fits(s, agent[s])
    BY <1>1, OfAgent
  <2> QED BY <1>1, <1>2, <2>1 DEF Fits, Holding
<1>4. ASSUME NEW x \in SQLScrapes, x # s PROVE agent'[x] = agent[x] /\ x \in Agents
  BY <1>2, <1>4, AgentsFinite DEF Alone
<1>5. \A V : LoadBut(V) \in Nat /\ LoadBut(V)' = LoadBut(V) + 1
  <2>1. UsedIn(agent[s]) = 0 /\ UsedIn(agent'[s]) = 1
    BY <1>2, <1>3 DEF UsedIn
  <2> QED BY <1>1, <1>2, <2>1, OneMoreLoad
<1>6. /\ Living' = Living /\ (\A q : Known(q)' = Known(q)) /\ (\A q : IdleOf(q)' = IdleOf(q))
      /\ \A u : Unseen(u)' = Unseen(u)
  BY SameKnown DEF Living, IdleOf, Unseen
<1>7. s \in Pending /\ Pending' = Pending \ {s}
  BY <1>2, <1>4 DEF Pending, Stages
<1>8. LooksFit'
  <2>1. ASSUME NEW x \in SQLScrapes PROVE LookFits(agent[x])'
    <3>1. CASE x = s
      BY <1>2, <3>1 DEF LookFits
    <3>2. CASE x # s
      <4>1. LookFits(agent[x]) /\ agent'[x] = agent[x]
        BY <1>1, <1>4, <3>2 DEF LooksFit
      <4> QED BY <1>6, <4>1 DEF LookFits
    <3> QED BY <3>1, <3>2
  <2>2. ASSUME NEW x \in SQLScrapes, NEW y \in SQLScrapes PROVE SeenFirst(agent[x], agent[y])'
    <3>1. PICK u, v : u = agent'[x] /\ v = agent'[y]
      OBVIOUS
    <3>2. CASE x = s \/ y = s
      <4>1. u.at # "looks" \/ v.at # "looks"
        BY <1>2, <3>1, <3>2
      <4> QED BY <3>1, <4>1 DEF SeenFirst
    <3>3. CASE x # s /\ y # s
      <4>1. SeenFirst(u, v)
        BY <1>1, <1>4, <3>1, <3>3 DEF LooksFit
      <4> QED BY <1>6, <3>1, <4>1 DEF SeenFirst
    <3> QED BY <3>2, <3>3
  <2> QED BY <2>1, <2>2 DEF LooksFit
<1>9. GoneForgotten'
  BY <1>1, <1>2, <1>3, GoneStays
<1>10. ASSUME NEW q, q # p, Touched(q)' PROVE Touched(q)
  <2>1. \A b \in Agents : agent'[b].pool = q => agent'[b] = agent[b]
    BY <1>2, <1>10 DEF Alone
  <2> QED BY <1>6, <1>10, <2>1 DEF Touched
<1>11. ASSUME ~crossed' PROVE OpenHeld' /\ \E cov : Covers(cov)'
  <2>1. PICK cov : Covers(cov)
    BY <1>11 DEF OpenInv
  <2>20. PICK D, unaware :
           /\ D = cov[s]
           /\ unaware = {x \in SQLScrapes : agent[x].at = "looks" /\ x \notin cov[x] /\ p \in Unseen(agent[x])}
    OBVIOUS
  <2>21. PICK new : new = [x \in SQLScrapes |-> IF x \in unaware THEN D \ {s} ELSE cov[x] \ {s}]
    OBVIOUS
  <2>2. \A x \in SQLScrapes : cov[x] \in SUBSET Pending /\ Held(x, cov[x], agent[x])
    BY <2>1 DEF Covers
  <2>3. D \in SUBSET SQLScrapes /\ s \in D /\ Room(D, {p}, 0)
    BY <2>2, <2>20 DEF Held, Pending
  <2>4. Room(D, {}, 0)
    <3>1. \A q \in Living \ {} : q \notin {p} \/ IdleOf(q) = 0
      OBVIOUS
    <3>2. LoadBut({}) <= LoadBut({p})
      BY <1>1, <3>1, LoadLess
    <3>3. PICK k, l \in Nat : k = LoadBut({}) /\ l = LoadBut({p}) /\ k <= l
      BY <1>5, <3>2
    <3>4. PICK d \in Nat : d = Cardinality(D)
      BY <2>3, SQLAssumption, FS_Subset, FS_CardinalityType
    <3>5. MaxPerTarget \in Nat /\ l + d <= MaxPerTarget + 0
      BY <2>3, <3>3, <3>4, SQLAssumption DEF Room
    <3>6. k + d <= MaxPerTarget + 0
      BY <3>3, <3>4, <3>5
    <3> QED BY <3>3, <3>4, <3>6 DEF Room
  <2>5. \A x \in SQLScrapes : new[x] = IF x \in unaware THEN D \ {s} ELSE cov[x] \ {s}
    BY <2>21
  <2>6. new \in [SQLScrapes -> SUBSET Pending']
    BY <1>7, <2>2, <2>5, <2>20, <2>21
  <2>7. \A x \in unaware : x \in D /\ x # s
    BY <2>1, <2>3, <2>20 DEF Covers, Told
  <2>8. \A x \in SQLScrapes : x \in new[x] => \E w \in SQLScrapes : w \in cov[w] /\ new[x] = cov[w] \ {s}
    BY <2>3, <2>5, <2>20
  <2>9. \A x \in SQLScrapes : x \in cov[x] => s \in cov[x] \/ cov[x] \in SUBSET (D \ {s})
    BY <2>1, <2>3, <2>20 DEF Covers, Ordered
  <2>10. \A x \in SQLScrapes : x \in unaware <=>
           agent[x].at = "looks" /\ x \notin cov[x] /\ p \in Unseen(agent[x])
    BY <2>20
  <2>11. ASSUME NEW x \in SQLScrapes PROVE Held(x, new[x], agent[x])'
    <3>1. CASE x = s
      BY <1>2, <3>1 DEF Held
    <3>2. CASE x \in unaware
      <4>1. x \in D /\ x # s /\ agent'[x] = agent[x] /\ agent[x].at = "looks"
        BY <1>4, <2>7, <2>10, <3>2
      <4>2. new[x] = D \ {s} /\ x \in new[x]
        BY <2>5, <3>2, <4>1
      <4>3. LoadBut({}) \in Nat /\ LoadBut({})' = LoadBut({}) + 1
        BY <1>5
      <4>4. Room(new[x], {}, 0)'
        BY <2>3, <2>4, <4>2, <4>3, RoomFilled
      <4> QED BY <4>1, <4>2, <4>4 DEF Held, Looking
    <3>3. CASE x # s /\ x \notin unaware /\ x \notin cov[x]
      <4>1. PICK u : u = agent[x] /\ u = agent'[x]
        BY <1>4, <3>3
      <4>2. new[x] = cov[x] \ {s} /\ x \notin new[x] /\ Held(x, cov[x], u)
        BY <2>2, <2>5, <3>3, <4>1
      <4>3. CASE u.at = "looks"
        <5>1. (\A q \in Unseen(u) : ~Touched(q)) /\ p \notin Unseen(u)
          BY <2>10, <3>3, <4>1, <4>2, <4>3 DEF Held, Looking
        <5>2. \A q \in Unseen(u)' : ~Touched(q)'
          BY <1>6, <1>10, <5>1
        <5>3. Looking(x, new[x], u)'
          BY <4>2, <5>2 DEF Looking
        <5>4. Held(x, new[x], u)'
          BY <4>3, <5>3 DEF Held
        <5>5. \A q \in Unseen(agent[x])' : ~Touched(q)'
          BY <4>1, <5>2 DEF Unseen
        <5> QED BY <4>1, <4>2, <4>3, <5>5 DEF Held, Looking
      <4>4. CASE u.at # "looks"
        <5>1. u.at \notin Stages
          BY <3>3, <4>2, <4>4 DEF Held, Stages
        <5> QED BY <4>1, <5>1 DEF Held, Stages
      <4> QED BY <4>3, <4>4
    <3>4. CASE x # s /\ x \notin unaware /\ x \in cov[x]
      <4>1. PICK u : u = agent[x] /\ u = agent'[x]
        BY <1>4, <3>4
      <4>2. PICK C, E : C = cov[x] /\ E = C \ {s} /\ E = new[x] /\ x \in E
        BY <2>5, <3>4
      <4>3. C \in SUBSET SQLScrapes /\ Held(x, C, u)
        BY <2>2, <4>1, <4>2 DEF Pending
      <4>4. CASE s \in C
        <5>1. ASSUME NEW T, NEW n \in Int, Room(C, T, n) PROVE Room(E, T, n)'
          <6>1. LoadBut(T) \in Nat /\ LoadBut(T)' = LoadBut(T) + 1
            BY <1>5
          <6> QED BY <4>2, <4>3, <4>4, <5>1, <6>1, RoomFilled
        <5>2. agent[x] \in AgentStates
          BY <1>1, <1>4, <3>4, OfAgent
        <5>3. u.sum \in Int
          BY <4>1, <5>2 DEF AgentStates
        <5>4. u.at = "looks" => Looking(x, E, u)'
          BY <3>4, <4>2, <4>3, <5>1 DEF Held, Looking
        <5>5. u.at = "counts" => CountingRoom(E, u)'
          BY <4>3, <5>1, <5>3 DEF Held, CountingRoom
        <5>6. u.at = "rooms" => MakingRoom(E, u)'
          BY <4>3, <5>1, <5>3 DEF Held, MakingRoom
        <5>7. u.at \in {"awaits", "connects"} => Room(E, {u.pool}, 0)'
          BY <4>3, <5>1 DEF Held
        <5>8. Held(x, E, u)'
          BY <4>2, <5>4, <5>5, <5>6, <5>7 DEF Held
        <5> QED BY <4>1, <4>2, <5>8
      <4>5. CASE s \notin C
        <5>1. C \in SUBSET (D \ {s})
          BY <2>9, <3>4, <4>2, <4>5
        <5>2. ASSUME NEW T PROVE Room(E, T, 0)'
          <6>1. Room(C \ {s}, T, 0)'
            BY <1>1, <1>5, <2>3, <2>4, <5>1, RoomWithin
          <6> QED BY <4>2, <6>1 DEF Room
        <5>3. Looking(x, E, u)'
          BY <4>2, <5>2 DEF Looking
        <5>4. CountingRoom(E, u)' /\ MakingRoom(E, u)'
          BY <5>2 DEF CountingRoom, MakingRoom
        <5>5. Held(x, E, u)'
          BY <4>2, <5>2, <5>3, <5>4 DEF Held
        <5> QED BY <4>1, <4>2, <5>5
      <4> QED BY <4>4, <4>5
    <3> QED BY <3>1, <3>2, <3>3, <3>4
  <2>12. Ordered(new)'
    <3> SUFFICES ASSUME NEW u \in SQLScrapes, NEW v \in SQLScrapes, u \in new[u], v \in new[v]
                 PROVE  new[u] \subseteq new[v] \/ new[v] \subseteq new[u]
      BY DEF Ordered
    <3>1. PICK w, z \in SQLScrapes :
            w \in cov[w] /\ z \in cov[z] /\ new[u] = cov[w] \ {s} /\ new[v] = cov[z] \ {s}
      BY <2>8
    <3>2. cov[w] \subseteq cov[z] \/ cov[z] \subseteq cov[w]
      BY <2>1, <3>1 DEF Covers, Ordered
    <3> QED BY <3>1, <3>2
  <2>13. Told(new)'
    <3> SUFFICES ASSUME NEW x \in SQLScrapes, NEW y \in SQLScrapes, agent'[x].at = "looks", x \notin new[x],
                        y \in new[y], agent'[y].pool \in Unseen(agent[x])'
                 PROVE  x \in new[y]
      BY DEF Told
    <3>1. x # s /\ agent'[x] = agent[x]
      BY <1>2, <1>4
    <3>2. y # s /\ agent'[y] = agent[y]
      BY <1>4, <2>5
    <3>3. x \notin unaware
      BY <2>5, <2>7
    <3>4. x \notin cov[x] /\ p \notin Unseen(agent[x])
      BY <2>5, <2>10, <3>1, <3>3
    <3>5. agent[y].pool \in Unseen(agent[x])
      <4>1. PICK u : u = agent[x]
        OBVIOUS
      <4>2. agent[y].pool \in Unseen(u)'
        BY <3>1, <3>2, <4>1 DEF Unseen
      <4> QED BY <1>6, <4>1, <4>2
    <3>6. y \notin unaware
      <4> SUFFICES ASSUME y \in unaware PROVE FALSE
        OBVIOUS
      <4>1. agent[y].at = "looks" /\ p \in Unseen(agent[y])
        BY <2>10
      <4>2. SeenFirst(agent[x], agent[y]) /\ agent[x].at = "looks"
        BY <1>1, <3>1 DEF LooksFit
      <4> QED BY <3>4, <3>5, <4>1, <4>2 DEF SeenFirst
    <3>7. y \in cov[y] /\ new[y] = cov[y] \ {s}
      BY <2>5, <3>6
    <3>8. x \in cov[y]
      BY <2>1, <3>1, <3>4, <3>5, <3>7 DEF Covers, Told
    <3> QED BY <3>1, <3>7, <3>8
  <2>14. Covers(new)'
    BY <2>6, <2>11, <2>12, <2>13 DEF Covers
  <2>15. OpenHeld'
    <3>1. PICK d \in Nat : d = Cardinality(D) /\ d > 0
      BY <2>3, SQLAssumption, FS_Subset, FS_CardinalityType, FS_EmptySet
    <3>2. PICK k \in Nat : k = LoadBut({}) /\ LoadBut({})' = k + 1
      BY <1>5
    <3>3. MaxPerTarget \in Nat /\ k + d <= MaxPerTarget + 0
      BY <2>4, <3>1, <3>2, SQLAssumption DEF Room
    <3>4. k + 1 <= MaxPerTarget
      BY <3>1, <3>2, <3>3
    <3> QED BY <3>2, <3>4, OpenIs
  <2> QED BY <2>14, <2>15
<1> QED BY <1>8, <1>9, <1>11 DEF OpenInv

\* What a scrape relies on it can as no more is open.
LEMMA HeldFalls ==
  ASSUME DrainInv, DrainInv', \A T : LoadBut(T)' <= LoadBut(T), NEW s, NEW C \in SUBSET SQLScrapes,
         NEW st, st.at # "looks", st.sum \in Int, Held(s, C, st)
  PROVE  Held(s, C, st)'
<1>1. ASSUME NEW T, NEW n \in Int, Room(C, T, n) PROVE Room(C, T, n)'
  BY <1>1, RoomFalls
<1>2. CountingRoom(C, st) => CountingRoom(C, st)'
  BY <1>1 DEF CountingRoom
<1>3. MakingRoom(C, st) => MakingRoom(C, st)'
  BY <1>1 DEF MakingRoom
<1>4. Room(C, {st.pool}, 0) => Room(C, {st.pool}, 0)'
  BY <1>1
<1> QED BY <1>2, <1>3, <1>4 DEF Held

\* What a scrape finds there is room for it finds as it goes on.
StillRoom(s, st, all) ==
  \A C \in SUBSET all : Held(s, C, agent[s]) => (s \in C /\ Held(s, C, st)) \/ Held(s, all, st)

\* A step of a scrape to its connection, all else as it is.
LEMMA StillRooms ==
  ASSUME OpenInv, DrainInv', UNCHANGED pools, UNCHANGED closed, UNCHANGED crossed,
         NEW s \in SQLScrapes, s \in Pending, NEW st, Becomes(s, st), st.at \in Stages \ {"looks"},
         st.pool = agent[s].pool, st.have = agent[s].have, st.forgotten = agent[s].forgotten,
         st.sum \in Int, st.at \in {"counts", "rooms"} => st.pool \notin st.others \cup st.todo,
         NEW all, all = Pending, ~crossed => StillRoom(s, st, all)
  PROVE  OpenInv'
<1>1. DrainInv /\ s \in Agents /\ s # Pinger /\ agent[s] \in AgentStates
  BY AgentsFinite, OfAgent DEF OpenInv
<1>2. agent'[s] = st /\ Alone(s)
  BY <1>1 DEF Becomes, Alone, DrainInv, AgentsFit
<1>3. NoneComes /\ LoadsFall /\ \A T : LoadBut(T)' <= LoadBut(T)
  <2>1. UsedIn(agent[s]) \in Nat
    BY <1>1, UsedNat
  <2>2. UsedFalls(s)
    BY <1>2, <2>1 DEF UsedFalls, UsedIn
  <2>3. \A b \in Agents : UsedFalls(b)
    BY <1>1, <1>2, <2>2, OthersFall
  <2> QED BY <1>1, <2>3, SamePools, NoMoreOpen
<1>4. GoneForgotten'
  BY <1>1, <1>2, GoneStays
<1>5. all \in SUBSET SQLScrapes /\ st.at # "looks"
  BY DEF Pending, Stages
<1>6. \A C \in SUBSET SQLScrapes : Held(s, C, st) => Held(s, C, st)'
  BY <1>1, <1>3, <1>5, HeldFalls
<1>7. ~crossed' => RoomFor(s, st, all)
  BY <1>5, <1>6 DEF RoomFor, StillRoom
<1> QED BY <1>3, <1>4, <1>7, OneRooms

\* Room of one kind is room of another, where no more is open by as much.
LEMMA RoomEases ==
  ASSUME DrainInv, NEW C \in SUBSET SQLScrapes, NEW T, NEW V, NEW m \in Int, NEW n \in Int,
         LoadBut(V) <= LoadBut(T) + (n - m), Room(C, T, m)
  PROVE  Room(C, V, n)
<1>1. PICK c \in Nat : c = Cardinality(C)
  BY SQLAssumption, FS_Subset, FS_CardinalityType
<1>2. PICK k, l \in Nat : k = LoadBut(T) /\ l = LoadBut(V)
  BY LoadNat
<1>3. MaxPerTarget \in Nat /\ k + c <= MaxPerTarget + m /\ l <= k + (n - m)
  BY <1>1, <1>2, SQLAssumption DEF Room
<1>4. l + c <= MaxPerTarget + n
  BY <1>3
<1> QED BY <1>1, <1>2, <1>4 DEF Room

\* Who takes the places for all there is, in use or to be, has room for it
\* among pools that keep none idle.
LEMMA RoomForAll ==
  ASSUME DrainInv, NEW all, all = Pending, NEW T, \A q \in Living \ T : IdleOf(q) = 0,
         NEW n \in Int, Places - MaxPerTarget <= n
  PROVE  Room(all, T, n)
<1>1. LoadBut(T) <= LoadBut(Living)
  BY LoadLess
<1>2. IdleIn(Living \ Living) = 0
  <2>1. Living \ Living = {}
    OBVIOUS
  <2>2. SumOf([p \in {} |-> IdleOf(p)]) = 0
    BY SumOfNone
  <2> QED BY <2>1, <2>2 DEF IdleIn
<1>3. PICK k, l, u \in Nat : k = LoadBut(T) /\ l = LoadBut(Living) /\ u = Used /\ k <= l
  BY <1>1, LoadNat, UsedNat
<1>4. l = u
  BY <1>2, <1>3 DEF LoadBut
<1>5. PICK c, t \in Nat : c = Cardinality(all) /\ t = Places /\ u + c <= t
  <2>1. all \in SUBSET SQLScrapes
    BY DEF Pending
  <2>2. Cardinality(all) \in Nat
    BY <2>1, SQLAssumption, FS_Subset, FS_CardinalityType
  <2> QED BY <1>3, <2>2, PlacesForAll
<1>6. MaxPerTarget \in Nat /\ t - MaxPerTarget <= n
  BY <1>5, SQLAssumption
<1>7. k + c <= MaxPerTarget + n
  BY <1>3, <1>4, <1>5, <1>6
<1> QED BY <1>3, <1>5, <1>7 DEF Room

\* There are finitely many pools.
LEMMA PoolsFinite == DrainInv => IsFiniteSet(DOMAIN pools)
<1> SUFFICES ASSUME DrainInv PROVE IsFiniteSet(DOMAIN pools)
  OBVIOUS
<1>1. DOMAIN pools \in SUBSET PoolIds /\ closed \in Nat
  BY DEF DrainInv, PoolsInv, SQLTyped
<1>2. \A p \in DOMAIN pools : p[2] <= closed
  BY DEF DrainInv, IdsFit, Known
<1> QED BY <1>1, <1>2, NumberedFinite

\* makeRoom, as it finds the target has one pool, or reads which others it has.
LEMMA OtherOpens ==
  ASSUME OpenInv, DrainInv', NEW s \in SQLScrapes, otherPools(s)
  PROVE  OpenInv'
<1>1. /\ DrainInv /\ s \in Agents /\ agent[s] \in AgentStates /\ agent[s].at = "placed"
      /\ s \in Pending
  BY AgentsFinite, OfAgent DEF OpenInv, otherPools, Pending
<1>2. UNCHANGED pools /\ UNCHANGED closed /\ UNCHANGED crossed
  BY DEF otherPools
<1>3. CASE Cardinality(DOMAIN pools) < 2 /\ At(s, "connects")
  <2>1. PICK st, all : st = [agent[s] EXCEPT !.at = "connects"] /\ all = Pending
    OBVIOUS
  <2>2. /\ st.at = "connects" /\ st.pool = agent[s].pool /\ st.have = agent[s].have
        /\ st.forgotten = agent[s].forgotten /\ st.sum \in Int
    BY <1>1, <2>1 DEF AgentStates
  <2>3. agent[s].pool \in DOMAIN pools
    BY <1>1 DEF DrainInv, PoolsDrain, PoolsAsUsed
  <2>4. \A p, q \in DOMAIN pools : p = q
    <3>1. IsFiniteSet(DOMAIN pools) /\ Cardinality(DOMAIN pools) \in Nat
      BY <1>1, PoolsFinite, FS_CardinalityType
    <3>2. ~(Cardinality(DOMAIN pools) > 1)
      BY <1>3, <3>1
    <3> QED BY <3>1, <3>2, AtMostOne
  <2>5. \A q \in Living \ {st.pool} : IdleOf(q) = 0
    BY <2>2, <2>3, <2>4 DEF Living
  <2>6. Places - MaxPerTarget <= 0
    BY <1>1, PlacesForAll, SQLAssumption
  <2>7. Room(all, {st.pool}, 0)
    BY <1>1, <2>1, <2>5, <2>6, RoomForAll
  <2>8. Held(s, all, st)
    BY <1>1, <2>1, <2>2, <2>7 DEF Held
  <2>9. StillRoom(s, st, all)
    BY <2>8 DEF StillRoom
  <2>10. Becomes(s, st)
    BY <1>3, <2>1 DEF At
  <2>11. st.at \in Stages \ {"looks"} /\ st.at \notin {"counts", "rooms"}
    BY <2>2 DEF Stages
  <2> QED BY <1>1, <1>2, <2>1, <2>2, <2>9, <2>10, <2>11, StillRooms
<1>4. ASSUME NEW others, others = Living \ {agent[s].pool},
             Becomes(s, [agent[s] EXCEPT !.at = "looks", !.others = others, !.todo = others])
      PROVE  OpenInv'
  <2>1. PICK st : st = [agent[s] EXCEPT !.at = "looks", !.others = others, !.todo = others]
    OBVIOUS
  <2>2. /\ st.at = "looks" /\ st.pool = agent[s].pool /\ st.have = agent[s].have
        /\ st.forgotten = agent[s].forgotten /\ st.others = others /\ st.todo = others
    BY <1>1, <2>1 DEF AgentStates
  <2> QED BY <1>1, <1>2, <1>4, <2>1, <2>2, LookOpens
<1> QED BY <1>3, <1>4 DEF otherPools

\* ... the places that are taken: it covers whoever is to have a connection.
LEMMA PlacesOpen ==
  ASSUME OpenInv, DrainInv', NEW s \in SQLScrapes, readPlaces(s)
  PROVE  OpenInv'
<1>1. /\ DrainInv /\ s \in Agents /\ agent[s] \in AgentStates /\ agent[s].at = "looks"
      /\ s \in Pending /\ LookFits(agent[s])
  BY AgentsFinite, OfAgent DEF OpenInv, readPlaces, Pending, Stages, LooksFit
<1>2. UNCHANGED pools /\ UNCHANGED closed /\ UNCHANGED crossed
  BY DEF readPlaces
<1>3. PICK st, all, n :
        /\ n = Places - MaxPerTarget
        /\ st = [agent[s] EXCEPT !.at = "counts", !.sum = n] /\ all = Pending
  OBVIOUS
<1>4. Becomes(s, st)
  BY <1>3 DEF readPlaces
<1>5. n \in Int /\ n <= 0
  BY <1>1, <1>3, PlacesForAll, SQLAssumption
<1>6. /\ st.at = "counts" /\ st.pool = agent[s].pool /\ st.have = agent[s].have /\ st.sum = n
      /\ st.forgotten = agent[s].forgotten /\ st.others = agent[s].others /\ st.todo = agent[s].others
  BY <1>1, <1>3 DEF AgentStates, LookFits
<1>7. st.pool \notin st.others \cup st.todo
  BY <1>1, <1>6 DEF LookFits
<1>8. StillRoom(s, st, all)
  <2> SUFFICES ASSUME NEW C \in SUBSET all, Held(s, C, agent[s])
               PROVE  (s \in C /\ Held(s, C, st)) \/ Held(s, all, st)
    BY DEF StillRoom
  <2>1. Looking(s, C, agent[s])
    BY <1>1 DEF Held
  <2>2. CASE s \in C
    <3>1. Room(C, {}, 0) /\ C \in SUBSET SQLScrapes
      BY <1>3, <2>1, <2>2 DEF Looking, Pending
    <3>2. LoadBut({st.pool}) <= LoadBut({})
      BY <1>1, LoadLess
    <3>3. LoadBut({st.pool}) <= LoadBut({}) + (0 - 0)
      BY <1>1, <3>2, LoadNat
    <3>4. Room(C, {st.pool}, 0)
      BY <1>1, <3>1, <3>3, RoomEases
    <3> QED BY <1>6, <2>2, <3>4 DEF Held, CountingRoom
  <2>3. CASE s \notin C
    <3>1. \A q \in Unseen(agent[s]) : IdleOf(q) = 0
      <4>1. \A q \in Unseen(agent[s]) : ~Touched(q)
        BY <2>1, <2>3 DEF Looking
      <4>2. \A q : ~(IdleOf(q) > 0) => IdleOf(q) = 0
        BY <1>1, LivingFinite
      <4> QED BY <4>1, <4>2 DEF Touched
    <3>2. \A q \in Living \ ({st.pool} \cup st.others) : IdleOf(q) = 0
      BY <1>6, <3>1 DEF Unseen
    <3>3. Room(all, {st.pool} \cup st.others, 0) /\ Room(all, {st.pool} \cup st.todo, st.sum)
      <4>1. Places - MaxPerTarget <= 0 /\ Places - MaxPerTarget <= n
        BY <1>3, <1>5
      <4>2. Room(all, {st.pool} \cup st.others, 0)
        BY <1>1, <1>3, <3>2, <4>1, RoomForAll
      <4>3. Room(all, {st.pool} \cup st.others, n)
        BY <1>1, <1>3, <1>5, <3>2, <4>1, RoomForAll
      <4> QED BY <1>6, <4>2, <4>3
    <3>4. Held(s, all, st)
      BY <1>1, <1>3, <1>6, <3>3 DEF Held, CountingRoom
    <3> QED BY <3>4
  <2> QED BY <2>2, <2>3
<1>9. st.at \in Stages \ {"looks"}
  BY <1>6 DEF Stages
<1> QED BY <1>1, <1>2, <1>3, <1>4, <1>5, <1>6, <1>7, <1>8, <1>9, StillRooms

\* ... what the others keep idle, ...
LEMMA CountOpens ==
  ASSUME OpenInv, DrainInv', NEW s \in SQLScrapes, countIdle(s)
  PROVE  OpenInv'
<1>1. /\ DrainInv /\ s \in Agents /\ agent[s] \in AgentStates /\ agent[s].at = "counts"
      /\ s \in Pending /\ LookFits(agent[s])
  BY AgentsFinite, OfAgent DEF OpenInv, countIdle, Pending, Stages, LooksFit
<1>2. UNCHANGED pools /\ UNCHANGED closed /\ UNCHANGED crossed
  BY DEF countIdle
<1>3. PICK all, old : all = Pending /\ old = agent[s]
  OBVIOUS
<1>4. /\ old \in AgentStates /\ old.sum \in Int /\ old.at = "counts"
      /\ old.pool \notin old.others \cup old.todo
  BY <1>1, <1>3 DEF AgentStates, LookFits
<1>5. ASSUME NEW C \in SUBSET all, Held(s, C, agent[s])
      PROVE  C \in SUBSET SQLScrapes /\ s \in C /\ CountingRoom(C, old)
  BY <1>1, <1>3, <1>5 DEF Held, Pending
<1>6. CASE old.todo = {} /\ old.sum > 0 /\ Becomes(s, [old EXCEPT !.at = "rooms", !.todo = old.others])
  <2>1. PICK st : st = [old EXCEPT !.at = "rooms", !.todo = old.others]
    OBVIOUS
  <2>2. /\ st.at = "rooms" /\ st.pool = old.pool /\ st.have = old.have /\ st.sum = old.sum
        /\ st.forgotten = old.forgotten /\ st.others = old.others /\ st.todo = old.others
    BY <1>4, <2>1 DEF AgentStates
  <2>3. {old.pool} \cup old.todo = {old.pool}
    BY <1>6
  <2>4. \A C : CountingRoom(C, old) => MakingRoom(C, st)
    BY <2>2, <2>3 DEF CountingRoom, MakingRoom
  <2>5. StillRoom(s, st, all)
    BY <1>5, <2>2, <2>4 DEF StillRoom, Held
  <2>6. st.at \in Stages \ {"looks"} /\ st.pool \notin st.others \cup st.todo
    BY <1>4, <2>2 DEF Stages
  <2> QED BY <1>1, <1>2, <1>3, <1>4, <1>6, <2>1, <2>2, <2>5, <2>6, StillRooms
<1>7. CASE old.todo = {} /\ ~(old.sum > 0) /\ Becomes(s, [Looked(old) EXCEPT !.at = "connects"])
  <2>1. PICK st : st = [Looked(old) EXCEPT !.at = "connects"]
    OBVIOUS
  <2>2. /\ st.at = "connects" /\ st.pool = old.pool /\ st.have = old.have /\ st.sum = 0
        /\ st.forgotten = old.forgotten
    BY <1>4, <2>1 DEF AgentStates, Looked
  <2>3. ASSUME NEW C \in SUBSET SQLScrapes, CountingRoom(C, old) PROVE Room(C, {old.pool}, 0)
    <3>1. CASE Room(C, {old.pool}, 0)
      BY <3>1
    <3>2. CASE Room(C, {old.pool} \cup old.todo, old.sum)
      <4>1. {old.pool} \cup old.todo = {old.pool}
        BY <1>7
      <4>2. Room(C, {old.pool}, old.sum)
        BY <3>2, <4>1
      <4>3. LoadBut({old.pool}) <= LoadBut({old.pool}) + (0 - old.sum)
        <5>1. PICK k \in Nat : k = LoadBut({old.pool})
          BY <1>1, LoadNat
        <5>2. PICK n \in Int : n = old.sum /\ ~(n > 0)
          BY <1>4, <1>7
        <5>3. k <= k + (0 - n)
          BY <5>2
        <5> QED BY <5>1, <5>2, <5>3
      <4> QED BY <1>1, <1>4, <4>2, <4>3, RoomEases
    <3> QED BY <2>3, <3>1, <3>2 DEF CountingRoom
  <2>4. StillRoom(s, st, all)
    BY <1>5, <2>2, <2>3 DEF StillRoom, Held
  <2>5. st.at \in Stages \ {"looks"} /\ st.at \notin {"counts", "rooms"} /\ st.sum \in Int
    BY <2>2 DEF Stages
  <2> QED BY <1>1, <1>2, <1>3, <1>7, <2>1, <2>2, <2>4, <2>5, StillRooms
<1>8. ASSUME NEW q \in old.todo, NEW n, n = IdleOf(q),
             Becomes(s, [old EXCEPT !.todo = @ \ {q}, !.sum = @ + n])
      PROVE  OpenInv'
  <2>1. PICK st : st = [old EXCEPT !.todo = @ \ {q}, !.sum = @ + n]
    OBVIOUS
  <2>2. n \in Nat
    BY <1>1, <1>8, LivingFinite
  <2>3. /\ st.at = "counts" /\ st.pool = old.pool /\ st.have = old.have /\ st.sum = old.sum + n
        /\ st.forgotten = old.forgotten /\ st.others = old.others /\ st.todo = old.todo \ {q}
    BY <1>4, <2>1 DEF AgentStates
  <2>4. PICK V, W : V = {old.pool} \cup (old.todo \ {q}) /\ W = {old.pool} \cup old.todo
    OBVIOUS
  <2>5. W = V \cup {q}
    BY <1>8, <2>4
  <2>6. LoadBut(V) <= LoadBut(W) + ((old.sum + n) - old.sum)
    <3>1. LoadBut(V) <= LoadBut(W) + IdleOf(q)
      BY <1>1, <2>5, LoadOneMore
    <3>2. (old.sum + n) - old.sum = n
      BY <1>4, <2>2
    <3> QED BY <1>8, <3>1, <3>2
  <2>7. ASSUME NEW C \in SUBSET SQLScrapes, CountingRoom(C, old) PROVE CountingRoom(C, st)
    <3>1. CASE Room(C, {old.pool}, 0)
      BY <2>3, <3>1 DEF CountingRoom
    <3>2. CASE Room(C, {old.pool} \cup old.others, 0) /\ Room(C, {old.pool} \cup old.todo, old.sum)
      <4>1. Room(C, W, old.sum)
        BY <2>4, <3>2
      <4>2. old.sum + n \in Int
        BY <1>4, <2>2
      <4>3. Room(C, V, old.sum + n)
        BY <1>1, <1>4, <2>6, <4>1, <4>2, RoomEases
      <4>4. Room(C, {st.pool} \cup st.others, 0) /\ Room(C, {st.pool} \cup st.todo, st.sum)
        BY <2>3, <2>4, <3>2, <4>3
      <4> QED BY <4>4 DEF CountingRoom
    <3> QED BY <2>7, <3>1, <3>2 DEF CountingRoom
  <2>8. StillRoom(s, st, all)
    BY <1>5, <2>3, <2>7 DEF StillRoom, Held
  <2>9. st.at \in Stages \ {"looks"} /\ st.pool \notin st.others \cup st.todo /\ st.sum \in Int
    BY <1>4, <2>2, <2>3 DEF Stages
  <2> QED BY <1>1, <1>2, <1>3, <1>8, <2>1, <2>3, <2>8, <2>9, StillRooms
<1> QED BY <1>3, <1>6, <1>7, <1>8 DEF countIdle

\* An idle connection is taken: its pool keeps one less, the others as many.
LEMMA TakenIs ==
  ASSUME DrainInv, DrainInv', NEW a, NEW p, Takes(a, p)
  PROVE  /\ Living' = Living /\ DOMAIN pools' = DOMAIN pools
         /\ \A q : q # p => IdleOf(q)' = IdleOf(q)
         /\ IdleOf(p) \in Nat /\ IdleOf(p)' = IdleOf(p) - 1
         /\ ~crossed' => p \in Living
<1>1. /\ p \in DOMAIN pools /\ pools' = [pools EXCEPT ![p].idle = pools[p].idle - 1]
      /\ crossed' = (crossed \/ pools[p].closed \/ Counting \ {a} # {})
  BY DEF Takes, IdleOf, KeepsIdle
<1>2. pools \in [DOMAIN pools -> PoolStates]
  BY DEF DrainInv, PoolsInv, SQLTyped
<1>3. /\ DOMAIN pools' = DOMAIN pools
      /\ \A q \in DOMAIN pools : pools'[q].closed = pools[q].closed
      /\ \A q \in DOMAIN pools : pools'[q].idle = IF q = p THEN pools[p].idle - 1 ELSE pools[q].idle
  BY <1>1, <1>2 DEF PoolStates
<1>4. Living' = Living
  BY <1>3 DEF Living
<1>5. \A q : q # p => IdleOf(q)' = IdleOf(q)
  BY <1>3 DEF IdleOf
<1>6. IdleOf(p) \in Nat /\ IdleOf(p)' = IdleOf(p) - 1
  BY <1>1, <1>3, LivingFinite DEF IdleOf
<1>7. ~crossed' => p \in Living
  BY <1>1 DEF Living
<1> QED BY <1>3, <1>4, <1>5, <1>6, <1>7

\* One connection that another pool kept idle is taken, to be closed.
LEMMA OneTaken ==
  ASSUME DrainInv, DrainInv', Used' = Used, NEW a, NEW q, Takes(a, q), NEW T, q \in Living \ T
  PROVE  LoadBut(T)' <= LoadBut(T) - 1
<1>1. /\ IdleIn(Living \ T) \in Nat /\ IdleIn(Living \ T)' \in Nat
      /\ IdleIn(Living \ T)' + IdleOf(q) = IdleIn(Living \ T) + IdleOf(q)'
  BY TakenIs, OneIdleMoves
<1>2. IdleOf(q) \in Nat /\ IdleOf(q)' = IdleOf(q) - 1
  BY TakenIs
<1>3. PICK m, n, k \in Nat : /\ m = IdleIn(Living \ T) /\ n = IdleIn(Living \ T)' /\ n = m - 1
                             /\ k = Used
  BY <1>1, <1>2, UsedNat
<1>4. LoadBut(T) = k + m /\ LoadBut(T)' = k + n
  BY <1>3 DEF LoadBut
<1> QED BY <1>3, <1>4

\* ... and takes those that are too many, each for one that is to be open.
LEMMA TakesRoom ==
  ASSUME OpenInv, DrainInv', NEW s \in SQLScrapes, agent[s].at = "rooms", NEW q \in agent[s].todo,
         Takes(s, q), UNCHANGED closed, NEW st, Becomes(s, st),
         st.at = "rooms", st.pool = agent[s].pool, st.others = agent[s].others, st.todo = agent[s].todo,
         st.sum = agent[s].sum - 1, st.have = agent[s].have, st.forgotten = agent[s].forgotten
  PROVE  OpenInv'
<1>1. /\ DrainInv /\ s \in Agents /\ s # Pinger /\ agent[s] \in AgentStates
      /\ s \in Pending /\ LookFits(agent[s])
  BY AgentsFinite, OfAgent DEF OpenInv, Pending, Stages, LooksFit
<1>2. agent'[s] = st /\ Alone(s)
  BY <1>1 DEF Becomes, Alone, DrainInv, AgentsFit
<1>3. PICK all, old, p : all = Pending /\ old = agent[s] /\ p = old.pool
  OBVIOUS
<1>4. /\ old.sum \in Int /\ old.at = "rooms" /\ p \notin old.others \cup old.todo /\ q # p
      /\ q \in old.todo
  BY <1>1, <1>3 DEF AgentStates, LookFits
<1>5. PoolsNoMore /\ (crossed => crossed')
  BY <1>1, TakesFewer
<1>6. UsedIn(agent'[s]) = UsedIn(agent[s])
  BY <1>2 DEF UsedIn
<1>7. NoneComes /\ LoadsFall /\ \A T : LoadBut(T)' <= LoadBut(T)
  <2>1. UsedIn(agent[s]) \in Nat
    BY <1>1, UsedNat
  <2>2. UsedFalls(s)
    BY <1>2, <1>6, <2>1 DEF UsedFalls
  <2>3. \A b \in Agents : UsedFalls(b)
    BY <1>1, <1>2, <2>2, OthersFall
  <2> QED BY <1>1, <1>5, <2>3, NoMoreOpen
<1>8. Used' = Used
  <2>1. Used' + UsedIn(agent[s]) = Used + UsedIn(agent'[s])
    BY <1>1, <1>2, UsedMoves
  <2>2. PICK u : u = UsedIn(agent[s])
    OBVIOUS
  <2>3. Used' + u = Used + u /\ u \in Nat
    BY <1>1, <1>6, <2>1, <2>2, UsedNat
  <2> QED BY <1>1, <2>3, UsedNat
<1>9. GoneForgotten'
  <2>1. DOMAIN pools' = DOMAIN pools
    BY <1>1, TakenIs
  <2> QED BY <1>1, <1>2, <2>1, GoneStays
<1>10. ~crossed' => RoomFor(s, st, all)
  <2> SUFFICES ASSUME ~crossed', NEW C \in SUBSET all, Held(s, C, agent[s])
               PROVE  s \in C /\ Held(s, C, st)'
    BY DEF RoomFor
  <2>1. s \in C /\ C \in SUBSET SQLScrapes /\ Held(s, C, old) /\ MakingRoom(C, old)
    BY <1>1, <1>3, <1>4 DEF Held, Pending
  <2>2. ASSUME NEW T, NEW n \in Int, Room(C, T, n) PROVE Room(C, T, n)'
    BY <1>1, <1>7, <2>1, <2>2, RoomFalls
  <2>3. CASE Room(C, {p}, 0)
    BY <1>3, <2>1, <2>2, <2>3 DEF Held, MakingRoom
  <2>4. CASE Room(C, {p} \cup old.todo, 0) /\ Room(C, {p}, old.sum)
    <3>1. LoadBut({p})' <= LoadBut({p}) - 1
      <4>1. q \in Living \ {p}
        BY <1>1, <1>4, TakenIs
      <4> QED BY <1>1, <1>8, <4>1, OneTaken
    <3>2. PICK c \in Nat : c = Cardinality(C)
      BY <2>1, SQLAssumption, FS_Subset, FS_CardinalityType
    <3>3. PICK k, l \in Nat : k = LoadBut({p}) /\ l = LoadBut({p})' /\ l <= k - 1
      BY <1>1, <3>1, LoadNat
    <3>4. MaxPerTarget \in Nat /\ k + c <= MaxPerTarget + old.sum
      BY <2>4, <3>2, <3>3, SQLAssumption DEF Room
    <3>5. l + c <= MaxPerTarget + (old.sum - 1)
      BY <1>4, <3>3, <3>4
    <3>6. Room(C, {p}, old.sum - 1)'
      BY <3>2, <3>3, <3>5 DEF Room
    <3>7. Room(C, {p} \cup old.todo, 0)'
      BY <2>2, <2>4
    <3>8. Room(C, {st.pool} \cup st.todo, 0)' /\ Room(C, {st.pool}, st.sum)'
      BY <1>3, <3>6, <3>7
    <3> QED BY <2>1, <3>8 DEF Held, MakingRoom
  <2> QED BY <1>3, <2>1, <2>3, <2>4 DEF MakingRoom
<1>11. st.at \in Stages \ {"looks"} /\ st.pool \notin st.others \cup st.todo
  BY <1>3, <1>4 DEF Stages
<1> QED BY <1>1, <1>3, <1>5, <1>7, <1>9, <1>10, <1>11, OneRooms

\* makeRoom takes one that is too many, or passes a pool by, or is done.
LEMMA MakeOpens ==
  ASSUME OpenInv, DrainInv', NEW s \in SQLScrapes, makeRoom(s)
  PROVE  OpenInv'
<1>1. /\ DrainInv /\ s \in Agents /\ agent[s] \in AgentStates /\ agent[s].at = "rooms"
      /\ s \in Pending /\ LookFits(agent[s]) /\ UNCHANGED closed
  BY AgentsFinite, OfAgent DEF OpenInv, makeRoom, Pending, Stages, LooksFit
<1>2. PICK all, old : all = Pending /\ old = agent[s]
  OBVIOUS
<1>3. /\ old \in AgentStates /\ old.sum \in Int /\ old.at = "rooms"
      /\ old.pool \notin old.others \cup old.todo
  BY <1>1, <1>2 DEF AgentStates, LookFits
<1>4. ASSUME NEW C \in SUBSET all, Held(s, C, agent[s])
      PROVE  C \in SUBSET SQLScrapes /\ s \in C /\ MakingRoom(C, old)
  BY <1>1, <1>2, <1>4 DEF Held, Pending
<1>5. ASSUME NEW q \in old.todo, Takes(s, q),
             Becomes(s, [old EXCEPT !.sum = @ - 1, !.closing = Append(@, q)])
      PROVE  OpenInv'
  <2>1. PICK st : st = [old EXCEPT !.sum = @ - 1, !.closing = Append(@, q)]
    OBVIOUS
  <2>2. /\ st.at = "rooms" /\ st.pool = old.pool /\ st.have = old.have /\ st.sum = old.sum - 1
        /\ st.forgotten = old.forgotten /\ st.others = old.others /\ st.todo = old.todo
    BY <1>3, <2>1 DEF AgentStates
  <2> QED BY <1>1, <1>2, <1>5, <2>1, <2>2, TakesRoom
<1>6. ASSUME NEW q \in old.todo, ~(old.sum > 0 /\ IdleOf(q) > 0), UNCHANGED pools, UNCHANGED crossed,
             Becomes(s, [old EXCEPT !.todo = @ \ {q}])
      PROVE  OpenInv'
  <2>1. PICK st : st = [old EXCEPT !.todo = @ \ {q}]
    OBVIOUS
  <2>2. /\ st.at = "rooms" /\ st.pool = old.pool /\ st.have = old.have /\ st.sum = old.sum
        /\ st.forgotten = old.forgotten /\ st.others = old.others /\ st.todo = old.todo \ {q}
    BY <1>3, <2>1 DEF AgentStates
  <2>3. ASSUME NEW C \in SUBSET SQLScrapes, MakingRoom(C, old) PROVE MakingRoom(C, st)
    <3>1. CASE Room(C, {old.pool}, 0)
      BY <2>2, <3>1 DEF MakingRoom
    <3>2. CASE /\ Room(C, {old.pool} \cup old.todo, 0) /\ Room(C, {old.pool}, old.sum)
               /\ ~(old.sum > 0)
      <4>1. LoadBut({old.pool}) <= LoadBut({old.pool}) + (0 - old.sum)
        <5>1. PICK k \in Nat : k = LoadBut({old.pool})
          BY <1>1, LoadNat
        <5>2. PICK n \in Int : n = old.sum /\ ~(n > 0)
          BY <1>3, <3>2
        <5>3. k <= k + (0 - n)
          BY <5>2
        <5> QED BY <5>1, <5>2, <5>3
      <4>2. Room(C, {old.pool}, 0)
        BY <1>1, <1>3, <3>2, <4>1, RoomEases
      <4> QED BY <2>2, <4>2 DEF MakingRoom
    <3>3. CASE /\ Room(C, {old.pool} \cup old.todo, 0) /\ Room(C, {old.pool}, old.sum)
               /\ ~(IdleOf(q) > 0)
      <4>1. PICK V, W : V = {old.pool} \cup (old.todo \ {q}) /\ W = {old.pool} \cup old.todo
        OBVIOUS
      <4>2. IdleOf(q) = 0
        BY <1>1, <3>3, LivingFinite
      <4>3. LoadBut(V) <= LoadBut(W)
        <5>1. \A x \in Living \ V : x \notin W \/ IdleOf(x) = 0
          BY <4>1, <4>2
        <5> QED BY <1>1, <5>1, LoadLess
      <4>4. LoadBut(V) <= LoadBut(W) + (0 - 0)
        <5>1. PICK k, l \in Nat : k = LoadBut(V) /\ l = LoadBut(W) /\ k <= l
          BY <1>1, <4>3, LoadNat
        <5>2. k <= l + (0 - 0)
          BY <5>1
        <5> QED BY <5>1, <5>2
      <4>5. Room(C, W, 0)
        BY <3>3, <4>1
      <4>6. Room(C, V, 0)
        BY <1>1, <4>4, <4>5, RoomEases
      <4>7. Room(C, {st.pool} \cup st.todo, 0) /\ Room(C, {st.pool}, st.sum)
        BY <2>2, <3>3, <4>1, <4>6
      <4> QED BY <4>7 DEF MakingRoom
    <3> QED BY <1>6, <2>3, <3>1, <3>2, <3>3 DEF MakingRoom
  <2>4. StillRoom(s, st, all)
    BY <1>4, <2>2, <2>3 DEF StillRoom, Held
  <2>5. st.at \in Stages \ {"looks"} /\ st.pool \notin st.others \cup st.todo /\ st.sum \in Int
    BY <1>3, <2>2 DEF Stages
  <2> QED BY <1>1, <1>2, <1>6, <2>1, <2>2, <2>4, <2>5, StillRooms
<1>7. ASSUME old.todo = {}, UNCHANGED pools, UNCHANGED crossed,
             Becomes(s, [Looked(old) EXCEPT !.at = "awaits"])
      PROVE  OpenInv'
  <2>1. PICK st : st = [Looked(old) EXCEPT !.at = "awaits"]
    OBVIOUS
  <2>2. /\ st.at = "awaits" /\ st.pool = old.pool /\ st.have = old.have /\ st.sum = 0
        /\ st.forgotten = old.forgotten
    BY <1>3, <2>1 DEF AgentStates, Looked
  <2>3. {old.pool} \cup old.todo = {old.pool}
    BY <1>7
  <2>4. \A C : MakingRoom(C, old) => Room(C, {old.pool}, 0)
    BY <2>3 DEF MakingRoom
  <2>5. StillRoom(s, st, all)
    BY <1>4, <2>2, <2>4 DEF StillRoom, Held
  <2>6. st.at \in Stages \ {"looks"} /\ st.at \notin {"counts", "rooms"} /\ st.sum \in Int
    BY <2>2 DEF Stages
  <2> QED BY <1>1, <1>2, <1>7, <2>1, <2>2, <2>5, <2>6, StillRooms
<1> QED BY <1>2, <1>5, <1>6, <1>7 DEF makeRoom

\* It has waited for those it took to be closed.
LEMMA MadeOpens ==
  ASSUME OpenInv, DrainInv', NEW s \in SQLScrapes, roomMade(s)
  PROVE  OpenInv'
<1>1. /\ s \in Agents /\ agent[s] \in AgentStates /\ agent[s].at = "awaits" /\ s \in Pending
      /\ UNCHANGED pools /\ UNCHANGED closed /\ UNCHANGED crossed
  BY AgentsFinite, OfAgent DEF OpenInv, roomMade, Pending, Stages
<1>2. CASE At(s, "connects")
  <2>1. PICK st, all : st = [agent[s] EXCEPT !.at = "connects"] /\ all = Pending
    OBVIOUS
  <2>2. /\ st.at = "connects" /\ st.pool = agent[s].pool /\ st.have = agent[s].have
        /\ st.forgotten = agent[s].forgotten /\ st.sum \in Int
    BY <1>1, <2>1 DEF AgentStates
  <2>3. StillRoom(s, st, all)
    BY <1>1, <2>2 DEF StillRoom, Held
  <2>4. st.at \in Stages \ {"looks"} /\ st.at \notin {"counts", "rooms"}
    BY <2>2 DEF Stages
  <2>5. Becomes(s, st)
    BY <1>2, <2>1 DEF At
  <2> QED BY <1>1, <2>1, <2>2, <2>3, <2>4, <2>5, StillRooms
<1>3. CASE At(s, "over")
  BY <1>3, ScrapeOpens
<1> QED BY <1>2, <1>3 DEF roomMade

\* db.Conn, which takes an idle connection before it makes one.
LEMMA ConnectOpens ==
  ASSUME OpenInv, DrainInv', NEW s \in SQLScrapes, connect(s)
  PROVE  OpenInv'
<1>1. /\ s \in Agents /\ agent[s] \in AgentStates /\ agent[s].at = "connects"
      /\ UNCHANGED closed
  BY AgentsFinite, OfAgent DEF OpenInv, connect
<1>2. CASE Takes(s, agent[s].pool) \/ At(s, "over")
  BY <1>2, ConnectTakesOpens
<1>3. CASE /\ pools[agent[s].pool].idle = 0 /\ UNCHANGED <<pools, crossed>>
           /\ Becomes(s, [agent[s] EXCEPT !.at = "uses", !.have = 1])
  <2>1. PICK st, p : st = [agent[s] EXCEPT !.at = "uses", !.have = 1] /\ p = agent[s].pool
    OBVIOUS
  <2>2. /\ st.at = "uses" /\ st.have = 1 /\ st.pool = p /\ st.forgotten = agent[s].forgotten
    BY <1>1, <2>1 DEF AgentStates
  <2>3. IdleOf(p) = 0 /\ UNCHANGED pools /\ UNCHANGED crossed
    BY <1>3, <2>1 DEF IdleOf
  <2> QED BY <1>1, <1>3, <2>1, <2>2, <2>3, NewOpens
<1> QED BY <1>2, <1>3 DEF connect

\* So it is at first, with nothing open and nobody to open it.
LEMMA InitialOpen == SQLInit => OpenInv
<1> SUFFICES ASSUME SQLInit PROVE OpenInv
  OBVIOUS
<1>1. DrainInv
  BY InitialDrain
<1>2. agent = [a \in Agents |-> Resting] /\ Living = {} /\ DOMAIN pools = {}
  BY DEF SQLInit, Living
<1>3. \A a \in Agents : agent[a].at = "rests" /\ agent[a].have = 0 /\ ~agent[a].forgotten
  BY <1>2 DEF Resting
<1>4. Pending = {} /\ GoneForgotten
  BY <1>2, <1>3, AgentsFinite DEF Pending, Stages, GoneForgotten
<1>5. LooksFit
  BY <1>3, AgentsFinite DEF LooksFit, LookFits, SeenFirst
<1>6. OpenHeld
  <2>1. SumOf([p \in Living |-> IdleOf(p)]) = 0
    BY <1>2, SumOfNone
  <2>2. SumOf([a \in Agents |-> IF agent[a].forgotten THEN 0 ELSE agent[a].have]) = 0
    BY <1>3, SumOfNone
  <2> QED BY <2>1, <2>2, SQLAssumption DEF OpenHeld, IdleOpen, Used
<1>7. PICK cov : cov = [x \in SQLScrapes |-> {}]
  OBVIOUS
<1>8. cov \in [SQLScrapes -> SUBSET Pending] /\ \A x \in SQLScrapes : cov[x] = {}
  BY <1>7
<1>9. \A x \in SQLScrapes : Held(x, cov[x], agent[x])
  BY <1>3, AgentsFinite DEF Held
<1>10. Covers(cov)
  BY <1>3, <1>8, <1>9, AgentsFinite DEF Covers, Ordered, Told
<1> QED BY <1>1, <1>4, <1>5, <1>6, <1>10 DEF OpenInv

\* And after every step.
LEMMA OpenStep == OpenInv /\ [SQLNext]_sqlvars => OpenInv'
<1> SUFFICES ASSUME OpenInv, [SQLNext]_sqlvars PROVE OpenInv'
  OBVIOUS
<1>1. DrainInv /\ DrainInv'
  BY DrainStep DEF OpenInv
<1>2. ASSUME NEW s \in SQLScrapes, Scrapes(s) PROVE OpenInv'
  <2>1. CASE takePlace(s) \/ placeTimeout(s) \/ endStatement(s) \/ freePlace(s)
    BY <1>1, <2>1, ScrapeOpens
  <2>2. CASE otherPools(s) \/ readPlaces(s) \/ countIdle(s) \/ makeRoom(s) \/ roomMade(s)
    BY <1>1, <2>2, OtherOpens, PlacesOpen, CountOpens, MakeOpens, MadeOpens
  <2>3. CASE connClosed(s) \/ lateClosed(s) \/ connect(s) \/ release(s)
    BY <1>1, <2>3, ClosesOpen, ConnectOpens, ReleaseOpens
  <2> QED BY <1>2, <2>1, <2>2, <2>3 DEF Scrapes
<1>3. ASSUME NEW s \in SQLScrapes, NEW d \in Databases, acquire(s, d) PROVE OpenInv'
  BY <1>1, <1>3, AcquireOpens
<1>4. ASSUME NEW a \in Agents, Gives(a) PROVE OpenInv'
  <2>1. CASE giveBack(a) \/ lockGiving(a) \/ tallyIdle(a) \/ discardConn(a)
    BY <1>1, <2>1, GivesOpens
  <2>2. CASE keepIdle(a) \/ returnConn(a)
    BY <1>1, <2>2, GivenOpens
  <2> QED BY <1>4, <2>1, <2>2 DEF Gives
<1>5. ASSUME (\E p \in Living : beginRound(p)) \/ pingPlace \/ pingConn \/ pingOver PROVE OpenInv'
  BY <1>1, <1>5, RoundOpens, PingConnOpens
<1>6. ASSUME NEW p \in DOMAIN pools, closePool(p) \/ closeIdle(p) \/ expire(p) PROVE OpenInv'
  BY <1>1, <1>6, BefallsOpens
<1>7. ASSUME UNCHANGED sqlvars PROVE OpenInv'
  <2>1. UNCHANGED pools /\ UNCHANGED agent /\ UNCHANGED closed /\ UNCHANGED crossed
    BY <1>7 DEF sqlvars
  <2>2. PoolsNoMore
    BY <1>1, <2>1, SamePools
  <2>3. \A a \in Agents : UsedFalls(a)
    BY <1>1, <2>1, UsedNat DEF UsedFalls
  <2>4. \A x \in SQLScrapes : Stays(x)
    BY <2>1 DEF Stays, SameStage
  <2>5. GoneForgotten'
    BY <2>1 DEF OpenInv, GoneForgotten
  <2> QED BY <1>1, <2>1, <2>2, <2>3, <2>4, <2>5, OpenFollows
<1> QED BY <1>2, <1>3, <1>4, <1>5, <1>6, <1>7 DEF SQLNext

\* The connections open to a target are no more than max_per_target, and those
\* its pools keep idle no more than max_idle_per_target, unless a count was out
\* of date when it was acted on (sqlPoolCache.makeRoom and giveBack), for any
\* databases, scrapes and limits.
THEOREM LimitsAlwaysHeld == SQLSpec => []HeldToLimits
<1>1. IdleInv /\ OpenInv => HeldToLimits
  BY DEF IdleInv, OpenInv, HeldToLimits
<1> QED BY <1>1, InitialIdle, InitialOpen, IdleStep, OpenStep, PTL DEF SQLSpec

=============================================================================
