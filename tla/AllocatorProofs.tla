---------------------------- MODULE AllocatorProofs ----------------------------
(***************************************************************************)
(* What allocators promise their replicas and each other, and how they     *)
(* place targets: Heartbeats for any number of processes and of heartbeats *)
(* on their way, BundleDelivery for any bundles, any of them refused, and  *)
(* any number of changes and failures, Peers for any number of instances   *)
(* and of their ids, any threshold of failures, and any number of checks   *)
(* lost and of stops, and PlacementPass for any units, members, weights,   *)
(* capacities, balance factors and hashes of any width.                    *)
(***************************************************************************)
EXTENDS Heartbeats, BundleDelivery, Peers, PlacementPass, CountingLemmas, TLAPS

-----------------------------------------------------------------------------
(* Heartbeats. *)

\* What a process has built after a heartbeat that said it is shutting down
\* says so too, and so will what it builds next.
BuiltDown ==
  \A p \in Processes :
    /\ p > process => travelling[p] = <<>>
    /\ \A i \in 1 .. Len(travelling[p]) :
         travelling[p][i] =>
           /\ p = process => down
           /\ \A j \in i .. Len(travelling[p]) : travelling[p][j]

\* So does what the process on record has built after the last applied, when
\* that said so.
RecordedDown ==
  member # NoRecord =>
    /\ member.instance <= process
    /\ member.shuttingDown =>
         /\ member.instance = process => down
         /\ \A j \in member.older + 1 .. Len(travelling[member.instance]) :
              travelling[member.instance][j]

HeartbeatsInv == HeartbeatsTypeOK /\ BuiltDown /\ RecordedDown

\* What is left on its way once the k-th has arrived or is lost.
LEMMA RemoveAtProps ==
  ASSUME NEW S, NEW s \in Seq(S), NEW k \in 1 .. Len(s)
  PROVE  /\ RemoveAt(s, k) \in Seq(S)
         /\ Len(RemoveAt(s, k)) = Len(s) - 1
         /\ \A i \in 1 .. Len(s) - 1 :
              RemoveAt(s, k)[i] = IF i < k THEN s[i] ELSE s[i + 1]
<1> DEFINE front == SubSeq(s, 1, k - 1)
           back  == SubSeq(s, k + 1, Len(s))
<1>1. front \in Seq(S) /\ Len(front) = k - 1
  OBVIOUS
<1>2. back \in Seq(S) /\ Len(back) = Len(s) - k
  OBVIOUS
<1>3. \A i \in 1 .. k - 1 : front[i] = s[i]
  OBVIOUS
<1>4. \A i \in 1 .. Len(s) - k : back[i] = s[i + k]
  OBVIOUS
<1>5. RemoveAt(s, k) = front \o back
  BY DEF RemoveAt
<1> HIDE DEF front, back
<1>6. Len(RemoveAt(s, k)) = Len(s) - 1
  BY <1>1, <1>2, <1>5
<1>7. ASSUME NEW i \in 1 .. Len(s) - 1
      PROVE  RemoveAt(s, k)[i] = IF i < k THEN s[i] ELSE s[i + 1]
  <2>1. CASE i < k
    BY <1>1, <1>2, <1>3, <1>5, <2>1
  <2>2. CASE i >= k
    <3>1. i - (k - 1) \in 1 .. Len(s) - k /\ (i - (k - 1)) + k = i + 1
      BY <2>2
    <3>2. RemoveAt(s, k)[i] = back[i - (k - 1)]
      <4>1. i \in Len(front) + 1 .. Len(front) + Len(back)
        BY <1>1, <1>2, <2>2
      <4>2. (front \o back)[i] = back[i - Len(front)]
        BY <1>1, <1>2, <4>1
      <4> QED BY <1>1, <1>5, <4>2
    <3> QED BY <1>4, <2>2, <3>1, <3>2
  <2> QED BY <2>1, <2>2
<1> QED BY <1>1, <1>2, <1>5, <1>6, <1>7

LEMMA HeartbeatsInitInv == HeartbeatsInit => HeartbeatsInv
<1> SUFFICES ASSUME HeartbeatsInit PROVE HeartbeatsInv
  OBVIOUS
<1>1. \A p \in Processes : travelling[p] = <<>> /\ Len(travelling[p]) = 0
  BY DEF HeartbeatsInit
<1>2. travelling \in [Processes -> Seq(BOOLEAN)]
  BY DEF HeartbeatsInit
<1>3. process \in Processes
  BY HeartbeatsAssumption DEF HeartbeatsInit, Processes
<1>4. HeartbeatsTypeOK
  BY <1>2, <1>3 DEF HeartbeatsInit, HeartbeatsTypeOK
<1> QED BY <1>1, <1>4 DEF HeartbeatsInit, HeartbeatsInv, BuiltDown, RecordedDown

\* A heartbeat built says what its process knows now.
LEMMA HeartbeatBuilt ==
  ASSUME HeartbeatsInv, heartbeatOne
  PROVE  HeartbeatsInv'
<1> USE DEF HeartbeatsInv, HeartbeatsTypeOK, Processes
<1>1. /\ travelling' \in [Processes -> Seq(BOOLEAN)]
      /\ \A q \in Processes : q # process => travelling'[q] = travelling[q]
      /\ travelling'[process] = Append(travelling[process], down)
  BY DEF heartbeatOne
<1>2. /\ Len(travelling'[process]) = Len(travelling[process]) + 1
      /\ \A i \in 1 .. Len(travelling[process]) :
           travelling'[process][i] = travelling[process][i]
      /\ travelling'[process][Len(travelling[process]) + 1] = down
  BY <1>1
<1>3. UNCHANGED <<process, down, member>> /\ sending' \in BOOLEAN
  BY DEF heartbeatOne
<1>4. HeartbeatsTypeOK'
  <2>1. ASSUME member # NoRecord
        PROVE  member.older <= Len(travelling'[member.instance])
    <3>1. PICK q \in Processes : q = member.instance
      BY <2>1
    <3>2. member.older \in Nat /\ Len(travelling[q]) \in Nat
      BY <2>1
    <3>3. member.older <= Len(travelling[q])
      BY <2>1, <3>1
    <3>4. Len(travelling'[q]) = Len(travelling[q]) \/ Len(travelling'[q]) = Len(travelling[q]) + 1
      BY <1>1, <1>2
    <3> QED BY <3>1, <3>2, <3>3, <3>4
  <2>2. member # NoRecord =>
          member \in [instance : Processes, retired : Processes \cup {NoRecord},
                     shuttingDown : BOOLEAN, older : Nat, age : 0 .. RecordTTL]
    OBVIOUS
  <2>3. process \in Processes /\ down \in BOOLEAN
    OBVIOUS
  <2> HIDE DEF HeartbeatsInv
  <2> QED BY <1>1, <1>3, <2>1, <2>2, <2>3
<1>5. BuiltDown'
  <2> SUFFICES ASSUME NEW p \in Processes
               PROVE  /\ p > process => travelling'[p] = <<>>
                      /\ \A i \in 1 .. Len(travelling'[p]) :
                           travelling'[p][i] =>
                             /\ p = process => down
                             /\ \A j \in i .. Len(travelling'[p]) : travelling'[p][j]
    BY <1>3 DEF BuiltDown
  <2>1. CASE p # process
    BY <1>1, <2>1 DEF BuiltDown
  <2>2. CASE p = process
    BY <1>1, <1>2, <2>2 DEF BuiltDown
  <2> QED BY <2>1, <2>2
<1>6. RecordedDown'
  <2> SUFFICES ASSUME member # NoRecord, member.shuttingDown
               PROVE  \A j \in member.older + 1 .. Len(travelling'[member.instance]) :
                        travelling'[member.instance][j]
    BY <1>3 DEF RecordedDown
  <2>1. CASE member.instance # process
    BY <1>1, <2>1 DEF RecordedDown
  <2>2. CASE member.instance = process
    <3>1. down /\ member.older \in Nat
      BY <2>2 DEF RecordedDown
    <3>2. \A j \in member.older + 1 .. Len(travelling[process]) : travelling'[process][j]
      BY <1>2, <2>2, <3>1 DEF RecordedDown
    <3>3. Len(travelling[process]) \in Nat
      OBVIOUS
    <3>4. \A j \in member.older + 1 .. Len(travelling'[process]) : travelling'[process][j]
      <4> SUFFICES ASSUME NEW j \in member.older + 1 .. Len(travelling'[process])
                   PROVE  travelling'[process][j]
        OBVIOUS
      <4>1. j \in member.older + 1 .. Len(travelling[process])
              \/ j = Len(travelling[process]) + 1
        BY <1>2, <3>1, <3>3
      <4> QED BY <1>2, <3>1, <3>2, <4>1
    <3> QED BY <2>2, <3>4
  <2> QED BY <2>1, <2>2
<1> QED BY <1>4, <1>5, <1>6

LEMMA ReplicaKeepsHeartbeats ==
  ASSUME HeartbeatsInv, heartbeatOne \/ heartbeatBack \/ ShuttingDown \/ Restart
  PROVE  HeartbeatsInv' /\ member' = member
<1> USE HeartbeatsAssumption
    DEF HeartbeatsInv, HeartbeatsTypeOK, BuiltDown, RecordedDown, Processes
<1>1. CASE heartbeatOne
  BY <1>1, HeartbeatBuilt DEF heartbeatOne
<1>2. CASE heartbeatBack
  BY <1>2 DEF heartbeatBack
<1>3. CASE ShuttingDown
  BY <1>3 DEF ShuttingDown
<1>4. CASE Restart
  <2>1. process' = process + 1 /\ process' \in Processes
    BY <1>4 DEF Restart
  <2>2. travelling[process + 1] = <<>> /\ Len(travelling[process + 1]) = 0
    BY <2>1
  <2>3. HeartbeatsTypeOK'
    BY <1>4, <2>1 DEF Restart
  <2>4. BuiltDown'
    BY <1>4, <2>1, <2>2 DEF Restart
  <2>5. RecordedDown'
    BY <1>4, <2>1 DEF Restart
  <2> QED BY <1>4, <2>3, <2>4, <2>5 DEF Restart
<1> QED BY <1>1, <1>2, <1>3, <1>4

\* What is left of what travels, without the k-th of p, is as it was but for
\* the places of what was built after it.
LEMMA LeftTravelling ==
  ASSUME HeartbeatsInv, NEW p \in Processes, NEW k \in 1 .. Len(travelling[p]),
         travelling' = [travelling EXCEPT ![p] = RemoveAt(@, k)]
  PROVE  /\ travelling' \in [Processes -> Seq(BOOLEAN)]
         /\ \A q \in Processes : q # p => travelling'[q] = travelling[q]
         /\ Len(travelling'[p]) = Len(travelling[p]) - 1
         /\ \A i \in 1 .. Len(travelling[p]) - 1 :
              travelling'[p][i] =
                IF i < k THEN travelling[p][i] ELSE travelling[p][i + 1]
<1>1. travelling[p] \in Seq(BOOLEAN)
  BY DEF HeartbeatsInv, HeartbeatsTypeOK
<1>2. travelling'[p] = RemoveAt(travelling[p], k)
  BY DEF HeartbeatsInv, HeartbeatsTypeOK
<1> QED BY <1>1, <1>2, RemoveAtProps DEF HeartbeatsInv, HeartbeatsTypeOK

\* What arrives or is lost leaves BuiltDown, and the record the allocator had
\* with the one fewer that is older than the last applied.
LEMMA GoneKeepsHeartbeats ==
  ASSUME HeartbeatsInv, NEW p \in Processes, NEW k \in 1 .. Len(travelling[p]),
         travelling' = [travelling EXCEPT ![p] = RemoveAt(@, k)],
         UNCHANGED <<process, down, sending>>
  PROVE  /\ BuiltDown'
         /\ member' = Gone(p, k) => HeartbeatsInv'
<1> USE DEF HeartbeatsInv, HeartbeatsTypeOK, Processes
<1>1. /\ travelling' \in [Processes -> Seq(BOOLEAN)]
      /\ \A q \in Processes : q # p => travelling'[q] = travelling[q]
      /\ Len(travelling'[p]) = Len(travelling[p]) - 1
      /\ \A i \in 1 .. Len(travelling[p]) - 1 :
           travelling'[p][i] =
             IF i < k THEN travelling[p][i] ELSE travelling[p][i + 1]
  BY LeftTravelling
<1>2. BuiltDown'
  <2> SUFFICES ASSUME NEW q \in Processes
               PROVE  /\ q > process => travelling'[q] = <<>>
                      /\ \A i \in 1 .. Len(travelling'[q]) :
                           travelling'[q][i] =>
                             /\ q = process => down
                             /\ \A j \in i .. Len(travelling'[q]) : travelling'[q][j]
    BY DEF BuiltDown
  <2>1. CASE q # p
    BY <1>1, <2>1 DEF BuiltDown
  <2>2. CASE q = p
    <3>1. ~(p > process)
      BY DEF BuiltDown
    <3>2. \A i \in 1 .. Len(travelling'[p]) :
            travelling'[p][i] =>
              /\ p = process => down
              /\ \A j \in i .. Len(travelling'[p]) : travelling'[p][j]
      <4> SUFFICES ASSUME NEW i \in 1 .. Len(travelling'[p]), travelling'[p][i]
                   PROVE  /\ p = process => down
                          /\ \A j \in i .. Len(travelling'[p]) : travelling'[p][j]
        OBVIOUS
      <4> Len(travelling[p]) \in Nat
        OBVIOUS
      <4>1. PICK i0 \in 1 .. Len(travelling[p]) :
              travelling[p][i0] /\ i0 = (IF i < k THEN i ELSE i + 1)
        BY <1>1
      <4>2. \A j \in i0 .. Len(travelling[p]) : travelling[p][j]
        BY <4>1 DEF BuiltDown
      <4>3. \A j \in i .. Len(travelling'[p]) : travelling'[p][j]
        BY <1>1, <4>1, <4>2
      <4> QED BY <4>1, <4>3 DEF BuiltDown
    <3> QED BY <2>2, <3>1, <3>2
  <2> QED BY <2>1, <2>2
<1>3. ASSUME member' = Gone(p, k)
      PROVE  HeartbeatsInv'
  <2>1. CASE member = NoRecord
    BY <1>1, <1>2, <1>3, <2>1 DEF Gone, RecordedDown
  <2>2. CASE member # NoRecord /\ member.instance = p /\ k <= member.older
    <3>1. member' = [member EXCEPT !.older = @ - 1]
      BY <1>3, <2>2 DEF Gone
    <3>2. /\ member' \in [instance : Processes, retired : Processes \cup {NoRecord},
                          shuttingDown : BOOLEAN, older : Nat, age : 0 .. RecordTTL]
          /\ member'.instance = p /\ member'.older = member.older - 1
          /\ member'.shuttingDown = member.shuttingDown
      <4>1. member.older - 1 \in Nat
        BY <2>2
      <4> QED BY <2>2, <3>1, <4>1
    <3>3. HeartbeatsTypeOK'
      BY <1>1, <2>2, <3>2
    <3>4. RecordedDown'
      BY <1>1, <2>2, <3>2 DEF RecordedDown
    <3> QED BY <1>2, <3>3, <3>4
  <2>3. CASE member # NoRecord /\ ~(member.instance = p /\ k <= member.older)
    <3>1. member' = member
      BY <1>3, <2>3 DEF Gone
    <3>2. HeartbeatsTypeOK'
      BY <1>1, <2>3, <3>1
    <3>3. RecordedDown'
      <4>1. CASE member.instance = p
        BY <1>1, <2>3, <3>1, <4>1 DEF RecordedDown
      <4>2. CASE member.instance # p
        BY <1>1, <2>3, <3>1, <4>2 DEF RecordedDown
      <4> QED BY <4>1, <4>2
    <3> QED BY <1>2, <3>2, <3>3
  <2> QED BY <2>1, <2>2, <2>3
<1> QED BY <1>2, <1>3

\* One that is applied says whether its process is shutting down, and so does
\* what the process built after it.
LEMMA AppliedKeepsHeartbeats ==
  ASSUME HeartbeatsInv, NEW p \in Processes, NEW k \in 1 .. Len(travelling[p]),
         travelling' = [travelling EXCEPT ![p] = RemoveAt(@, k)],
         UNCHANGED <<process, down, sending>>,
         member' = Applied(p, k)
  PROVE  HeartbeatsInv'
<1> USE DEF HeartbeatsInv, HeartbeatsTypeOK, Processes
<1>1. /\ travelling' \in [Processes -> Seq(BOOLEAN)]
      /\ Len(travelling'[p]) = Len(travelling[p]) - 1
      /\ \A i \in 1 .. Len(travelling[p]) - 1 :
           travelling'[p][i] =
             IF i < k THEN travelling[p][i] ELSE travelling[p][i + 1]
  BY LeftTravelling
<1>2. BuiltDown'
  BY GoneKeepsHeartbeats
<1>3. member # NoRecord =>
        member.retired \in Processes \cup {NoRecord} /\ member.instance \in Processes
  OBVIOUS
<1>4. travelling[p][k] \in BOOLEAN
  OBVIOUS
<1>5. /\ member' \in [instance : Processes, retired : Processes \cup {NoRecord},
                      shuttingDown : BOOLEAN, older : Nat, age : 0 .. RecordTTL]
      /\ member'.instance = p /\ member'.older = k - 1
      /\ member'.shuttingDown = travelling[p][k]
  BY <1>3, <1>4, HeartbeatsAssumption DEF Applied
<1>6. HeartbeatsTypeOK'
  BY <1>1, <1>5
<1>7. p <= process
  BY DEF BuiltDown
<1>8. RecordedDown'
  <2> SUFFICES ASSUME travelling[p][k]
               PROVE  /\ p = process => down
                      /\ \A j \in k .. Len(travelling'[p]) : travelling'[p][j]
    BY <1>5, <1>7 DEF RecordedDown
  <2>1. \A j \in k .. Len(travelling[p]) : travelling[p][j]
    BY DEF BuiltDown
  <2>2. \A j \in k .. Len(travelling'[p]) : travelling'[p][j]
    BY <1>1, <2>1
  <2> QED BY <2>2 DEF BuiltDown
<1> QED BY <1>2, <1>6, <1>8

LEMMA AllocatorKeepsHeartbeats ==
  ASSUME HeartbeatsInv, (\E p \in Processes : Travels(p)) \/ Age \/ Forget
  PROVE  HeartbeatsInv'
<1>1. CASE \E p \in Processes : Travels(p)
  <2>0. PICK p \in Processes : Travels(p)
    BY <1>1
  <2>1. PICK k \in 1 .. Len(travelling[p]) : Heartbeat(p, k) \/ Lose(p, k)
    BY <2>0 DEF Travels, Heartbeat, Lose
  <2>2. /\ travelling' = [travelling EXCEPT ![p] = RemoveAt(@, k)]
        /\ UNCHANGED <<process, down, sending>>
        /\ member' \in {Gone(p, k), Applied(p, k)}
    BY <2>1 DEF Heartbeat, Lose, Ignored
  <2> QED BY <2>2, GoneKeepsHeartbeats, AppliedKeepsHeartbeats
<1>2. CASE Age
  <2>1. /\ member' \in [instance : Processes, retired : Processes \cup {NoRecord},
                        shuttingDown : BOOLEAN, older : Nat, age : 0 .. RecordTTL]
        /\ member'.instance = member.instance /\ member'.older = member.older
        /\ member'.shuttingDown = member.shuttingDown
    <3>1. member' = [member EXCEPT !.age = member.age + 1] /\ member # NoRecord
      BY <1>2 DEF Age
    <3>2. member.age + 1 \in 0 .. RecordTTL
      BY <1>2, HeartbeatsAssumption DEF Age, HeartbeatsInv, HeartbeatsTypeOK
    <3> QED BY <3>1, <3>2 DEF HeartbeatsInv, HeartbeatsTypeOK
  <2> QED BY <1>2, <2>1
             DEF Age, HeartbeatsInv, HeartbeatsTypeOK, BuiltDown, RecordedDown
<1>3. CASE Forget
  BY <1>3 DEF Forget, HeartbeatsInv, HeartbeatsTypeOK, BuiltDown, RecordedDown
<1> QED BY <1>1, <1>2, <1>3

LEMMA StutterKeepsHeartbeats == HeartbeatsInv /\ UNCHANGED hvars => HeartbeatsInv'
BY DEF HeartbeatsInv, HeartbeatsTypeOK, BuiltDown, RecordedDown, hvars

LEMMA HeartbeatsInvHolds == HeartbeatsSpec => []HeartbeatsInv
<1>1. HeartbeatsInv /\ [HeartbeatsNext]_hvars => HeartbeatsInv'
  BY ReplicaKeepsHeartbeats, AllocatorKeepsHeartbeats, StutterKeepsHeartbeats
     DEF HeartbeatsNext
<1> QED BY HeartbeatsInitInv, <1>1, PTL DEF HeartbeatsSpec

\* One step of a member down is to stay down, unless another process of it is
\* on record or it is dropped.
StaysDown ==
  member # NoRecord /\ member.shuttingDown /\ member' # NoRecord
    /\ ~member'.shuttingDown => member'.instance # member.instance

LEMMA StepStaysDown == HeartbeatsInv /\ [HeartbeatsNext]_hvars => StaysDown
<1> SUFFICES ASSUME HeartbeatsInv, [HeartbeatsNext]_hvars,
                    member # NoRecord, member.shuttingDown,
                    member' # NoRecord, ~member'.shuttingDown
             PROVE  member'.instance # member.instance
  BY DEF StaysDown
<1>1. member' # member
  OBVIOUS
<1>2. CASE \E p \in Processes : Travels(p)
  <2>0. PICK p \in Processes : Travels(p)
    BY <1>2
  <2>1. PICK k \in 1 .. Len(travelling[p]) : Heartbeat(p, k) \/ Lose(p, k)
    BY <2>0 DEF Travels, Heartbeat, Lose
  <2>2. Gone(p, k) = member \/ Gone(p, k) = [member EXCEPT !.older = @ - 1]
    BY DEF Gone
  <2>3. Gone(p, k).shuttingDown = member.shuttingDown
    BY <2>2 DEF HeartbeatsInv, HeartbeatsTypeOK
  <2>4. Heartbeat(p, k) /\ ~stale(p, k) /\ member' = Applied(p, k)
    BY <2>1, <2>3 DEF Heartbeat, Lose, Ignored
  <2>5. member'.instance = p /\ ~travelling[p][k]
    BY <2>4 DEF Applied
  <2>6. member.instance = p => k > member.older
    BY <2>4 DEF stale, HeartbeatsInv, HeartbeatsTypeOK
  <2> QED BY <2>5, <2>6 DEF HeartbeatsInv, HeartbeatsTypeOK, RecordedDown
<1>3. CASE Age
  BY <1>3 DEF Age, HeartbeatsInv, HeartbeatsTypeOK
<1>4. CASE Forget
  BY <1>4 DEF Forget
<1> QED BY <1>1, <1>2, <1>3, <1>4, ReplicaKeepsHeartbeats DEF HeartbeatsNext, hvars

\* A member on record that said it is shutting down is not made live again by
\* what its process sent before (Allocator.Heartbeat, stale and the numbers of
\* Client.heartbeat), for any number of processes and of heartbeats in flight.
THEOREM DownMembersStayDown == HeartbeatsSpec => DownStaysDown
<1>1. HeartbeatsInv => HeartbeatsTypeOK
  BY DEF HeartbeatsInv
<1>2. HeartbeatsInv /\ [HeartbeatsNext]_hvars =>
        [member # NoRecord /\ member.shuttingDown /\ member' # NoRecord
          /\ ~member'.shuttingDown => member'.instance # member.instance]_hvars
  BY StepStaysDown DEF StaysDown
<1> QED BY HeartbeatsInvHolds, <1>1, <1>2, PTL DEF HeartbeatsSpec, DownStaysDown

-----------------------------------------------------------------------------
(* The delivery of bundles. *)

\* What is applied is a bundle the replica has neither seen nor in force.
ApplyingNew ==
  loop = "applying" =>
    \E g \in Generations : answer = Bundle(g) /\ g \notin {seen, inForce}

DeliveryInv == NoChangeMissed /\ RefusalKept /\ ApplyingNew

\* The answers a request may get differ from each other.
LEMMA AnswersApart ==
  /\ NoAnswer # Same /\ NoAnswer # Unsettled /\ Same # Unsettled
  /\ \A g : /\ Bundle(g) \notin {NoAnswer, Same, Unsettled}
            /\ Bundle(g).says = "bundle" /\ Bundle(g).generation = g
  /\ NoAnswer.says # "bundle" /\ Same.says # "bundle" /\ Unsettled.says # "bundle"
BY DEF NoAnswer, Same, Unsettled, Bundle

LEMMA DeliveryInitInv == DeliveryInit => DeliveryInv
<1> SUFFICES ASSUME DeliveryInit PROVE DeliveryInv
  OBVIOUS
<1>1. DeliveryTypeOK
  <2>1. {current, have, seen, inForce, refused, reply} \subseteq Generations \cup {NoBundle}
    BY DEF DeliveryInit
  <2>2. changes \in 0 .. MaxChanges /\ failures \in 0 .. MaxFailures
    BY DeliveryAssumption DEF DeliveryInit
  <2> QED BY <2>1, <2>2 DEF DeliveryInit, DeliveryTypeOK
<1>2. RefusalKept
  BY DEF DeliveryInit, RefusalKept
<1> QED BY <1>1, <1>2 DEF DeliveryInit, DeliveryInv, NoChangeMissed, ApplyingNew

(* The allocator's steps. *)

LEMMA AllocatorKeepsDelivery ==
  ASSUME DeliveryInv,
         \/ \E g \in Generations : rebuild(g)
         \/ rebuildOther \/ restart
  PROVE  DeliveryInv'
<1> USE DeliveryAssumption
    DEF DeliveryInv, NoChangeMissed, DeliveryTypeOK, RefusalKept, ApplyingNew, client
<1>1. CASE \E g \in Generations : rebuild(g)
  BY <1>1 DEF rebuild
<1>2. CASE rebuildOther
  BY <1>2 DEF rebuildOther, server
<1>3. CASE restart
  BY <1>3 DEF restart
<1> QED BY <1>1, <1>2, <1>3

\* The handler reads the bundle after it took the channel: what changes in
\* between closes the channel it holds.
LEMMA HandlerKeepsDelivery ==
  ASSUME DeliveryInv, takeChanges \/ readBundle \/ endWait \/ lastLook
  PROVE  DeliveryInv'
<1> USE DeliveryAssumption
    DEF DeliveryInv, NoChangeMissed, DeliveryTypeOK, RefusalKept, ApplyingNew, client, server
<1>1. CASE takeChanges
  BY <1>1 DEF takeChanges
<1>2. CASE readBundle
  BY <1>2, AnswersApart DEF readBundle
<1>3. CASE endWait
  BY <1>3 DEF endWait
<1>4. CASE lastLook
  BY <1>4, AnswersApart DEF lastLook
<1> QED BY <1>1, <1>2, <1>3, <1>4

(* The replica's steps. *)

LEMMA RequestKeepsDelivery ==
  ASSUME DeliveryInv, fetch \/ fetchFails \/ unchanged \/ apply
  PROVE  DeliveryInv'
<1> USE DeliveryAssumption
    DEF DeliveryInv, NoChangeMissed, DeliveryTypeOK, RefusalKept, ApplyingNew, client, server, poll
<1>1. CASE fetch
  <2>1. RefusalKept' /\ ApplyingNew'
    BY <1>1 DEF fetch
  <2>2. NoChangeMissed'
    BY <1>1 DEF fetch
  <2> QED BY <2>1, <2>2
<1>2. CASE fetchFails
  <2>1. failures' \in 0 .. MaxFailures
    BY <1>2 DEF fetchFails
  <2> QED BY <1>2, <2>1 DEF fetchFails
<1>3. CASE unchanged
  BY <1>3, AnswersApart DEF unchanged
<1>4. CASE apply
  BY <1>4, AnswersApart DEF apply
<1> QED BY <1>1, <1>2, <1>3, <1>4

\* The bundle applied is new to the replica: refused, it is not the one in
\* force, and otherwise it comes into force and clears the refusal.
LEMMA ApplyingKeepsDelivery ==
  ASSUME DeliveryInv, applyFails \/ applied
  PROVE  DeliveryInv'
<1> USE DeliveryAssumption
    DEF DeliveryInv, NoChangeMissed, DeliveryTypeOK, RefusalKept, ApplyingNew, client, server, poll
<1> handler = "away"
  BY DEF applyFails, applied
<1>1. CASE applyFails
  <2>1. failures' \in 0 .. MaxFailures
    BY <1>1 DEF applyFails
  <2> QED BY <1>1, <2>1 DEF applyFails, Unwritten
<1>2. CASE applied
  <2> PICK g \in Generations : answer = Bundle(g) /\ g \notin {seen, inForce}
    BY <1>2 DEF applied
  <2>1. answer.generation = g
    BY AnswersApart
  <2>2. RefusalKept'
    BY <1>2, <2>1 DEF applied
  <2>3. {current, have, seen, inForce, refused, reply}' \subseteq Generations \cup {NoBundle}
    BY <1>2, <2>1 DEF applied
  <2> QED BY <1>2, <2>2, <2>3 DEF applied
<1> QED BY <1>1, <1>2

LEMMA WakesKeepDelivery ==
  ASSUME DeliveryInv, waited \/ replyLocked \/ heartbeatReply
  PROVE  DeliveryInv'
<1> USE DeliveryAssumption
    DEF DeliveryInv, NoChangeMissed, DeliveryTypeOK, RefusalKept, ApplyingNew, client, server, poll
<1>1. CASE waited
  BY <1>1 DEF waited
<1>2. CASE replyLocked
  BY <1>2 DEF replyLocked
<1>3. CASE heartbeatReply
  BY <1>3 DEF heartbeatReply
<1> QED BY <1>1, <1>2, <1>3

LEMMA StutterKeepsDelivery == DeliveryInv /\ UNCHANGED dvars => DeliveryInv'
BY DEF DeliveryInv, NoChangeMissed, DeliveryTypeOK, RefusalKept, ApplyingNew,
       dvars, server, poll, client

LEMMA DeliveryInvHolds == DeliverySpec => []DeliveryInv
<1>1. DeliveryInv /\ [DeliveryNext]_dvars => DeliveryInv'
  BY AllocatorKeepsDelivery, HandlerKeepsDelivery, RequestKeepsDelivery, ApplyingKeepsDelivery,
     WakesKeepDelivery, StutterKeepsDelivery DEF DeliveryNext
<1> QED BY DeliveryInitInv, <1>1, PTL DEF DeliverySpec

\* No change of a bundle is slept through by the request that waits for it
\* (serveBundle), for any bundles and any number of changes and failures.
THEOREM NoChangeEverMissed == DeliverySpec => []NoChangeMissed
BY DeliveryInvHolds, PTL DEF DeliveryInv

\* A replica reports a refusal for exactly as long as the last bundle it
\* fetched is not the one it has in force (Client.bundle and apply).
THEOREM RefusalAlwaysKept == DeliverySpec => []RefusalKept
BY DeliveryInvHolds, PTL DEF DeliveryInv

-----------------------------------------------------------------------------
(* Peers. *)

Answers == [says : {"up", "failed", "shutting down"}, id : Nat,
            discovering : BOOLEAN, addressKnown : BOOLEAN]
KnownPeers == [live : BOOLEAN, fails : 0 .. FailureThreshold, answer : Answers]
RoundStates ==
  [at : {"waiting", "checked", "chosen"},
   answers : {Nobody} \cup UNION {[S -> Answers] : S \in SUBSET Instances},
   seed : BOOLEAN]
SnapStates ==
  [at : {"ended", "asking", "leading"}, from : Instances \cup {Nobody},
   seed : BOOLEAN, cancelled : BOOLEAN]

PeersTyped ==
  /\ up \in [Instances -> {"running", "stopping", "down"}]
  /\ id \in [Instances -> Ids]
  /\ self \in [Instances -> BOOLEAN]
  /\ took \in [Instances -> BOOLEAN]
  /\ discovering \in [Instances -> BOOLEAN]
  /\ leader \in [Instances -> Instances \cup {Nobody}]
  /\ known \in [Instances -> [Instances -> KnownPeers]]
  /\ round \in [Instances -> RoundStates]
  /\ snap \in [Instances -> SnapStates]

\* What an instance's round has in hand: the answers of those it checks, and,
\* for a leader to be seeded, a live peer to be seeded by.
RoundsInOrder ==
  \A i \in Instances :
    /\ round[i].at = "checked" => round[i].answers \in [Checked(i) -> Answers]
    /\ round[i].at = "chosen" /\ round[i].seed => LiveIn(known[i]) # {}

\* A fetch is cancelled only by the choice its round has still to act on, one
\* that leads is a seed, and no other is from the instance itself.
FetchesInOrder ==
  \A i \in Instances :
    /\ ~Running(i) => leader[i] = Nobody /\ Ended(snap[i]) /\ ~discovering[i]
    /\ Ended(snap[i]) => ~snap[i].seed /\ ~snap[i].cancelled
    /\ snap[i].cancelled => round[i].at = "chosen"
    /\ snap[i].at = "leading" => snap[i].seed
    /\ ~snap[i].seed => snap[i].from # i

\* DiscoversAsChosen and FetchesOfLeader are kept only with these: a fetch that
\* leads late leads an instance that a round has still to act for, and one
\* that a round goes on with is of the leader it chose.
PeersInv ==
  PeersTyped /\ RoundsInOrder /\ FetchesInOrder /\ DiscoversAsChosen /\ FetchesOfLeader

-----------------------------------------------------------------------------
(* The leader chosen is an instance. *)

LEMMA LowestIn ==
  ASSUME NEW S \in SUBSET Nat, S # {}
  PROVE  Lowest(S) \in S
BY LeastOf DEF Lowest

\* Of those that discover and have no rank, the first is the one of the lowest id.
LEMMA ChosenInstance ==
  ASSUME NEW i \in Instances, NEW knows, NEW peers \in [Instances -> KnownPeers]
  PROVE  chooseLeader(i, knows, peers) \in Instances
<1> DEFINE others == LiveIn(peers)
           busy   == {j \in others : peers[j].answer.discovering}
           ranked == {j \in busy : peers[j].answer.addressKnown}
           first  == CHOOSE j \in busy :
                       \A k \in busy : peers[j].answer.id <= peers[k].answer.id
<1>1. others \subseteq Instances /\ busy \subseteq Instances /\ ranked \subseteq Instances
  BY DEF LiveIn
<1>2. Lowest(others \cup {i}) \in Instances
  BY <1>1, LowestIn, PeersAssumption
<1>3. ranked # {} => Lowest(ranked) \in Instances
  BY <1>1, LowestIn, PeersAssumption
<1>4. ASSUME busy # {}
      PROVE  first \in busy
  <2>1. \A j \in busy : peers[j].answer.id \in Nat
    BY <1>1 DEF KnownPeers, Answers
  <2> HIDE DEF busy
  <2> DEFINE numbers == {peers[j].answer.id : j \in busy}
  <2>2. numbers \in SUBSET Nat /\ numbers # {}
    BY <1>4, <2>1
  <2>3. PICK n \in numbers : \A m \in numbers : n <= m
    BY <2>2, LeastOf
  <2>4. PICK j \in busy : peers[j].answer.id = n
    BY <2>3
  <2>5. \A k \in busy : peers[j].answer.id <= peers[k].answer.id
    BY <2>3, <2>4
  <2> QED BY <2>4, <2>5
<1>5. chooseLeader(i, knows, peers) \in {Lowest(others \cup {i}), i}
        \/ (ranked # {} /\ chooseLeader(i, knows, peers) = Lowest(ranked))
        \/ (busy # {} /\ chooseLeader(i, knows, peers) = first)
  BY DEF chooseLeader
<1> QED BY <1>1, <1>2, <1>3, <1>4, <1>5

-----------------------------------------------------------------------------
(* The types of what a check and a fetch leave. *)

LEMMA InitialValues ==
  /\ Failed \in Answers /\ Leaving \in Answers /\ Unseen \in KnownPeers
  /\ Waiting \in RoundStates /\ NoFetch \in SnapStates
  /\ Waiting.at = "waiting" /\ Ended(NoFetch) /\ ~NoFetch.seed /\ ~NoFetch.cancelled
  /\ NoFetch.from = Nobody /\ NoFetch.at = "ended"
<1>1. Failed \in Answers /\ Leaving \in Answers
  BY DEF Failed, Leaving, Answers
<1>2. Unseen \in KnownPeers
  BY <1>1, PeersAssumption DEF Unseen, KnownPeers
<1>3. Waiting \in RoundStates /\ Waiting.at = "waiting"
  BY DEF Waiting, RoundStates
<1>4. NoFetch \in SnapStates
  BY DEF NoFetch, SnapStates
<1> QED BY <1>1, <1>2, <1>3, <1>4 DEF NoFetch, Ended

LEMMA NotedType ==
  ASSUME NEW st \in KnownPeers, NEW heard \in Answers
  PROVE  Noted(st, heard) \in KnownPeers
<1>1. CASE heard.says = "up"
  BY <1>1, PeersAssumption DEF Noted, KnownPeers
<1>2. CASE heard.says # "up" /\ st.live /\ heard.says = "failed"
             /\ st.fails + 1 < FailureThreshold
  <2>1. st.fails + 1 \in 0 .. FailureThreshold
    BY <1>2, PeersAssumption DEF KnownPeers
  <2> QED BY <1>2, <2>1 DEF Noted, KnownPeers
<1> QED BY <1>1, <1>2, InitialValues DEF Noted

-----------------------------------------------------------------------------
(* Every step keeps the invariant. *)

LEMMA PeersInitInv == PeersInit => PeersInv
BY InitialValues, PeersAssumption
   DEF PeersInit, PeersInv, PeersTyped, RoundsInOrder, FetchesInOrder, DiscoversAsChosen,
       FetchesOfLeader, Running

\* The answers of a round change nothing of who leads and who fetches.
LEMMA CheckKeepsPeers ==
  ASSUME PeersInv, NEW i \in Instances, check(i)
  PROVE  PeersInv'
<1> USE DEF PeersInv, PeersTyped
<1>1. PICK slow \in SUBSET {j \in Checked(i) : Running(j)} :
        round' = [round EXCEPT ![i] = [Waiting EXCEPT
            !.at = "checked",
            !.answers = [j \in Checked(i) |->
                           IF j \in slow THEN Failed ELSE Heard(i, servePeer(j))]]]
  BY DEF check
<1> DEFINE heard == [j \in Checked(i) |->
                       IF j \in slow THEN Failed ELSE Heard(i, servePeer(j))]
<1>2. \A j \in Instances : servePeer(j) \in Answers
  <2> SUFFICES ASSUME NEW j \in Instances PROVE servePeer(j) \in Answers
    OBVIOUS
  <2>1. id[j] \in Nat
    BY PeersAssumption
  <2> QED BY <2>1, InitialValues DEF servePeer, Answers
<1>3. \A a \in Answers : Heard(i, a) \in Answers
  BY DEF Heard, Failed, Answers
<1>4. Checked(i) \subseteq Instances
  BY DEF Checked
<1>5. heard \in [Checked(i) -> Answers]
  BY <1>2, <1>3, <1>4, InitialValues
<1> DEFINE checked == [Waiting EXCEPT !.at = "checked", !.answers = heard]
<1>6. round' = [round EXCEPT ![i] = checked]
  BY <1>1
<1> HIDE DEF heard
<1>7. checked \in RoundStates /\ checked.at = "checked" /\ checked.answers = heard
  <2>1. heard \in UNION {[S -> Answers] : S \in SUBSET Instances}
    BY <1>4, <1>5
  <2> QED BY <2>1 DEF RoundStates, Waiting
<1> HIDE DEF checked
<1>8. /\ round' \in [Instances -> RoundStates]
      /\ round'[i].at = "checked" /\ round'[i].answers = heard
      /\ \A j \in Instances : j # i => round'[j] = round[j]
  BY <1>6, <1>7
<1>9. UNCHANGED <<reach, up, id, self, known, leader, took, discovering, snap>>
        /\ Running(i) /\ round[i].at = "waiting"
  BY DEF check, learned
<1>10. PeersTyped'
  BY <1>8, <1>9
<1>11. \A j \in Instances : Checked(j)' = Checked(j) /\ LiveIn(known[j])' = LiveIn(known[j])
  BY <1>9 DEF Checked, LiveIn
<1>13. RoundsInOrder'
  BY <1>5, <1>8, <1>11 DEF RoundsInOrder
<1>12. FetchesInOrder' /\ DiscoversAsChosen' /\ FetchesOfLeader'
  <2>1. \A j \in Instances : round[j].at = "chosen" <=> round'[j].at = "chosen"
    BY <1>8, <1>9
  <2>2. FetchesInOrder'
    BY <1>9, <2>1 DEF FetchesInOrder, Running
  <2>3. DiscoversAsChosen'
    BY <1>9, <2>1 DEF DiscoversAsChosen
  <2>4. FetchesOfLeader'
    BY <1>9 DEF FetchesOfLeader
  <2> QED BY <2>2, <2>3, <2>4
<1> QED BY <1>10, <1>12, <1>13

\* A choice leaves a fetch under way uncancelled only when it goes on with it.
LEMMA ChooseKeepsPeers ==
  ASSUME PeersInv, NEW i \in Instances, choose(i)
  PROVE  PeersInv'
<1> USE DEF PeersInv, PeersTyped
<1> DEFINE knows  == self[i] \/ (i \in Checked(i) /\ round[i].answers[i].says = "up")
           now    == KnownAfter(i)
           chosen == chooseLeader(i, knows, now)
           seed   == chosen = i /\ leader[i] # i /\ ~took[i] /\ LiveIn(now) # {}
           acts   == [Waiting EXCEPT !.at = "chosen", !.seed = seed]
           cut    == ~Ended(snap[i]) /\ (snap[i].cancelled \/ ~Kept(i, chosen, seed))
<1>1. /\ Running(i) /\ round[i].at = "checked"
      /\ UNCHANGED <<reach, up, id, took, discovering, lost, stops>>
      /\ self' = [self EXCEPT ![i] = knows]
      /\ known' = [known EXCEPT ![i] = now]
      /\ leader' = [leader EXCEPT ![i] = chosen]
      /\ round' = [round EXCEPT ![i] = acts]
      /\ snap' = [snap EXCEPT ![i].cancelled = cut]
  BY DEF choose
<1>2. now \in [Instances -> KnownPeers]
  <2> SUFFICES ASSUME NEW j \in Instances
               PROVE  (IF j = i THEN Unseen ELSE Noted(known[i][j], round[i].answers[j]))
                        \in KnownPeers
    BY DEF KnownAfter
  <2>1. CASE j = i
    BY <2>1, InitialValues
  <2>2. CASE j # i
    <3>1. round[i].answers[j] \in Answers
      BY <1>1, <2>2 DEF RoundsInOrder, Checked
    <3>2. known[i][j] \in KnownPeers
      OBVIOUS
    <3> QED BY <2>2, <3>1, <3>2, NotedType
  <2> QED BY <2>1, <2>2
<1>3. chosen \in Instances
  BY <1>2, ChosenInstance
<1>4. knows \in BOOLEAN /\ seed \in BOOLEAN /\ cut \in BOOLEAN
  OBVIOUS
<1>5. acts \in RoundStates
  BY <1>4 DEF RoundStates, Waiting
<1>6. cut = FALSE => Ended(snap[i]) \/ (~snap[i].cancelled /\ Kept(i, chosen, seed))
  OBVIOUS
<1>7. cut => ~Ended(snap[i])
  OBVIOUS
<1>8. seed => LiveIn(now) # {}
  OBVIOUS
<1>9. acts.at = "chosen" /\ acts.seed = seed
  BY DEF Waiting
<1> HIDE DEF knows, now, chosen, seed, acts, cut
<1>10. /\ round' \in [Instances -> RoundStates] /\ round'[i] = acts
       /\ known' \in [Instances -> [Instances -> KnownPeers]] /\ known'[i] = now
       /\ leader' \in [Instances -> Instances \cup {Nobody}] /\ leader'[i] = chosen
       /\ self' \in [Instances -> BOOLEAN]
       /\ \A j \in Instances : j # i =>
            round'[j] = round[j] /\ known'[j] = known[j] /\ leader'[j] = leader[j]
              /\ self'[j] = self[j]
  BY <1>1, <1>2, <1>3, <1>4, <1>5
<1>11. /\ snap' \in [Instances -> SnapStates]
       /\ snap'[i] = [snap[i] EXCEPT !.cancelled = cut]
       /\ snap'[i].at = snap[i].at /\ snap'[i].seed = snap[i].seed
       /\ snap'[i].from = snap[i].from /\ snap'[i].cancelled = cut
       /\ \A j \in Instances : j # i => snap'[j] = snap[j]
  <2>1. snap[i] \in SnapStates
    OBVIOUS
  <2>2. [snap[i] EXCEPT !.cancelled = cut] \in SnapStates
    BY <1>4, <2>1 DEF SnapStates
  <2> QED BY <1>1, <1>4, <2>1, <2>2 DEF SnapStates
<1>12. PeersTyped'
  BY <1>1, <1>10, <1>11
<1>13. RoundsInOrder'
  <2> SUFFICES ASSUME NEW j \in Instances
               PROVE  /\ round'[j].at = "checked" => round'[j].answers \in [Checked(j)' -> Answers]
                      /\ round'[j].at = "chosen" /\ round'[j].seed => LiveIn(known'[j]) # {}
    BY DEF RoundsInOrder
  <2>1. CASE j = i
    BY <1>8, <1>9, <1>10, <2>1
  <2>2. CASE j # i
    <3>1. Checked(j)' = Checked(j)
      BY <1>1, <1>10, <2>2 DEF Checked
    <3> QED BY <1>10, <2>2, <3>1 DEF RoundsInOrder
  <2> QED BY <2>1, <2>2
<1>14. FetchesInOrder'
  BY <1>1, <1>7, <1>9, <1>10, <1>11 DEF FetchesInOrder, Running, Ended
<1>15. DiscoversAsChosen' /\ FetchesOfLeader'
  BY <1>1, <1>4, <1>6, <1>9, <1>10, <1>11 DEF DiscoversAsChosen, FetchesOfLeader, Ended, Kept
<1> QED BY <1>12, <1>13, <1>14, <1>15

\* A round acts only when no fetch is under way that was cancelled, and a fetch
\* that is still under way is the one its choice goes on with.
LEMMA ActKeepsPeers ==
  ASSUME PeersInv, NEW i \in Instances, act(i)
  PROVE  PeersInv'
<1> USE DEF PeersInv, PeersTyped
<1> DEFINE leads  == leader[i] = i
           seeds  == leads /\ round[i].seed
           source == IF leads THEN Lowest(LiveIn(known[i])) ELSE leader[i]
           asking == [at |-> "asking", seed |-> leads, cancelled |-> FALSE, from |-> source]
           same   == ~Ended(snap[i]) \/ (leads /\ ~seeds)
           busy   == leads /\ (discovering[i] \/ (Ended(snap[i]) /\ ~seeds))
<1>1. /\ Running(i) /\ round[i].at = "chosen"
      /\ Ended(snap[i]) \/ ~snap[i].cancelled
      /\ UNCHANGED <<reach, up, id, self, known, leader, took>>
      /\ round' = [round EXCEPT ![i] = Waiting]
      /\ discovering' = [discovering EXCEPT ![i] = busy]
      /\ snap' = [snap EXCEPT ![i] = IF same THEN snap[i] ELSE asking]
  BY DEF act, Acts, learned
<1>2. seeds => LiveIn(known[i]) # {} /\ LiveIn(known[i]) \in SUBSET Nat
                 /\ LiveIn(known[i]) \subseteq Instances
  BY <1>1, PeersAssumption DEF RoundsInOrder, LiveIn
<1>3. ~same => asking \in SnapStates
  <2>1. seeds => Lowest(LiveIn(known[i])) \in Instances
    BY <1>2, LowestIn
  <2>2. ~same => source \in Instances \cup {Nobody}
    BY <2>1
  <2> QED BY <2>2 DEF SnapStates
<1>4. /\ ~same => Ended(snap[i]) /\ (leads => seeds)
      /\ same => ~Ended(snap[i]) \/ (leads /\ ~seeds)
      /\ busy => leads
      /\ leads /\ Ended(snap[i]) /\ ~seeds => busy
  OBVIOUS
<1>5. /\ ~Ended(asking) /\ asking.at = "asking" /\ asking.seed = leads /\ ~asking.cancelled
      /\ ~leads => asking.from = leader[i]
  BY DEF Ended
<1>6. busy \in BOOLEAN /\ leads \in BOOLEAN /\ (leads <=> leader[i] = i)
  OBVIOUS
<1> HIDE DEF busy, same, asking, source, seeds, leads
<1>7. /\ round' \in [Instances -> RoundStates] /\ round'[i].at = "waiting"
      /\ discovering' \in [Instances -> BOOLEAN] /\ (discovering'[i] = busy)
      /\ snap' \in [Instances -> SnapStates]
      /\ snap'[i] = IF same THEN snap[i] ELSE asking
      /\ \A j \in Instances : j # i =>
           round'[j] = round[j] /\ snap'[j] = snap[j] /\ discovering'[j] = discovering[j]
  BY <1>1, <1>3, <1>6, InitialValues
<1>8. PeersTyped'
  BY <1>1, <1>7
<1>9. RoundsInOrder'
  <2>1. \A j \in Instances : Checked(j)' = Checked(j)
    BY <1>1 DEF Checked
  <2> QED BY <1>1, <1>7, <2>1 DEF RoundsInOrder
<1>10. FetchesInOrder'
  <2> SUFFICES ASSUME NEW j \in Instances
               PROVE  /\ ~Running(j)' => /\ leader'[j] = Nobody /\ Ended(snap'[j])
                                         /\ ~discovering'[j]
                      /\ Ended(snap'[j]) => ~snap'[j].seed /\ ~snap'[j].cancelled
                      /\ snap'[j].cancelled => round'[j].at = "chosen"
                      /\ snap'[j].at = "leading" => snap'[j].seed
                      /\ ~snap'[j].seed => snap'[j].from # j
    BY DEF FetchesInOrder
  <2>1. CASE j # i
    BY <1>1, <1>7, <2>1 DEF FetchesInOrder, Running
  <2>2. CASE j = i /\ same
    <3>1. snap'[i] = snap[i] /\ ~snap[i].cancelled
      BY <1>1, <1>7, <2>2 DEF FetchesInOrder, Ended
    <3> QED BY <1>1, <2>2, <3>1 DEF FetchesInOrder, Running
  <2>3. CASE j = i /\ ~same
    BY <1>1, <1>5, <1>6, <1>7, <2>3 DEF Running
  <2> QED BY <2>1, <2>2, <2>3
<1>11. DiscoversAsChosen'
  <2>1. CASE same
    BY <1>1, <1>4, <1>6, <1>7, <2>1
       DEF DiscoversAsChosen, FetchesInOrder, FetchesOfLeader, Ended
  <2>2. CASE ~same
    BY <1>1, <1>4, <1>5, <1>6, <1>7, <2>2 DEF DiscoversAsChosen
  <2> QED BY <2>1, <2>2
<1>12. FetchesOfLeader'
  BY <1>1, <1>5, <1>6, <1>7 DEF FetchesOfLeader
<1> QED BY <1>8, <1>9, <1>10, <1>11, <1>12

\* A fetch ends, or a seeded leader begins to discover: between two rounds
\* nothing has cancelled it, so it is still what the instance has chosen.
LEMMA FetchKeepsPeers ==
  ASSUME PeersInv, NEW i \in Instances, Fetches(i)
  PROVE  PeersInv'
<1> USE DEF PeersInv, PeersTyped
<1>1. CASE fetchEnds(i)
  <2> DEFINE f == snap[i]
             leading == [f EXCEPT !.at = "leading"]
  <2>1. /\ f.at = "asking"
        /\ UNCHANGED <<reach, up, id, self, known, leader, discovering, round>>
        /\ took' \in [Instances -> BOOLEAN]
        /\ \/ f.seed /\ ~f.cancelled /\ leader[i] = i /\ snap' = [snap EXCEPT ![i] = leading]
           \/ /\ ~(f.seed /\ ~f.cancelled /\ leader[i] = i)
              /\ snap' = [snap EXCEPT ![i] = NoFetch]
    BY <1>1 DEF fetchEnds
  <2>2. /\ leading \in SnapStates /\ leading.at = "leading" /\ leading.seed = f.seed
        /\ leading.from = f.from /\ leading.cancelled = f.cancelled
    <3>1. f \in SnapStates
      OBVIOUS
    <3> QED BY <3>1 DEF SnapStates
  <2>3. PeersTyped'
    BY <2>1, <2>2, InitialValues
  <2>4. RoundsInOrder'
    <3>1. \A j \in Instances : Checked(j)' = Checked(j)
      BY <2>1 DEF Checked
    <3> QED BY <2>1, <3>1 DEF RoundsInOrder
  <2> HIDE DEF leading
  <2>5. /\ snap'[i] \in {leading, NoFetch}
        /\ \A j \in Instances : j # i => snap'[j] = snap[j]
    BY <2>1
  <2>6. Running(i)
    BY <2>1 DEF FetchesInOrder, Ended
  <2>7. FetchesInOrder'
    BY <2>1, <2>2, <2>5, <2>6, InitialValues, PeersAssumption
       DEF FetchesInOrder, Running, Ended
  <2>8. DiscoversAsChosen'
    BY <2>1, <2>2, <2>5, InitialValues
       DEF DiscoversAsChosen, FetchesInOrder, FetchesOfLeader, Ended
  <2>9. FetchesOfLeader'
    BY <2>1, <2>2, <2>5, InitialValues DEF FetchesOfLeader
  <2> QED BY <2>3, <2>4, <2>7, <2>8, <2>9
<1>2. CASE seedLeads(i)
  <2>1. /\ snap[i].at = "leading"
        /\ UNCHANGED <<reach, up, id, self, known, leader, took, round>>
        /\ snap' = [snap EXCEPT ![i] = NoFetch]
        /\ discovering' = [discovering EXCEPT ![i] = TRUE]
    BY <1>2 DEF seedLeads, learned
  <2>2. PeersTyped'
    BY <2>1, InitialValues
  <2>3. RoundsInOrder'
    <3>1. \A j \in Instances : Checked(j)' = Checked(j)
      BY <2>1 DEF Checked
    <3> QED BY <2>1, <3>1 DEF RoundsInOrder
  <2>4. /\ snap'[i] = NoFetch /\ discovering'[i]
        /\ \A j \in Instances : j # i =>
             snap'[j] = snap[j] /\ discovering'[j] = discovering[j]
    BY <2>1
  <2>5. Running(i) /\ (round[i].at # "chosen" => leader[i] = i)
    BY <2>1 DEF FetchesInOrder, FetchesOfLeader, Ended
  <2>6. FetchesInOrder'
    BY <2>1, <2>4, <2>5, InitialValues, PeersAssumption DEF FetchesInOrder, Running
  <2>7. DiscoversAsChosen'
    BY <2>1, <2>4, <2>5 DEF DiscoversAsChosen
  <2>8. FetchesOfLeader'
    BY <2>1, <2>4, InitialValues DEF FetchesOfLeader
  <2> QED BY <2>2, <2>3, <2>6, <2>7, <2>8
<1> QED BY <1>1, <1>2 DEF Fetches

LEMMA LeavesKeepsPeers ==
  ASSUME PeersInv, NEW i \in Instances, BeginShutdown(i) \/ Crash(i)
  PROVE  PeersInv'
<1> USE DEF PeersInv, PeersTyped
<1>1. PICK to \in {"stopping", "down"} : Leaves(i, to)
  BY DEF BeginShutdown, Crash
<1>2. /\ up' = [up EXCEPT ![i] = to] /\ UNCHANGED <<reach, id>>
      /\ self' = [self EXCEPT ![i] = FALSE]
      /\ known' = [known EXCEPT ![i] = [j \in Instances |-> Unseen]]
      /\ leader' = [leader EXCEPT ![i] = Nobody]
      /\ took' = [took EXCEPT ![i] = FALSE]
      /\ discovering' = [discovering EXCEPT ![i] = FALSE]
      /\ round' = [round EXCEPT ![i] = Waiting]
      /\ snap' = [snap EXCEPT ![i] = NoFetch]
  BY <1>1 DEF Leaves, Forgets
<1>3. PeersTyped'
  BY <1>2, InitialValues
<1>4. /\ leader'[i] = Nobody /\ ~discovering'[i] /\ round'[i] = Waiting /\ snap'[i] = NoFetch
      /\ \A j \in Instances : j # i =>
           /\ up'[j] = up[j] /\ self'[j] = self[j] /\ known'[j] = known[j]
           /\ leader'[j] = leader[j] /\ discovering'[j] = discovering[j]
           /\ round'[j] = round[j] /\ snap'[j] = snap[j]
  BY <1>2
<1>5. RoundsInOrder'
  <2>1. \A j \in Instances : j # i => Checked(j)' = Checked(j)
    BY <1>2, <1>4 DEF Checked
  <2> QED BY <1>4, <2>1, InitialValues DEF RoundsInOrder
<1>6. FetchesInOrder'
  BY <1>4, InitialValues, PeersAssumption DEF FetchesInOrder, Running
<1>7. DiscoversAsChosen'
  BY <1>4, PeersAssumption DEF DiscoversAsChosen
<1>8. FetchesOfLeader'
  BY <1>4, InitialValues DEF FetchesOfLeader
<1> QED BY <1>3, <1>5, <1>6, <1>7, <1>8

LEMMA ComesKeepsPeers ==
  ASSUME PeersInv, NEW i \in Instances, Exit(i) \/ Start(i)
  PROVE  PeersInv'
<1> USE DEF PeersInv, PeersTyped
<1>1. /\ UNCHANGED <<reach, self, known, leader, took, discovering, round, snap>>
      /\ up' \in [Instances -> {"running", "stopping", "down"}]
      /\ \A j \in Instances : ~Running(j)' => ~Running(j)
  BY DEF Exit, Start, learned, Running
<1>2. id' \in [Instances -> Ids]
  BY DEF Exit, Start
<1>3. \A j \in Instances : Checked(j)' = Checked(j)
  BY <1>1 DEF Checked
<1>4. PeersTyped' /\ RoundsInOrder'
  BY <1>1, <1>2, <1>3 DEF RoundsInOrder
<1>5. FetchesInOrder' /\ DiscoversAsChosen' /\ FetchesOfLeader'
  BY <1>1 DEF FetchesInOrder, DiscoversAsChosen, FetchesOfLeader
<1> QED BY <1>4, <1>5

LEMMA StutterKeepsPeers == PeersInv /\ UNCHANGED pvars => PeersInv'
<1> SUFFICES ASSUME PeersInv, UNCHANGED pvars PROVE PeersInv'
  OBVIOUS
<1>1. UNCHANGED <<reach, up, id, self, known, leader, took, discovering, round, snap>>
  BY DEF pvars, learned
<1>2. \A j \in Instances : Checked(j)' = Checked(j)
  BY <1>1 DEF Checked
<1> QED BY <1>1, <1>2 DEF PeersInv, PeersTyped, RoundsInOrder, FetchesInOrder,
                          DiscoversAsChosen, FetchesOfLeader, Running

-----------------------------------------------------------------------------

LEMMA PeersInvHolds == PeersSpec => []PeersInv
<1>1. PeersInv /\ [PeersNext]_pvars => PeersInv'
  BY CheckKeepsPeers, ChooseKeepsPeers, ActKeepsPeers, FetchKeepsPeers, LeavesKeepsPeers,
     ComesKeepsPeers, StutterKeepsPeers DEF PeersNext, Rounds
<1> QED BY PeersInitInv, <1>1, PTL DEF PeersSpec

\* Who discovers, and whom the others follow, is as the last round of each has
\* chosen (peers.choose, act, fetch and lead), for any number of instances.
THEOREM PeersAlwaysInOrder == PeersSpec => []PeersInOrder
<1>1. PeersInv => PeersInOrder
  <2> SUFFICES ASSUME PeersInv PROVE PeersTypeOK
    BY DEF PeersInv, PeersInOrder
  <2> SUFFICES ASSUME NEW i \in Instances
               PROVE  /\ round[i].at \in {"waiting", "checked", "chosen"}
                      /\ snap[i].at \in {"ended", "asking", "leading"}
                      /\ \A j \in Instances : known[i][j].fails \in 0 .. FailureThreshold
                      /\ ~Running(i) => leader[i] = Nobody /\ Ended(snap[i]) /\ ~discovering[i]
    BY DEF PeersInv, PeersTyped, PeersTypeOK
  <2>1. round[i] \in RoundStates /\ snap[i] \in SnapStates
          /\ \A j \in Instances : known[i][j] \in KnownPeers
    BY DEF PeersInv, PeersTyped
  <2> QED BY <2>1 DEF RoundStates, SnapStates, KnownPeers, PeersInv, FetchesInOrder
<1> QED BY PeersInvHolds, <1>1, PTL

-----------------------------------------------------------------------------
(* Placement: logarithms. *)

\* The highest bit set is one bit, within the width.
LEMMA HighBitIs ==
  ASSUME NEW v \in 1 .. 2^(HashBits - 1)
  PROVE  /\ HighBit(v) \in 0 .. HashBits - 1
         /\ 2^HighBit(v) <= v /\ v < 2^(HighBit(v) + 1)
<1> DEFINE S == {n \in Nat : v < 2^(n + 1)}
<1>1. HashBits - 1 \in Nat /\ (HashBits - 1) + 1 \in Nat
  BY PlacementAssumption
<1>2. HashBits - 1 \in S
  <2>1. 2^((HashBits - 1) + 1) = 2 * 2^(HashBits - 1) /\ 2^(HashBits - 1) \in Nat \ {0}
    BY <1>1, Doubled
  <2>2. v < 2^((HashBits - 1) + 1)
    BY <2>1
  <2> QED BY <1>1, <2>2
<1>3. PICK n \in S : \A m \in S : n <= m
  BY <1>2, LeastOf
<1>4. n \in Nat /\ v < 2^(n + 1) /\ n <= HashBits - 1
  BY <1>2, <1>3
<1>5. 2^n <= v
  <2>1. CASE n = 0
    <3>1. 2^0 = 1
      OBVIOUS
    <3> QED BY <2>1, <3>1
  <2>2. CASE n # 0
    <3>1. n - 1 \in Nat /\ ~(n <= n - 1) /\ (n - 1) + 1 = n
      BY <1>4, <2>2
    <3>2. n - 1 \notin S
      BY <1>3, <3>1
    <3>3. ~(v < 2^((n - 1) + 1))
      BY <3>1, <3>2
    <3>4. 2^n \in Nat
      BY <1>4, Doubled
    <3> QED BY <3>1, <3>3, <3>4
  <2> QED BY <2>1, <2>2
<1>6. n \in 0 .. HashBits - 1
  BY <1>1, <1>4
<1> QED BY <1>4, <1>5, <1>6 DEF HighBit

LEMMA OneIs ==
  /\ One \in Nat \ {0}
  /\ HashBits - 2 \in Nat /\ LogBits \in Nat /\ HashBits - 1 \in Nat
<1>1. HashBits - 2 \in Nat /\ LogBits \in Nat /\ HashBits - 1 \in Nat
  BY PlacementAssumption
<1> QED BY <1>1, Doubled DEF One

\* What is left of a logarithm to work out is kept from 1 to 2.
Digit == {d \in [y : Nat, sum : Nat] : One <= d.y /\ d.y < 2 * One}

\* The square of what is left.
Squared(y) == (y * y) \div One

\* Squares are in order, and from 1 to 4.
LEMMA SquaresOrdered ==
  ASSUME NEW y \in Nat, NEW z \in Nat, One <= y, y <= z, z < 2 * One
  PROVE  /\ Squared(y) \in Nat /\ Squared(z) \in Nat
         /\ One <= Squared(y) /\ Squared(y) <= Squared(z) /\ Squared(z) < 4 * One
<1>1. PICK o \in Nat \ {0} : o = One
  BY OneIs
<1>2. y * y <= z * z /\ y * y \in Nat /\ z * z \in Nat
  OBVIOUS
<1>3. o * o <= y * y
  BY <1>1
<1>4. z * z < (4 * o) * o
  <2>1. 2 * o \in Nat \ {0} /\ z < 2 * o
    BY <1>1
  <2>2. z * z <= z * (2 * o)
    BY <2>1
  <2>3. z * (2 * o) < (2 * o) * (2 * o)
    BY <2>1, Timesed
  <2>4. (2 * o) * (2 * o) = (4 * o) * o
    OBVIOUS
  <2>5. z * (2 * o) \in Nat /\ (4 * o) * o \in Nat
    OBVIOUS
  <2> QED BY <1>2, <2>2, <2>3, <2>4, <2>5
<1>5. (y * y) \div o \in Nat /\ (z * z) \div o \in Nat /\ (y * y) \div o <= (z * z) \div o
  BY <1>2, QuotientsOrdered
<1>6. o <= (y * y) \div o
  BY <1>2, <1>3, QuotientAtLeast
<1>7. (z * z) \div o < 4 * o
  <2>1. ~(4 * o <= (z * z) \div o)
    BY <1>2, <1>4, QuotientAtLeast
  <2> QED BY <1>5, <2>1
<1> QED BY <1>1, <1>5, <1>6, <1>7 DEF Squared

\* A digit leaves from 1 to 2, and adds one bit.
LEMMA NextDigitIs ==
  ASSUME NEW d \in Digit
  PROVE  /\ nextDigit(d) \in Digit
         /\ nextDigit(d).sum \in {2 * d.sum, 2 * d.sum + 1}
<1>1. PICK o \in Nat \ {0} : o = One
  BY OneIs
<1>2. d.y \in Nat /\ d.sum \in Nat /\ One <= d.y /\ d.y < 2 * One
  BY DEF Digit
<1>3. PICK q \in Nat : q = Squared(d.y) /\ o <= q /\ q < 4 * o
  BY <1>1, <1>2, SquaresOrdered
<1>4. nextDigit(d) = IF q >= 2 * o THEN [y |-> q \div 2, sum |-> 2 * d.sum + 1]
                     ELSE [y |-> q, sum |-> 2 * d.sum]
  BY <1>1, <1>3 DEF nextDigit, Squared
<1>5. q >= 2 * o => q \div 2 \in Nat /\ o <= q \div 2 /\ q \div 2 < 2 * o
  BY <1>3
<1>6. CASE q >= 2 * o
  BY <1>1, <1>2, <1>4, <1>5, <1>6 DEF Digit
<1>7. CASE ~(q >= 2 * o)
  BY <1>1, <1>2, <1>3, <1>4, <1>7 DEF Digit
<1> QED BY <1>6, <1>7

\* What is worked out and left of one logarithm is no more than of another.
NoMore(d, e) == d.sum < e.sum \/ (d.sum = e.sum /\ d.y <= e.y)

\* A digit more of two logarithms leaves them in order.
LEMMA NextDigitsOrdered ==
  ASSUME NEW d \in Digit, NEW e \in Digit, NoMore(d, e)
  PROVE  NoMore(nextDigit(d), nextDigit(e))
<1>1. PICK o \in Nat \ {0} : o = One
  BY OneIs
<1>2. /\ d.y \in Nat /\ d.sum \in Nat /\ One <= d.y /\ d.y < 2 * One
      /\ e.y \in Nat /\ e.sum \in Nat /\ One <= e.y /\ e.y < 2 * One
  BY DEF Digit
<1>3. CASE d.sum < e.sum
  <2>1. nextDigit(d).sum <= 2 * d.sum + 1 /\ nextDigit(e).sum >= 2 * e.sum
    BY <1>2, NextDigitIs
  <2>2. nextDigit(d).sum \in Nat /\ nextDigit(e).sum \in Nat
    BY NextDigitIs DEF Digit
  <2>3. nextDigit(d).sum < nextDigit(e).sum
    BY <1>2, <1>3, <2>1, <2>2
  <2> QED BY <2>3 DEF NoMore
<1>4. CASE d.sum = e.sum /\ d.y <= e.y
  <2>1. Squared(d.y) \in Nat /\ Squared(e.y) \in Nat /\ Squared(d.y) <= Squared(e.y)
    BY <1>2, <1>4, SquaresOrdered
  <2>2. PICK q \in Nat : q = Squared(d.y)
    BY <2>1
  <2>3. PICK r \in Nat : r = Squared(e.y) /\ q <= r
    BY <2>1, <2>2
  <2>4. nextDigit(d) = IF q >= 2 * o THEN [y |-> q \div 2, sum |-> 2 * d.sum + 1]
                       ELSE [y |-> q, sum |-> 2 * d.sum]
    BY <1>1, <2>2 DEF nextDigit, Squared
  <2>5. nextDigit(e) = IF r >= 2 * o THEN [y |-> r \div 2, sum |-> 2 * d.sum + 1]
                       ELSE [y |-> r, sum |-> 2 * d.sum]
    BY <1>1, <1>4, <2>3 DEF nextDigit, Squared
  <2>6. q \div 2 <= r \div 2 /\ (q >= 2 * o => r >= 2 * o)
    BY <2>3
  <2> QED BY <1>2, <2>3, <2>4, <2>5, <2>6 DEF NoMore
<1> QED BY <1>3, <1>4 DEF NoMore

\* The digits are worked out one after the other.
LEMMA DigitsAre ==
  ASSUME NEW y \in Nat, One <= y, y < 2 * One
  PROVE  /\ digits(y) \in [0 .. LogBits -> Digit]
         /\ digits(y)[0] = [y |-> y, sum |-> 0]
         /\ \A i \in 1 .. LogBits : digits(y)[i] = nextDigit(digits(y)[i - 1])
<1> DEFINE z == [y |-> y, sum |-> 0]
           F == [d \in Digit |-> nextDigit(d)]
           Is(f) == f = [i \in 0 .. LogBits |-> IF i = 0 THEN z ELSE nextDigit(f[i - 1])]
<1>1. z \in Digit /\ LogBits \in Nat
  BY OneIs DEF Digit
<1>2. F \in [Digit -> Digit]
  BY NextDigitIs
<1>3. PICK f : f \in [0 .. LogBits -> Digit] /\ f[0] = z /\ \A i \in 1 .. LogBits : f[i] = F[f[i - 1]]
  <2> HIDE DEF F, z
  <2>1. \E f : Repeats(f, LogBits, z, F, Digit)
    BY <1>1, <1>2, Repeated
  <2> QED BY <2>1 DEF Repeats
<1>4. \A g : Is(g) => g \in [0 .. LogBits -> Digit] /\ g = f
  <2> SUFFICES ASSUME NEW g, Is(g) PROVE g = f
    BY <1>3
  <2> DEFINE S == {i \in Nat : i \in 0 .. LogBits /\ g[i] # f[i]}
  <2>1. S = {}
    <3> SUFFICES ASSUME S # {} PROVE FALSE
      OBVIOUS
    <3>1. PICK k \in S : \A j \in S : k <= j
      BY LeastOf
    <3>2. k \in 0 .. LogBits /\ g[k] # f[k]
      OBVIOUS
    <3>3. g[0] = z /\ f[0] = z
      <4>1. 0 \in 0 .. LogBits
        BY <1>1
      <4> HIDE DEF z
      <4> QED BY <1>3, <4>1
    <3>4. k - 1 \in 0 .. LogBits /\ ~(k <= k - 1) /\ k # 0 /\ k - 1 \in Nat
      BY <1>1, <3>2, <3>3
    <3>5. g[k - 1] = f[k - 1]
      BY <3>1, <3>4
    <3>6. g[k] = nextDigit(g[k - 1])
      BY <3>2, <3>4
    <3>7. f[k] = F[f[k - 1]] /\ f[k - 1] \in Digit
      <4>1. k \in 1 .. LogBits
        BY <1>1, <3>2, <3>4
      <4> HIDE DEF F, S
      <4> QED BY <1>3, <3>4, <4>1
    <3>8. f[k] = nextDigit(f[k - 1])
      BY <3>7
    <3> QED BY <3>2, <3>5, <3>6, <3>8
  <2>2. DOMAIN g = 0 .. LogBits /\ g = [i \in 0 .. LogBits |-> g[i]]
    OBVIOUS
  <2>3. DOMAIN f = 0 .. LogBits /\ f = [i \in 0 .. LogBits |-> f[i]]
    BY <1>3
  <2>4. \A i \in 0 .. LogBits : g[i] = f[i]
    <3>1. ASSUME NEW i \in 0 .. LogBits PROVE g[i] = f[i]
      <4>1. i \in Nat
        BY <1>1
      <4> HIDE DEF Is
      <4>2. i \notin S
        BY <2>1
      <4> QED BY <4>1, <4>2
    <3> QED BY <3>1
  <2> HIDE DEF Is, S
  <2> QED BY <2>2, <2>3, <2>4
<1>5. \A i \in 0 .. LogBits : i # 0 => i - 1 \in 0 .. LogBits
  BY <1>1
<1>6. Is(f)
  <2>1. \A i \in 0 .. LogBits : i # 0 => F[f[i - 1]] = nextDigit(f[i - 1])
    <3>1. \A i \in 0 .. LogBits : i # 0 => f[i - 1] \in Digit
      <4> HIDE DEF F, z
      <4> QED BY <1>3, <1>5
    <3> QED BY <3>1
  <2>2. \A i \in 0 .. LogBits : i # 0 => i \in 1 .. LogBits
    BY <1>1
  <2> HIDE DEF F, z
  <2>3. \A i \in 0 .. LogBits : f[i] = IF i = 0 THEN z ELSE nextDigit(f[i - 1])
    BY <1>3, <2>1, <2>2
  <2>4. f = [i \in 0 .. LogBits |-> f[i]]
    BY <1>3
  <2> DEFINE g == [i \in 0 .. LogBits |-> IF i = 0 THEN z ELSE nextDigit(f[i - 1])]
  <2>5. f = g
    BY <2>3, <2>4
  <2> QED BY <2>5 DEF Is
<1>7. digits(y) = CHOOSE g : Is(g)
  BY DEF digits
<1> HIDE DEF Is, F, z
<1>8. Is(digits(y))
  BY <1>6, <1>7
<1>9. digits(y) \in [0 .. LogBits -> Digit]
  BY <1>4, <1>8
<1>10. 0 \in 0 .. LogBits /\ \A i \in 1 .. LogBits : i \in 0 .. LogBits /\ i # 0
  BY <1>1
<1> QED BY <1>8, <1>9, <1>10 DEF Is, z

\* The fraction of a logarithm: its bits, and no fewer for more.
Fraction(y) == digits(y)[LogBits].sum

\* The fraction is LogBits bits.
LEMMA FractionIs ==
  ASSUME NEW y \in Nat, One <= y, y < 2 * One
  PROVE  Fraction(y) \in Nat /\ Fraction(y) < 2^LogBits
<1> DEFINE At(i) == digits(y)[i].sum < 2^i
           S == {i \in Nat : i \in 0 .. LogBits /\ ~At(i)}
<1>1. LogBits \in Nat
  BY OneIs
<1>2. \A i \in 0 .. LogBits : digits(y)[i].sum \in Nat
  BY DigitsAre DEF Digit
<1>3. S = {}
  <2> SUFFICES ASSUME S # {} PROVE FALSE
    OBVIOUS
  <2>1. PICK k \in S : \A j \in S : k <= j
    BY LeastOf
  <2> HIDE DEF At
  <2>2. k \in 0 .. LogBits /\ ~At(k)
    OBVIOUS
  <2>3. k # 0
    <3>1. digits(y)[0] = [y |-> y, sum |-> 0]
      BY DigitsAre
    <3>2. digits(y)[0].sum = 0
      BY <3>1
    <3>3. 2^0 = 1
      OBVIOUS
    <3>4. At(0)
      BY <3>2, <3>3 DEF At
    <3> QED BY <2>2, <3>4
  <2>4. k - 1 \in Nat /\ k - 1 \in 0 .. LogBits /\ ~(k <= k - 1) /\ (k - 1) + 1 = k /\ k \in 1 .. LogBits
    BY <1>1, <2>2, <2>3
  <2>5. At(k - 1)
    BY <2>1, <2>4
  <2> HIDE DEF S
  <2>6. digits(y)[k - 1] \in Digit /\ digits(y)[k] = nextDigit(digits(y)[k - 1])
    BY <2>4, DigitsAre
  <2>7. PICK s \in Nat : s = digits(y)[k - 1].sum
    BY <1>2, <2>4
  <2>8. PICK p \in Nat : p = 2^(k - 1)
    BY <2>4, Doubled
  <2>9. 2^k = 2 * p
    BY <2>4, <2>8, Doubled
  <2>10. digits(y)[k].sum \in {2 * s, 2 * s + 1}
    BY <2>6, <2>7, NextDigitIs
  <2>11. s < p
    BY <2>5, <2>7, <2>8 DEF At
  <2> QED BY <2>2, <2>9, <2>10, <2>11 DEF At
<1>4. LogBits \in 0 .. LogBits
  BY <1>1
<1> QED BY <1>1, <1>2, <1>3, <1>4 DEF Fraction

\* The fraction is no less for more.
LEMMA FractionsOrdered ==
  ASSUME NEW y \in Nat, NEW z \in Nat, One <= y, y <= z, z < 2 * One
  PROVE  Fraction(y) <= Fraction(z)
<1> DEFINE S == {i \in Nat : i \in 0 .. LogBits /\ ~NoMore(digits(y)[i], digits(z)[i])}
<1>1. LogBits \in Nat /\ One \in Nat
  BY OneIs
<1>2. y < 2 * One /\ One <= z
  BY <1>1
<1>3. S = {}
  <2> SUFFICES ASSUME S # {} PROVE FALSE
    OBVIOUS
  <2>1. PICK k \in S : \A j \in S : k <= j
    BY LeastOf
  <2>2. k \in 0 .. LogBits /\ ~NoMore(digits(y)[k], digits(z)[k])
    OBVIOUS
  <2>3. k # 0
    <3>1. digits(y)[0] = [y |-> y, sum |-> 0]
      BY <1>2, DigitsAre
    <3>2. digits(z)[0] = [y |-> z, sum |-> 0]
      BY <1>2, DigitsAre
    <3>3. NoMore(digits(y)[0], digits(z)[0])
      BY <3>1, <3>2 DEF NoMore
    <3> QED BY <2>2, <3>3
  <2>4. k - 1 \in Nat /\ k - 1 \in 0 .. LogBits /\ ~(k <= k - 1) /\ k \in 1 .. LogBits
    BY <1>1, <2>2, <2>3
  <2>5. NoMore(digits(y)[k - 1], digits(z)[k - 1])
    BY <2>1, <2>4
  <2> HIDE DEF S
  <2>6. digits(y)[k - 1] \in Digit /\ digits(y)[k] = nextDigit(digits(y)[k - 1])
    BY <1>2, <2>4, DigitsAre
  <2>7. digits(z)[k - 1] \in Digit /\ digits(z)[k] = nextDigit(digits(z)[k - 1])
    BY <1>2, <2>4, DigitsAre
  <2>8. NoMore(nextDigit(digits(y)[k - 1]), nextDigit(digits(z)[k - 1]))
    BY <2>5, <2>6, <2>7, NextDigitsOrdered
  <2> QED BY <2>2, <2>6, <2>7, <2>8
<1>4. NoMore(digits(y)[LogBits], digits(z)[LogBits])
  <2>1. LogBits \in 0 .. LogBits
    BY <1>1
  <2> QED BY <1>1, <1>3, <2>1
<1>5. Fraction(y) \in Nat /\ Fraction(z) \in Nat
  BY <1>2, FractionIs
<1> QED BY <1>4, <1>5 DEF NoMore, Fraction

\* A logarithm is its whole part, which the highest bit set tells, and a fraction.
LEMMA LogIs ==
  ASSUME NEW u \in 1 .. 2^(HashBits - 1)
  PROVE  LET x == (u * One) \div 2^HighBit(u)
         IN  /\ HighBit(u) \in Nat /\ x \in Nat /\ One <= x /\ x < 2 * One
             /\ Fraction(x) \in Nat /\ Fraction(x) < 2^LogBits
             /\ log2Fixed(u) = HighBit(u) * 2^LogBits + Fraction(x)
<1>1. PICK o \in Nat \ {0} : o = One
  BY OneIs
<1>2. HashBits - 1 \in Nat /\ 2^(HashBits - 1) \in Nat
  BY OneIs, Doubled
<1>3. PICK h \in Nat : h = HighBit(u) /\ 2^h <= u /\ u < 2^(h + 1)
  BY <1>2, HighBitIs
<1>4. PICK p \in Nat \ {0} : p = 2^h
  BY Doubled
<1>5. p <= u /\ u < 2 * p /\ u \in Nat
  BY <1>2, <1>3, <1>4, Doubled
<1>6. o * p <= u * o /\ u * o \in Nat
  <2>1. p * o <= u * o
    BY <1>5, Timesed
  <2>2. p * o = o * p /\ u * o \in Nat
    BY <1>5
  <2> QED BY <2>1, <2>2
<1>7. u * o < (2 * o) * p
  <2>1. u * o < (2 * p) * o
    BY <1>5, Timesed
  <2>2. (2 * p) * o = (2 * o) * p
    OBVIOUS
  <2> QED BY <2>1, <2>2
<1>8. (u * o) \div p \in Nat /\ o <= (u * o) \div p
  BY <1>6, QuotientAtLeast
<1>9. ~(2 * o <= (u * o) \div p)
  <2>1. 2 * o \in Int /\ (2 * o) * p \in Int
    OBVIOUS
  <2>2. 2 * o <= (u * o) \div p <=> (2 * o) * p <= u * o
    BY <1>6, <2>1, QuotientAtLeast
  <2> QED BY <1>6, <1>7, <2>1, <2>2
<1>10. PICK x \in Nat : x = (u * o) \div p
  BY <1>8
<1>11. One <= x /\ x < 2 * One
  BY <1>1, <1>8, <1>9, <1>10
<1>12. Fraction(x) \in Nat /\ Fraction(x) < 2^LogBits
  BY <1>11, FractionIs
<1>13. x = (u * One) \div 2^HighBit(u)
  BY <1>1, <1>3, <1>4, <1>10
<1>14. log2Fixed(u) = HighBit(u) * 2^LogBits + Fraction(x)
  BY <1>13 DEF log2Fixed, Fraction
<1> QED BY <1>3, <1>11, <1>12, <1>13, <1>14

\* The logarithm never falls.
LEMMA LogsOrdered ==
  ASSUME NEW v \in 1 .. 2^(HashBits - 1), NEW w \in 1 .. 2^(HashBits - 1), v <= w
  PROVE  log2Fixed(v) \in Nat /\ log2Fixed(w) \in Nat /\ log2Fixed(v) <= log2Fixed(w)
<1> DEFINE m == HighBit(v)
           n == HighBit(w)
           y == (v * One) \div 2^m
           z == (w * One) \div 2^n
<1>1. PICK o \in Nat \ {0} : o = One
  BY OneIs
<1>2. HashBits - 1 \in Nat /\ LogBits \in Nat
  BY OneIs
<1>3. 2^(HashBits - 1) \in Nat
  BY <1>2, Doubled
<1>4. v \in Nat \ {0} /\ w \in Nat \ {0}
  BY <1>3
<1>6. PICK p \in Nat \ {0} : p = 2^LogBits
  BY <1>2, Doubled
<1>7. /\ m \in Nat /\ y \in Nat /\ One <= y /\ y < 2 * One
      /\ Fraction(y) \in Nat /\ Fraction(y) < p /\ log2Fixed(v) = m * p + Fraction(y)
  BY <1>6, LogIs
<1>8. /\ n \in Nat /\ z \in Nat /\ One <= z /\ z < 2 * One
      /\ Fraction(z) \in Nat /\ Fraction(z) < p /\ log2Fixed(w) = n * p + Fraction(z)
  BY <1>6, LogIs
<1>9. m <= n
  <2> SUFFICES ASSUME n + 1 <= m PROVE FALSE
    BY <1>7, <1>8
  <2>1. 2^(n + 1) <= 2^m
    BY <1>7, <1>8, PowersGrow
  <2>2. 2^m <= v /\ w < 2^(n + 1)
    BY HighBitIs
  <2>3. 2^m \in Nat /\ 2^(n + 1) \in Nat
    BY <1>7, <1>8, Doubled
  <2> QED BY <1>4, <2>1, <2>2, <2>3
<1>10. m = n => y <= z
  <2> SUFFICES ASSUME m = n PROVE y <= z
    OBVIOUS
  <2>1. PICK q \in Nat \ {0} : q = 2^n
    BY <1>8, Doubled
  <2>2. v * o <= w * o /\ v * o \in Nat /\ w * o \in Nat
    BY <1>4, Timesed
  <2>3. (v * o) \div q <= (w * o) \div q
    BY <2>2, QuotientsOrdered
  <2> QED BY <1>1, <2>1, <2>3
<1> HIDE DEF m, n, y, z
<1>11. PICK j \in Nat : j = m
  BY <1>7
<1>12. PICK k \in Nat : k = n
  BY <1>8
<1>13. PICK f \in Nat : f = Fraction(y) /\ f < p
  BY <1>7
<1>14. PICK g \in Nat : g = Fraction(z)
  BY <1>8
<1>15. log2Fixed(v) = j * p + f /\ log2Fixed(w) = k * p + g
  BY <1>7, <1>8, <1>11, <1>12, <1>13, <1>14
<1>16. j * p \in Nat /\ k * p \in Nat
  OBVIOUS
<1>17. CASE j = k
  <2>1. f <= g
    BY <1>7, <1>8, <1>10, <1>11, <1>12, <1>13, <1>14, <1>17, FractionsOrdered
  <2> QED BY <1>15, <1>16, <1>17, <2>1
<1>18. CASE j < k
  <2>1. (j + 1) * p <= k * p
    BY <1>18, Timesed
  <2>2. (j + 1) * p = j * p + p
    OBVIOUS
  <2> QED BY <1>13, <1>15, <1>16, <2>1, <2>2
<1> QED BY <1>9, <1>11, <1>12, <1>17, <1>18

\* The logarithm of a power of two has no fraction.
LEMMA FractionOfOne == Fraction(One) = 0
<1> DEFINE d == [y |-> One, sum |-> 0]
           S == {i \in Nat : i \in 0 .. LogBits /\ digits(One)[i] # d}
<1>1. PICK o \in Nat \ {0} : o = One
  BY OneIs
<1>2. LogBits \in Nat
  BY OneIs
<1>3. One \in Nat /\ One <= One /\ One < 2 * One
  BY <1>1
<1>4. nextDigit(d) = d
  <2>1. (o * o) \div o = o
    <3>1. PICK q \in Nat : q = (o * o) \div o /\ q * o <= o * o /\ o * o < (q + 1) * o
      BY Quotient
    <3>2. q <= o /\ o < q + 1
      BY <3>1, Timesed
    <3> QED BY <3>1, <3>2
  <2>2. ~(o >= 2 * o)
    OBVIOUS
  <2> QED BY <1>1, <2>1, <2>2 DEF nextDigit
<1>5. S = {}
  <2> SUFFICES ASSUME S # {} PROVE FALSE
    OBVIOUS
  <2>1. PICK k \in S : \A j \in S : k <= j
    BY LeastOf
  <2>2. k \in 0 .. LogBits /\ digits(One)[k] # d
    OBVIOUS
  <2> HIDE DEF d
  <2>3. k # 0
    <3>1. digits(One)[0] = d
      BY <1>3, DigitsAre DEF d
    <3> QED BY <2>2, <3>1
  <2>4. k - 1 \in Nat /\ k - 1 \in 0 .. LogBits /\ ~(k <= k - 1) /\ k \in 1 .. LogBits
    BY <1>2, <2>2, <2>3
  <2>5. digits(One)[k - 1] = d
    BY <2>1, <2>4
  <2> HIDE DEF S
  <2>6. digits(One)[k] = nextDigit(digits(One)[k - 1])
    BY <1>3, <2>4, DigitsAre
  <2> QED BY <1>4, <2>2, <2>5, <2>6
<1>6. LogBits \in 0 .. LogBits
  BY <1>2
<1> HIDE DEF d
<1>7. digits(One)[LogBits] = d
  BY <1>2, <1>5, <1>6
<1> QED BY <1>7 DEF Fraction, d

\* The logarithm of a hash as a fraction of the hashes is not above nought.
LEMMA LogsEnd ==
  ASSUME NEW u \in 1 .. 2^(HashBits - 1)
  PROVE  log2Fixed(u) \in Nat /\ log2Fixed(u) <= (HashBits - 1) * 2^LogBits
<1>1. PICK o \in Nat \ {0} : o = One
  BY OneIs
<1>2. PICK b \in Nat : b = HashBits - 1
  BY OneIs
<1>3. PICK p \in Nat \ {0} : p = 2^LogBits
  BY OneIs, Doubled
<1>4. PICK h \in Nat : h = HighBit(u) /\ h <= b /\ 2^h <= u
  BY <1>2, HighBitIs
<1>5. PICK x \in Nat : x = (u * One) \div 2^HighBit(u)
  BY LogIs
<1>6. PICK f \in Nat : f = Fraction(x) /\ f < p
  BY <1>3, <1>5, LogIs
<1>7. log2Fixed(u) = h * p + f
  BY <1>3, <1>4, <1>5, <1>6, LogIs
<1>8. h * p \in Nat /\ b * p \in Nat
  OBVIOUS
<1>9. CASE h < b
  <2>1. (h + 1) * p <= b * p
    BY <1>9, Timesed
  <2>2. (h + 1) * p = h * p + p
    OBVIOUS
  <2> QED BY <1>2, <1>3, <1>6, <1>7, <1>8, <2>1, <2>2
<1>10. CASE h = b
  <2>1. PICK q \in Nat \ {0} : q = 2^h
    BY Doubled
  <2>2. u = q
    <3>1. u <= q
      BY <1>2, <1>10, <2>1
    <3>2. q <= u /\ u \in Nat
      BY <1>2, <1>4, <1>10, <2>1
    <3> QED BY <3>1, <3>2
  <2>3. x = (q * o) \div q
    BY <1>1, <1>4, <1>5, <2>1, <2>2
  <2>4. x = o
    <3>1. PICK r \in Nat : r = (q * o) \div q /\ r * q <= q * o /\ q * o < (r + 1) * q
      BY Quotient
    <3>2. r * q <= o * q /\ o * q < (r + 1) * q
      BY <3>1
    <3>3. r <= o /\ o < r + 1
      BY <3>2, Timesed
    <3> QED BY <2>3, <3>1, <3>3
  <2>5. f = 0
    BY <1>1, <1>6, <2>4, FractionOfOne
  <2> QED BY <1>2, <1>3, <1>7, <1>8, <1>10, <2>5
<1> QED BY <1>4, <1>9, <1>10

\* What a score is over is a number, and no greater for a higher hash.
LEMMA NegLogsOrdered ==
  ASSUME NEW g \in 0 .. 2^HashBits - 1, NEW h \in 0 .. 2^HashBits - 1, g <= h
  PROVE  negLog(g) \in Nat /\ negLog(h) \in Nat /\ negLog(h) <= negLog(g)
<1> DEFINE v == (g \div 2) + 1
           w == (h \div 2) + 1
<1>1. PICK q \in Nat \ {0} : q = 2^(HashBits - 1)
  BY OneIs, Doubled
<1>2. 2^HashBits = 2 * q
  <2>1. HashBits - 1 \in Nat /\ (HashBits - 1) + 1 = HashBits
    BY PlacementAssumption
  <2> QED BY <1>1, <2>1, Doubled
<1>3. g \in Nat /\ h \in Nat /\ g <= 2 * q - 1 /\ h <= 2 * q - 1
  BY <1>2
<1>4. v \in 1 .. q /\ w \in 1 .. q /\ v <= w
  BY <1>3
<1> HIDE DEF v, w
<1>5. /\ log2Fixed(v) \in Nat /\ log2Fixed(v) <= (HashBits - 1) * 2^LogBits
      /\ log2Fixed(w) \in Nat /\ log2Fixed(w) <= (HashBits - 1) * 2^LogBits
      /\ log2Fixed(v) <= log2Fixed(w)
  BY <1>1, <1>4, LogsEnd, LogsOrdered
<1>6. PICK m \in Int : m = (HashBits - 1) * 2^LogBits
  <2>1. HashBits - 1 \in Nat /\ 2^LogBits \in Nat
    BY OneIs, Doubled
  <2> QED BY <2>1
<1>7. negLog(g) = m - log2Fixed(v) /\ negLog(h) = m - log2Fixed(w)
  BY <1>6 DEF negLog, v, w
<1> QED BY <1>5, <1>6, <1>7

-----------------------------------------------------------------------------
(* Placement: the order members rank in. *)

\* What better compares of a member.
Ranked(m, key, caps) ==
  /\ caps[m] \in Nat \ {0}
  /\ Score(m, key) \in 0 .. 2^HashBits - 1 /\ Score(m, key) \in Nat
  /\ negLog(Score(m, key)) \in Nat
  /\ rank(m) \in Int

\* Every member of a list is ranked for every key.
LEMMA AllRanked ==
  ASSUME NEW key \in Keys, NEW caps, NEW m \in Names, caps[m] \in Nat \ {0}
  PROVE  Ranked(m, key, caps)
<1>1. Score(m, key) \in 0 .. 2^HashBits - 1 /\ rank(m) \in Int
  BY PlacementAssumption
<1>2. 2^HashBits \in Nat
  BY PlacementAssumption, Doubled
<1>3. Score(m, key) \in Nat /\ Score(m, key) <= Score(m, key)
  BY <1>1, <1>2
<1>4. negLog(Score(m, key)) \in Nat
  BY <1>1, <1>3, NegLogsOrdered
<1> QED BY <1>1, <1>3, <1>4 DEF Ranked

\* The first comparison of two members, and the second.
Higher(m, n, key, caps) ==
  negLog(Score(m, key)) * caps[n] < negLog(Score(n, key)) * caps[m]

Alike(m, n, key, caps) ==
  negLog(Score(m, key)) * caps[n] = negLog(Score(n, key)) * caps[m]

ByHash(m, n, key) ==
  \/ Score(m, key) > Score(n, key)
  \/ Score(m, key) = Score(n, key) /\ rank(m) < rank(n)

\* Members of one capacity are in the order of their scores too.
LEMMA BetterIs ==
  ASSUME NEW key, NEW caps, NEW m, NEW n, Ranked(m, key, caps), Ranked(n, key, caps)
  PROVE  better(m, n, key, caps)
           <=> Higher(m, n, key, caps) \/ (Alike(m, n, key, caps) /\ ByHash(m, n, key))
<1>1. PICK c \in Nat \ {0} : c = caps[m]
  BY DEF Ranked
<1>2. PICK d \in Nat \ {0} : d = caps[n]
  BY DEF Ranked
<1>3. PICK a \in Nat : a = negLog(Score(m, key))
  BY DEF Ranked
<1>4. PICK b \in Nat : b = negLog(Score(n, key))
  BY DEF Ranked
<1>5. PICK g \in Nat : g = Score(m, key) /\ g \in 0 .. 2^HashBits - 1
  BY DEF Ranked
<1>6. PICK h \in Nat : h = Score(n, key) /\ h \in 0 .. 2^HashBits - 1
  BY DEF Ranked
<1>7. better(m, n, key, caps)
        <=> IF c # d /\ c * b # d * a THEN c * b > d * a ELSE ByHash(m, n, key)
  BY <1>1, <1>2, <1>3, <1>4 DEF better, ByHash
<1>8. Higher(m, n, key, caps) <=> a * d < b * c
  BY <1>1, <1>2, <1>3, <1>4 DEF Higher
<1>9. Alike(m, n, key, caps) <=> a * d = b * c
  BY <1>1, <1>2, <1>3, <1>4 DEF Alike
<1>10. a * d = d * a /\ c * b = b * c /\ a * d \in Nat /\ b * c \in Nat
  OBVIOUS
<1>11. CASE c # d
  BY <1>7, <1>8, <1>9, <1>10, <1>11
<1>12. CASE c = d
  <2>1. (a * d < b * c <=> a < b) /\ (a * d = b * c <=> a = b)
    BY <1>12, Timesed
  <2>2. g <= h => b <= a
    BY <1>3, <1>4, <1>5, <1>6, NegLogsOrdered
  <2>3. h <= g => a <= b
    BY <1>3, <1>4, <1>5, <1>6, NegLogsOrdered
  <2>4. ByHash(m, n, key) <=> g > h \/ (g = h /\ rank(m) < rank(n))
    BY <1>5, <1>6 DEF ByHash
  <2> QED BY <1>7, <1>8, <1>9, <1>12, <2>1, <2>2, <2>3, <2>4
<1> QED BY <1>11, <1>12

\* Of two members, one is better.
LEMMA BetterOneWay ==
  ASSUME NEW key, NEW caps, NEW m, NEW n, Ranked(m, key, caps), Ranked(n, key, caps),
         rank(m) # rank(n)
  PROVE  better(m, n, key, caps) <=> ~better(n, m, key, caps)
<1>1. PICK x \in Nat : x = negLog(Score(m, key)) * caps[n]
  BY DEF Ranked
<1>2. PICK y \in Nat : y = negLog(Score(n, key)) * caps[m]
  BY DEF Ranked
<1>3. PICK g \in Nat : g = Score(m, key)
  BY DEF Ranked
<1>4. PICK h \in Nat : h = Score(n, key)
  BY DEF Ranked
<1>5. PICK r \in Int : r = rank(m)
  BY DEF Ranked
<1>6. PICK s \in Int : s = rank(n) /\ r # s
  BY <1>5 DEF Ranked
<1>7. better(m, n, key, caps) <=> x < y \/ (x = y /\ (g > h \/ (g = h /\ r < s)))
  BY <1>1, <1>2, <1>3, <1>4, <1>5, <1>6, BetterIs DEF Higher, Alike, ByHash
<1>8. better(n, m, key, caps) <=> y < x \/ (y = x /\ (h > g \/ (h = g /\ s < r)))
  BY <1>1, <1>2, <1>3, <1>4, <1>5, <1>6, BetterIs DEF Higher, Alike, ByHash
<1> QED BY <1>6, <1>7, <1>8

\* A member better than another is better than those it is better than.
LEMMA BetterOnwards ==
  ASSUME NEW key, NEW caps, NEW m, NEW n, NEW o,
         Ranked(m, key, caps), Ranked(n, key, caps), Ranked(o, key, caps),
         better(m, n, key, caps), better(n, o, key, caps)
  PROVE  better(m, o, key, caps)
<1>1. PICK x \in Nat \ {0} : x = caps[m]
  BY DEF Ranked
<1>2. PICK y \in Nat \ {0} : y = caps[n]
  BY DEF Ranked
<1>3. PICK z \in Nat \ {0} : z = caps[o]
  BY DEF Ranked
<1>4. PICK a \in Nat : a = negLog(Score(m, key))
  BY DEF Ranked
<1>5. PICK b \in Nat : b = negLog(Score(n, key))
  BY DEF Ranked
<1>6. PICK c \in Nat : c = negLog(Score(o, key))
  BY DEF Ranked
<1>7. a * y < b * x \/ (a * y = b * x /\ ByHash(m, n, key))
  BY <1>1, <1>2, <1>4, <1>5, BetterIs DEF Higher, Alike
<1>8. b * z < c * y \/ (b * z = c * y /\ ByHash(n, o, key))
  BY <1>2, <1>3, <1>5, <1>6, BetterIs DEF Higher, Alike
<1>9. /\ a * y \in Nat /\ b * x \in Nat /\ b * z \in Nat /\ c * y \in Nat
      /\ a * z \in Nat /\ c * x \in Nat
  OBVIOUS
<1>10. a * y <= b * x /\ b * z <= c * y
  BY <1>7, <1>8, <1>9
<1>11. a * z <= c * x /\ (a * y < b * x \/ b * z < c * y => a * z < c * x)
  BY <1>10, CrossedOrder
<1>12. ByHash(m, n, key) /\ ByHash(n, o, key) => ByHash(m, o, key)
  BY DEF ByHash, Ranked
<1>13. a * z < c * x \/ (a * z = c * x /\ ByHash(m, o, key))
  BY <1>7, <1>8, <1>9, <1>11, <1>12
<1>14. Higher(m, o, key, caps) \/ (Alike(m, o, key, caps) /\ ByHash(m, o, key))
  BY <1>1, <1>3, <1>4, <1>6, <1>13 DEF Higher, Alike
<1> QED BY <1>14, BetterIs

\* Members that are ranked, and told from each other.
AreRanked(S, key, caps) ==
  /\ \A m \in S : Ranked(m, key, caps)
  /\ \A m, n \in S : m # n => rank(m) # rank(n)

\* The first of some members is the one better than the others.
LEMMA FirstIs ==
  ASSUME NEW S, IsFiniteSet(S), S # {}, NEW key, NEW caps, AreRanked(S, key, caps)
  PROVE  /\ First(S, key, caps) \in S
         /\ \A n \in S \ {First(S, key, caps)} : better(First(S, key, caps), n, key, caps)
         /\ \A m \in S : (\A n \in S \ {m} : better(m, n, key, caps))
                           => m = First(S, key, caps)
<1> DEFINE R == {p \in S \X S : better(p[1], p[2], key, caps)}
           Leads(m) == \A n \in S \ {m} : better(m, n, key, caps)
<1>1. \A m \in S : Ranked(m, key, caps)
  BY DEF AreRanked
<1>2. \A m, n \in S : m # n => (better(m, n, key, caps) <=> ~better(n, m, key, caps))
  BY <1>1, BetterOneWay DEF AreRanked
<1>3. \A a, b \in S : <<a, b>> \in R <=> better(a, b, key, caps)
  OBVIOUS
<1>4. \A a \in S : ~(<<a, a>> \in R)
  <2> SUFFICES ASSUME NEW a \in S PROVE ~better(a, a, key, caps)
    BY <1>3
  <2>1. ~Higher(a, a, key, caps) /\ ~ByHash(a, a, key)
    <3>1. negLog(Score(a, key)) * caps[a] \in Nat /\ Score(a, key) \in Nat /\ rank(a) \in Int
      BY <1>1 DEF Ranked
    <3> QED BY <3>1 DEF Higher, ByHash
  <2> QED BY <1>1, <2>1, BetterIs
<1>5. \A a, b, c \in S : <<a, b>> \in R /\ <<b, c>> \in R => <<a, c>> \in R
  <2> SUFFICES ASSUME NEW a \in S, NEW b \in S, NEW c \in S,
                      better(a, b, key, caps), better(b, c, key, caps)
               PROVE  better(a, c, key, caps)
    BY <1>3
  <2> QED BY <1>1, BetterOnwards
<1> HIDE DEF R
<1>6. PICK m \in S : \A n \in S : ~(<<n, m>> \in R)
  BY <1>4, <1>5, Foremost
<1>7. Leads(m)
  BY <1>2, <1>3, <1>6
<1>8. \A j, k \in S : Leads(j) /\ Leads(k) => j = k
  BY <1>2
<1>9. First(S, key, caps) = CHOOSE j \in S : Leads(j)
  BY DEF First
<1> HIDE DEF Leads
<1>10. First(S, key, caps) \in S /\ Leads(First(S, key, caps))
  BY <1>6, <1>7, <1>9
<1>11. \A j \in S : Leads(j) => j = First(S, key, caps)
  BY <1>8, <1>10
<1> QED BY <1>10, <1>11 DEF Leads

\* The pass takes the units in one order.
LEMMA FirstUnit ==
  ASSUME NEW S \in SUBSET Keys, S # {}
  PROVE  FirstOf(S) \in S
<1> DEFINE R == {p \in S \X S : before(p[1], p[2])}
<1>1. \A j \in S : unitOrder(j) \in Int /\ rank(j) \in Int
  BY PlacementAssumption
<1>2. \A j, k \in S : j # k => (before(j, k) \/ before(k, j))
  BY <1>1, PlacementAssumption DEF before
<1>3. \A a, b \in S : <<a, b>> \in R <=> before(a, b)
  OBVIOUS
<1>4. \A a \in S : ~(<<a, a>> \in R)
  BY <1>1, <1>3 DEF before
<1>5. \A a, b, c \in S : <<a, b>> \in R /\ <<b, c>> \in R => <<a, c>> \in R
  BY <1>1, <1>3 DEF before
<1>6. IsFiniteSet(S)
  BY PlacementAssumption, FS_Subset
<1> HIDE DEF R
<1>7. PICK k \in S : \A n \in S : ~(<<n, k>> \in R)
  BY <1>4, <1>5, <1>6, Foremost
<1>8. \A j \in S \ {k} : before(k, j)
  BY <1>2, <1>3, <1>7
<1> QED BY <1>8 DEF FirstOf

LEMMA LastUnit ==
  ASSUME NEW S \in SUBSET Keys, S # {}
  PROVE  LastOf(S) \in S
<1> DEFINE R == {p \in S \X S : before(p[2], p[1])}
<1>1. \A j \in S : unitOrder(j) \in Int /\ rank(j) \in Int
  BY PlacementAssumption
<1>2. \A j, k \in S : j # k => (before(j, k) \/ before(k, j))
  BY <1>1, PlacementAssumption DEF before
<1>3. \A a, b \in S : <<a, b>> \in R <=> before(b, a)
  OBVIOUS
<1>4. \A a \in S : ~(<<a, a>> \in R)
  BY <1>1, <1>3 DEF before
<1>5. \A a, b, c \in S : <<a, b>> \in R /\ <<b, c>> \in R => <<a, c>> \in R
  BY <1>1, <1>3 DEF before
<1>6. IsFiniteSet(S)
  BY PlacementAssumption, FS_Subset
<1> HIDE DEF R
<1>7. PICK k \in S : \A n \in S : ~(<<n, k>> \in R)
  BY <1>4, <1>5, <1>6, Foremost
<1>8. \A j \in S \ {k} : before(j, k)
  BY <1>2, <1>3, <1>7
<1> QED BY <1>8 DEF LastOf

-----------------------------------------------------------------------------
(* Placement: where a unit goes. *)

\* A list of members and their capacities.
IsList(caps) ==
  /\ DOMAIN caps \subseteq Names /\ DOMAIN caps # {}
  /\ caps \in [DOMAIN caps -> Nat \ {0}]

\* The members of a list, and any of them, are ranked.
LEMMA ListRanked ==
  ASSUME NEW caps, IsList(caps), NEW key \in Keys, NEW S \in SUBSET DOMAIN caps
  PROVE  IsFiniteSet(DOMAIN caps) /\ IsFiniteSet(S) /\ AreRanked(S, key, caps)
<1>1. IsFiniteSet(DOMAIN caps)
  BY PlacementAssumption, FS_Subset DEF IsList
<1>2. IsFiniteSet(S)
  BY <1>1, FS_Subset
<1>3. \A m \in S : m \in Names /\ caps[m] \in Nat \ {0}
  BY DEF IsList
<1>4. \A m \in S : Ranked(m, key, caps)
  BY <1>3, AllRanked
<1>5. \A m, n \in S : m # n => rank(m) # rank(n)
  BY <1>3, PlacementAssumption
<1> QED BY <1>1, <1>2, <1>4, <1>5 DEF AreRanked

LEMMA CapacityIs ==
  ASSUME NEW caps, IsList(caps)
  PROVE  capacity(caps) \in Nat \ {0}
<1>1. IsFiniteSet(DOMAIN caps)
  BY PlacementAssumption, FS_Subset DEF IsList
<1>2. caps \in [DOMAIN caps -> Nat] /\ \A m \in DOMAIN caps : caps[m] # 0
  BY DEF IsList
<1>3. PICK m \in DOMAIN caps : TRUE
  BY DEF IsList
<1>4. SumOf(caps) \in Nat /\ caps[m] \in Nat /\ caps[m] <= SumOf(caps)
  BY <1>1, <1>2, SumAtLeast
<1> QED BY <1>2, <1>4 DEF capacity

\* The members that have room for a unit, and those least loaded.
Room(w, caps, load, sum, f) ==
  {m \in DOMAIN caps : load[m] + w <= boundOf(m, caps, sum, f)}

Least(caps, load) ==
  {m \in DOMAIN caps : \A n \in DOMAIN caps : ~lessLoaded(n, m, load, caps)}

\* Some member is the least loaded for its capacity.
LEMMA SomeLeast ==
  ASSUME NEW caps, IsList(caps), NEW load \in [DOMAIN caps -> Nat]
  PROVE  Least(caps, load) # {}
<1> DEFINE S == DOMAIN caps
           R == {p \in S \X S : lessLoaded(p[1], p[2], load, caps)}
<1>1. IsFiniteSet(S) /\ S # {}
  BY PlacementAssumption, FS_Subset DEF IsList
<1>2. \A m \in S : caps[m] \in Nat \ {0} /\ load[m] \in Nat
  BY DEF IsList
<1>3. \A a, b \in S : <<a, b>> \in R <=> lessLoaded(a, b, load, caps)
  OBVIOUS
<1>4. \A a \in S : ~(<<a, a>> \in R)
  <2> SUFFICES ASSUME NEW a \in S PROVE ~lessLoaded(a, a, load, caps)
    BY <1>3
  <2>1. load[a] * caps[a] \in Nat
    BY <1>2
  <2> QED BY <2>1 DEF lessLoaded
<1>5. \A a, b, c \in S : <<a, b>> \in R /\ <<b, c>> \in R => <<a, c>> \in R
  <2> SUFFICES ASSUME NEW a \in S, NEW b \in S, NEW c \in S,
                      lessLoaded(a, b, load, caps), lessLoaded(b, c, load, caps)
               PROVE  lessLoaded(a, c, load, caps)
    BY <1>3
  <2>1. PICK x \in Nat \ {0} : x = caps[a]
    BY <1>2
  <2>2. PICK y \in Nat \ {0} : y = caps[b]
    BY <1>2
  <2>3. PICK z \in Nat \ {0} : z = caps[c]
    BY <1>2
  <2>4. PICK i \in Nat : i = load[a]
    BY <1>2
  <2>5. PICK j \in Nat : j = load[b]
    BY <1>2
  <2>6. PICK k \in Nat : k = load[c]
    BY <1>2
  <2>7. i * y < j * x /\ j * z < k * y
    BY <2>1, <2>2, <2>3, <2>4, <2>5, <2>6 DEF lessLoaded
  <2>8. i * y <= j * x /\ j * z <= k * y
    <3>1. i * y \in Nat /\ j * x \in Nat /\ j * z \in Nat /\ k * y \in Nat
      OBVIOUS
    <3> QED BY <2>7, <3>1
  <2>9. i * z < k * x
    BY <2>7, <2>8, CrossedOrder
  <2> QED BY <2>1, <2>3, <2>4, <2>6, <2>9 DEF lessLoaded
<1> HIDE DEF R
<1>6. PICK m \in S : \A n \in S : ~(<<n, m>> \in R)
  BY <1>1, <1>4, <1>5, Foremost
<1>7. m \in Least(caps, load)
  BY <1>3, <1>6 DEF Least
<1> QED BY <1>7

\* A unit goes to the first with room, or to the first of those least loaded.
LEMMA PickIs ==
  ASSUME NEW caps, IsList(caps), NEW key \in Keys, NEW load \in [DOMAIN caps -> Nat],
         NEW w, NEW sum, NEW f
  PROVE  LET room == Room(w, caps, load, sum, f)
             m    == pick(key, w, caps, load, sum, f)
         IN  /\ m \in DOMAIN caps
             /\ room # {} => m \in room /\ m = First(room, key, caps)
             /\ room = {} => m \in Least(caps, load)
<1> DEFINE room  == Room(w, caps, load, sum, f)
           least == Least(caps, load)
<1>1. pick(key, w, caps, load, sum, f)
        = First(IF room # {} THEN room ELSE least, key, caps)
  BY DEF pick, Room, Least
<1>2. room \in SUBSET DOMAIN caps /\ least \in SUBSET DOMAIN caps
  BY DEF Room, Least
<1>3. least # {}
  BY SomeLeast
<1> HIDE DEF room, least
<1>4. \A S \in SUBSET DOMAIN caps : S # {} => First(S, key, caps) \in S
  BY ListRanked, FirstIs
<1> QED BY <1>1, <1>2, <1>3, <1>4 DEF room, least

OneCapacity(caps) == \A m, n \in DOMAIN caps : caps[m] = caps[n]

\* Plain rendezvous hashing gives the first of members of one capacity.
LEMMA OwnerIsFirst ==
  ASSUME NEW caps, IsList(caps), OneCapacity(caps), NEW key \in Keys
  PROVE  Owner(DOMAIN caps, key) = First(DOMAIN caps, key, caps)
<1> DEFINE S == DOMAIN caps
           Leads(m) == \A n \in S \ {m} : ByHash(m, n, key)
<1>1. \A m, n \in S : better(m, n, key, caps) <=> ByHash(m, n, key)
  BY DEF better, ByHash, OneCapacity
<1>2. /\ First(S, key, caps) \in S
      /\ \A n \in S \ {First(S, key, caps)} : better(First(S, key, caps), n, key, caps)
      /\ \A m \in S : (\A n \in S \ {m} : better(m, n, key, caps))
                        => m = First(S, key, caps)
  <2>1. IsFiniteSet(S) /\ S # {} /\ AreRanked(S, key, caps)
    BY ListRanked DEF IsList
  <2> QED BY <2>1, FirstIs
<1>3. Leads(First(S, key, caps))
  BY <1>1, <1>2
<1>4. \A m \in S : Leads(m) => m = First(S, key, caps)
  BY <1>1, <1>2
<1>5. Owner(S, key) = CHOOSE m \in S : Leads(m)
  BY DEF Owner, ByHash
<1> HIDE DEF Leads
<1>6. Owner(S, key) \in S /\ Leads(Owner(S, key))
  BY <1>2, <1>3, <1>5
<1> QED BY <1>4, <1>6

\* A member's bound is everything, with the balance factor at the number of
\* members of one capacity.
LEMMA BoundWhenRoomy ==
  ASSUME NEW caps, IsList(caps), OneCapacity(caps), NEW sum \in Nat, NEW f \in Nat,
         f >= Cardinality(DOMAIN caps) * Milli, NEW m \in DOMAIN caps
  PROVE  sum <= boundOf(m, caps, sum, f)
<1>1. PICK c \in Nat \ {0} : c = caps[m]
  BY DEF IsList
<1>2. caps = [n \in DOMAIN caps |-> c]
  BY <1>1 DEF IsList, OneCapacity
<1>3. IsFiniteSet(DOMAIN caps)
  BY PlacementAssumption, FS_Subset DEF IsList
<1>4. PICK k \in Nat : k = Cardinality(DOMAIN caps) /\ capacity(caps) = k * c
  BY <1>2, <1>3, SumAlike DEF capacity
<1>5. PICK o \in Nat \ {0} : o = Milli
  BY PlacementAssumption
<1>6. k # 0
  <2>1. capacity(caps) # 0
    BY CapacityIs
  <2> QED BY <1>4, <2>1
<1>7. (k * c) * o \in Nat \ {0} /\ (f * sum) * c \in Nat
  BY <1>6
<1>8. sum * ((k * c) * o) <= (f * sum) * c
  <2>1. k * o <= f /\ k * o \in Nat
    BY <1>4, <1>5
  <2>2. sum * c \in Nat
    OBVIOUS
  <2>3. (k * o) * (sum * c) <= f * (sum * c)
    <3>1. CASE sum * c = 0
      BY <2>1, <3>1
    <3>2. CASE sum * c # 0
      BY <2>1, <2>2, <3>2, Timesed
    <3> QED BY <3>1, <3>2
  <2>4. (k * o) * (sum * c) = sum * ((k * c) * o) /\ f * (sum * c) = (f * sum) * c
    OBVIOUS
  <2> QED BY <2>3, <2>4
<1>9. sum <= ((f * sum) * c) \div ((k * c) * o)
  BY <1>7, <1>8, QuotientAtLeast
<1> QED BY <1>1, <1>4, <1>5, <1>9 DEF boundOf

-----------------------------------------------------------------------------
(* Placement: what is placed, and its weight. *)

\* The units, each of a weight.
IsUnits(w) == DOMAIN w \subseteq Keys /\ w \in [DOMAIN w -> Nat \ {0}]

\* The weights of some units.
Of(w, S) == [k \in S |-> w[k]]

LEMMA WeightsAre ==
  ASSUME NEW w, IsUnits(w), NEW S \in SUBSET DOMAIN w
  PROVE  /\ IsFiniteSet(S) /\ Of(w, S) \in [S -> Nat]
         /\ \A k \in S : Of(w, S)[k] = w[k]
         /\ SumOf(Of(w, S)) \in Nat
<1>1. S \in SUBSET Keys
  BY DEF IsUnits
<1>2. IsFiniteSet(S)
  BY <1>1, PlacementAssumption, FS_Subset
<1>3. Of(w, S) \in [S -> Nat] /\ \A k \in S : Of(w, S)[k] = w[k]
  BY DEF Of, IsUnits
<1> QED BY <1>2, <1>3, SumFinite

\* A unit more weighs what it weighs.
LEMMA OneUnitMore ==
  ASSUME NEW w, IsUnits(w), NEW S \in SUBSET DOMAIN w, NEW k \in DOMAIN w, k \notin S
  PROVE  /\ SumOf(Of(w, S)) \in Nat
         /\ SumOf(Of(w, S \cup {k})) = SumOf(Of(w, S)) + w[k]
<1> DEFINE T == S \cup {k}
<1>1. T \in SUBSET DOMAIN w /\ T = S \cup {k} /\ k \in T /\ S \subseteq T
  OBVIOUS
<1> HIDE DEF T
<1>2. PICK p : p = Of(w, S)
  OBVIOUS
<1>3. PICK q : q = Of(w, T)
  OBVIOUS
<1>4. IsFiniteSet(S) /\ p \in [S -> Nat] /\ SumOf(p) \in Nat /\ \A j \in S : p[j] = w[j]
  BY <1>2, WeightsAre
<1>5. q \in [T -> Nat] /\ \A j \in T : q[j] = w[j]
  BY <1>1, <1>3, WeightsAre
<1>6. \A j \in S : q[j] = p[j]
  BY <1>1, <1>4, <1>5
<1>7. SumOf(q) = SumOf(p) + q[k]
  BY <1>1, <1>4, <1>5, <1>6, SumOneMore
<1>8. q[k] = w[k]
  BY <1>1, <1>5
<1> QED BY <1>1, <1>2, <1>3, <1>4, <1>7, <1>8

\* Some units weigh no more than all.
LEMMA NoMoreThanTotal ==
  ASSUME NEW w, IsUnits(w), NEW S \in SUBSET DOMAIN w
  PROVE  SumOf(Of(w, S)) \in Nat /\ total(w) \in Nat /\ SumOf(Of(w, S)) <= total(w)
<1>1. PICK p : p = Of(w, S)
  OBVIOUS
<1>2. PICK q : q = Of(w, DOMAIN w)
  OBVIOUS
<1>3. IsFiniteSet(S) /\ p \in [S -> Nat] /\ \A j \in S : p[j] = w[j]
  BY <1>1, WeightsAre
<1>4. IsFiniteSet(DOMAIN w) /\ q \in [DOMAIN w -> Nat] /\ \A j \in DOMAIN w : q[j] = w[j]
  BY <1>2, WeightsAre
<1>5. q = w
  BY <1>2 DEF Of, IsUnits
<1>6. \A j \in S : j \in DOMAIN w /\ p[j] <= q[j]
  <2> SUFFICES ASSUME NEW j \in S PROVE j \in DOMAIN w /\ p[j] <= q[j]
    OBVIOUS
  <2>1. p[j] = q[j] /\ p[j] \in Nat
    BY <1>3, <1>4
  <2> QED BY <2>1
<1>7. SumOf(p) \in Nat /\ SumOf(q) \in Nat /\ SumOf(p) <= SumOf(q)
  BY <1>3, <1>4, <1>6, SumFewer
<1> QED BY <1>1, <1>5, <1>7 DEF total

LEMMA TotalIs ==
  ASSUME NEW w, IsUnits(w)
  PROVE  total(w) \in Nat
<1>1. DOMAIN w \in SUBSET DOMAIN w
  OBVIOUS
<1> QED BY <1>1, NoMoreThanTotal

LEMMA BoundIs ==
  ASSUME NEW caps, IsList(caps), NEW m \in DOMAIN caps, NEW sum \in Nat, NEW f \in Nat
  PROVE  boundOf(m, caps, sum, f) \in Nat
<1>1. PICK c \in Nat : c = caps[m]
  BY DEF IsList
<1>2. PICK s \in Nat \ {0} : s = capacity(caps)
  BY CapacityIs
<1>3. PICK o \in Nat \ {0} : o = Milli
  BY PlacementAssumption
<1>4. (f * sum) * c \in Nat /\ s * o \in Nat \ {0}
  OBVIOUS
<1>5. ((f * sum) * c) \div (s * o) \in Nat
  BY <1>4, Quotient
<1> QED BY <1>1, <1>2, <1>3, <1>5 DEF boundOf

\* p places the units of S over members, whose loads add up to those.
IsPlacing(p, S, w, caps) ==
  /\ S \subseteq DOMAIN w
  /\ p.owner \in [S -> DOMAIN caps]
  /\ p.load \in [DOMAIN caps -> Nat]
  /\ SumOf(p.load) = SumOf(Of(w, S))

LEMMA NothingIsPlacing ==
  ASSUME NEW w, NEW caps
  PROVE  IsPlacing(NothingPlaced(caps), {}, w, caps)
<1> DEFINE p == NothingPlaced(caps)
<1>1. p.owner \in [{} -> DOMAIN caps] /\ p.load = [m \in DOMAIN caps |-> 0]
  BY DEF NothingPlaced
<1>2. SumOf(p.load) = 0
  BY <1>1, SumOfNone
<1>3. SumOf(Of(w, {})) = 0
  BY SumOfNone DEF Of
<1> QED BY <1>1, <1>2, <1>3 DEF IsPlacing

\* q is p and one unit more, on the member m, which is heavier by it.
Grown(q, p, m, key, S, w, caps) ==
  /\ m \in DOMAIN caps
  /\ IsPlacing(q, S \cup {key}, w, caps)
  /\ q.owner[key] = m
  /\ \A k \in S : q.owner[k] = p.owner[k]
  /\ q.load[m] = p.load[m] + w[key]
  /\ \A n \in DOMAIN caps : n # m => q.load[n] = p.load[n]

\* A unit goes to a member of the list.
LEMMA PlaceUnitIs ==
  ASSUME NEW w, IsUnits(w), NEW caps, IsList(caps), NEW f, NEW S, NEW p,
         IsPlacing(p, S, w, caps), NEW key \in DOMAIN w \ S,
         NEW q, q = placeUnit(p, key, w, caps, f),
         NEW m, m = pick(key, w[key], caps, p.load, total(w), f)
  PROVE  Grown(q, p, m, key, S, w, caps)
<1> DEFINE T == S \cup {key}
<1>1. /\ S \subseteq DOMAIN w /\ p.owner \in [S -> DOMAIN caps]
      /\ p.load \in [DOMAIN caps -> Nat] /\ SumOf(p.load) = SumOf(Of(w, S))
  BY DEF IsPlacing
<1>2. key \in Keys
  BY DEF IsUnits
<1>3. m \in DOMAIN caps
  BY <1>1, <1>2, PickIs
<1>4. PICK x \in Nat : x = w[key]
  BY DEF IsUnits
<1>5. /\ q.owner = [k \in S \cup {key} |-> IF k = key THEN m ELSE p.owner[k]]
      /\ q.load = [p.load EXCEPT ![m] = @ + x]
  BY <1>1, <1>4 DEF placeUnit
<1>6. q.owner \in [T -> DOMAIN caps] /\ q.owner[key] = m /\ \A k \in S : q.owner[k] = p.owner[k]
  BY <1>1, <1>3, <1>5
<1>7. /\ q.load \in [DOMAIN caps -> Nat] /\ q.load[m] = p.load[m] + x
      /\ \A n \in DOMAIN caps : n # m => q.load[n] = p.load[n]
  BY <1>1, <1>3, <1>4, <1>5
<1>8. SumOf(q.load) = SumOf(p.load) + x
  <2>1. PICK g \in [DOMAIN caps -> Nat] : g = p.load
    BY <1>1
  <2>2. PICK h \in [DOMAIN caps -> Nat] : h = q.load
    BY <1>7
  <2>3. IsFiniteSet(DOMAIN caps)
    BY PlacementAssumption, FS_Subset DEF IsList
  <2>4. h[m] = g[m] + x /\ \A n \in DOMAIN caps : n # m => h[n] = g[n]
    BY <1>7, <2>1, <2>2
  <2>5. SumOf(g) \in Nat /\ SumOf(h) \in Nat /\ SumOf(h) + g[m] = SumOf(g) + h[m]
    BY <1>3, <2>3, <2>4, SumButOne
  <2>6. g[m] \in Nat
    BY <1>3
  <2> QED BY <2>1, <2>2, <2>4, <2>5, <2>6
<1>9. SumOf(Of(w, T)) = SumOf(Of(w, S)) + x
  BY <1>1, <1>4, OneUnitMore
<1>10. IsPlacing(q, T, w, caps)
  BY <1>1, <1>6, <1>7, <1>8, <1>9 DEF IsPlacing
<1> QED BY <1>3, <1>4, <1>6, <1>7, <1>10 DEF Grown

\* What is placed and one unit more is no more than everything.
LEMMA StillToPlace ==
  ASSUME NEW w, IsUnits(w), NEW caps, NEW S, NEW p, IsPlacing(p, S, w, caps),
         NEW key \in DOMAIN w \ S
  PROVE  /\ SumOf(p.load) \in Nat /\ w[key] \in Nat \ {0} /\ total(w) \in Nat
         /\ SumOf(p.load) + w[key] <= total(w)
<1>1. S \in SUBSET DOMAIN w /\ SumOf(p.load) = SumOf(Of(w, S))
  BY DEF IsPlacing
<1>2. w[key] \in Nat \ {0}
  BY DEF IsUnits
<1>3. /\ SumOf(Of(w, S)) \in Nat
      /\ SumOf(Of(w, S \cup {key})) = SumOf(Of(w, S)) + w[key]
  BY <1>1, OneUnitMore
<1>4. S \cup {key} \in SUBSET DOMAIN w
  BY <1>1
<1>5. SumOf(Of(w, S \cup {key})) <= total(w) /\ total(w) \in Nat
  BY <1>4, NoMoreThanTotal
<1> QED BY <1>1, <1>2, <1>3, <1>5

\* Where there is room for everything, there is room for a unit.
LEMMA RoomThen ==
  ASSUME NEW w, IsUnits(w), NEW caps, IsList(caps), NEW f \in Nat, NEW S, NEW p,
         IsPlacing(p, S, w, caps), NEW key \in DOMAIN w \ S, NEW m \in DOMAIN caps,
         total(w) <= boundOf(m, caps, total(w), f)
  PROVE  m \in Room(w[key], caps, p.load, total(w), f)
<1>1. PICK load \in [DOMAIN caps -> Nat] : load = p.load
  BY DEF IsPlacing
<1>2. IsFiniteSet(DOMAIN caps)
  BY PlacementAssumption, FS_Subset DEF IsList
<1>3. load[m] \in Nat /\ load[m] <= SumOf(load)
  BY <1>2, SumAtLeast
<1>4. PICK x \in Nat : x = w[key]
  BY DEF IsUnits
<1>5. PICK s \in Nat : s = SumOf(load)
  BY <1>1, StillToPlace
<1>6. PICK t \in Nat : t = total(w) /\ s + x <= t
  BY <1>1, <1>4, <1>5, StillToPlace
<1>7. PICK b \in Nat : b = boundOf(m, caps, total(w), f)
  BY <1>6, BoundIs
<1>8. load[m] + x <= b
  BY <1>3, <1>5, <1>6, <1>7
<1> QED BY <1>1, <1>4, <1>7, <1>8 DEF Room

\* The least loaded of members is below its fair share, for what is still to
\* be placed is part of the whole.
LEMMA LeastBelow ==
  ASSUME NEW w, IsUnits(w), NEW caps, IsList(caps), NEW S, NEW p,
         IsPlacing(p, S, w, caps), NEW key \in DOMAIN w \ S, NEW m \in Least(caps, p.load)
  PROVE  p.load[m] * capacity(caps) < total(w) * caps[m]
<1>1. m \in DOMAIN caps
  BY DEF Least
<1>2. PICK load \in [DOMAIN caps -> Nat] : load = p.load
  BY DEF IsPlacing
<1>3. caps \in [DOMAIN caps -> Nat] /\ caps[m] \in Nat \ {0}
  BY <1>1 DEF IsList
<1>4. PICK a \in Nat : a = load[m]
  BY <1>1, <1>2
<1>5. PICK b \in Nat \ {0} : b = caps[m]
  BY <1>3
<1>6. \A n \in DOMAIN caps : a * caps[n] <= load[n] * b
  <2> SUFFICES ASSUME NEW n \in DOMAIN caps PROVE a * caps[n] <= load[n] * b
    OBVIOUS
  <2>1. ~lessLoaded(n, m, p.load, caps)
    BY DEF Least
  <2>2. ~(load[n] * b < a * caps[n])
    BY <1>2, <1>4, <1>5, <2>1 DEF lessLoaded
  <2>3. PICK l \in Nat : l = load[n]
    BY <1>2
  <2>4. PICK c \in Nat : c = caps[n]
    BY <1>3
  <2>5. l * b \in Nat /\ a * c \in Nat
    OBVIOUS
  <2> QED BY <2>2, <2>3, <2>4, <2>5
<1>7. IsFiniteSet(DOMAIN caps)
  BY PlacementAssumption, FS_Subset DEF IsList
<1>8. Crossed(DOMAIN caps, caps, load, a, b)
  BY <1>6 DEF Crossed
<1>9. a * SumOf(caps) <= SumOf(load) * b
  BY <1>3, <1>7, <1>8, SumsCrossed
<1>10. PICK s \in Nat : s = SumOf(load)
  BY <1>2, StillToPlace
<1>11. PICK x \in Nat \ {0} : x = w[key]
  BY DEF IsUnits
<1>12. PICK t \in Nat : t = total(w) /\ s + x <= t
  BY <1>2, <1>10, <1>11, StillToPlace
<1>13. s * b < t * b
  <2>1. s < t
    BY <1>11, <1>12
  <2> QED BY <2>1, Timesed
<1>14. PICK c \in Nat : c = SumOf(caps)
  BY <1>3, <1>7, SumFinite
<1>15. a * c \in Nat /\ s * b \in Nat /\ t * b \in Nat
  OBVIOUS
<1>16. a * c < t * b
  BY <1>9, <1>10, <1>13, <1>14, <1>15
<1> QED BY <1>2, <1>4, <1>5, <1>12, <1>14, <1>16 DEF capacity

\* The first of some members is the first of any fewer it is among.
LEMMA FirstOfFewer ==
  ASSUME NEW caps, IsList(caps), NEW key \in Keys,
         NEW S \in SUBSET DOMAIN caps, NEW T \in SUBSET S, First(S, key, caps) \in T
  PROVE  First(S, key, caps) = First(T, key, caps)
<1>1. IsFiniteSet(S) /\ AreRanked(S, key, caps) /\ S # {}
  BY ListRanked
<1>2. T \in SUBSET DOMAIN caps /\ T # {}
  OBVIOUS
<1>3. IsFiniteSet(T) /\ AreRanked(T, key, caps)
  BY <1>2, ListRanked
<1>4. \A n \in S \ {First(S, key, caps)} : better(First(S, key, caps), n, key, caps)
  BY <1>1, FirstIs
<1>5. PICK m \in T : m = First(S, key, caps)
  OBVIOUS
<1>6. \A n \in T \ {m} : better(m, n, key, caps)
  BY <1>4, <1>5
<1>7. m = First(T, key, caps)
  BY <1>2, <1>3, <1>6, FirstIs
<1> QED BY <1>5, <1>7

\* A unit that goes to one of the members that have room for everything goes to
\* the first of them.
LEMMA GoesFirst ==
  ASSUME NEW w, IsUnits(w), NEW caps, IsList(caps), NEW f \in Nat, NEW S, NEW p,
         IsPlacing(p, S, w, caps), NEW key \in DOMAIN w \ S,
         NEW T \in SUBSET DOMAIN caps,
         \A m \in T : total(w) <= boundOf(m, caps, total(w), f),
         pick(key, w[key], caps, p.load, total(w), f) \in T
  PROVE  pick(key, w[key], caps, p.load, total(w), f) = First(T, key, caps)
<1> DEFINE room == Room(w[key], caps, p.load, total(w), f)
<1>1. T \in SUBSET room
  BY RoomThen
<1>2. room \in SUBSET DOMAIN caps /\ room # {}
  BY <1>1 DEF Room
<1>3. PICK m : m = pick(key, w[key], caps, p.load, total(w), f)
  OBVIOUS
<1>4. key \in Keys /\ p.load \in [DOMAIN caps -> Nat]
  BY DEF IsUnits, IsPlacing
<1>5. m = First(room, key, caps)
  BY <1>2, <1>3, <1>4, PickIs
<1> HIDE DEF room
<1>6. First(room, key, caps) = First(T, key, caps)
  BY <1>1, <1>2, <1>3, <1>4, <1>5, FirstOfFewer
<1> QED BY <1>3, <1>5, <1>6

-----------------------------------------------------------------------------
(* Placement: the pass. *)

\* What has been placed, and over what.
PassTyped ==
  /\ IsUnits(weight) /\ IsList(capOf) /\ factor \in Nat
  /\ IsPlacing(placed, DOMAIN placed.owner, weight, capOf)

\* The members but one, which have room for everything.
But(gone) == DOMAIN capOf \ {gone}

RoomBut(gone) ==
  /\ But(gone) # {}
  /\ \A m \in But(gone) :
       boundOf(m, capOf, total(weight), factor) >= total(weight)

\* Where all members but one have room for everything, a unit is on that one or on
\* the first of the others.
FirstOfOthers ==
  \A gone \in DOMAIN capOf :
    RoomBut(gone) =>
      \A k \in DOMAIN placed.owner :
        placed.owner[k] # gone => placed.owner[k] = First(But(gone), k, capOf)

\* PlacementHolds and OnlyItsOwnMove are kept with these, which say of a placement
\* under way what they say of its end.
PassInv == PassTyped /\ TypeOK /\ BoundKept /\ PlainWhenRoomy /\ FirstOfOthers

\* The unit of a step, and where it goes.
Unit == FirstOf(left)

Goes == pick(Unit, weight[Unit], capOf, placed.load, total(weight), factor)

\* A step takes a unit that is not placed yet.
LEMMA StepIs ==
  ASSUME PassTyped, PlaceNext
  PROVE  /\ weight' = weight /\ capOf' = capOf /\ factor' = factor
         /\ Unit \in DOMAIN weight \ DOMAIN placed.owner /\ Unit \in Keys
         /\ placed' = placeUnit(placed, Unit, weight, capOf, factor)
<1>1. left # {} /\ left \in SUBSET Keys
  BY DEF PlaceNext, left, PassTyped, IsUnits
<1>2. Unit \in left
  BY <1>1, FirstUnit DEF Unit
<1> QED BY <1>1, <1>2 DEF PlaceNext, left, Unit

\* A step places that unit, on the member it goes to.
LEMMA StepTyped ==
  ASSUME PassTyped, PlaceNext
  PROVE  /\ PassTyped'
         /\ Goes \in DOMAIN capOf
         /\ DOMAIN placed'.owner = DOMAIN placed.owner \cup {Unit}
         /\ placed'.owner[Unit] = Goes
         /\ \A k \in DOMAIN placed.owner : placed'.owner[k] = placed.owner[k]
         /\ placed'.load[Goes] = placed.load[Goes] + weight[Unit]
         /\ \A m \in DOMAIN capOf : m # Goes => placed'.load[m] = placed.load[m]
<1> DEFINE S == DOMAIN placed.owner
<1>1. /\ weight' = weight /\ capOf' = capOf /\ factor' = factor
      /\ Unit \in DOMAIN weight \ S
      /\ placed' = placeUnit(placed, Unit, weight, capOf, factor)
  BY StepIs
<1>2. IsUnits(weight) /\ IsList(capOf) /\ factor \in Nat /\ IsPlacing(placed, S, weight, capOf)
  BY DEF PassTyped
<1>3. PICK q : q = placeUnit(placed, Unit, weight, capOf, factor)
  OBVIOUS
<1>4. PICK g : g = Goes
  OBVIOUS
<1> HIDE DEF S
<1>5. /\ g \in DOMAIN capOf
      /\ IsPlacing(q, S \cup {Unit}, weight, capOf)
      /\ q.owner[Unit] = g
      /\ \A k \in S : q.owner[k] = placed.owner[k]
      /\ q.load[g] = placed.load[g] + weight[Unit]
      /\ \A n \in DOMAIN capOf : n # g => q.load[n] = placed.load[n]
  <2>1. g = pick(Unit, weight[Unit], capOf, placed.load, total(weight), factor)
    BY <1>4 DEF Goes
  <2>2. PICK u : u = Unit
    OBVIOUS
  <2>3. u \in DOMAIN weight \ S /\ q = placeUnit(placed, u, weight, capOf, factor)
    BY <1>1, <1>3, <2>2
  <2>4. g = pick(u, weight[u], capOf, placed.load, total(weight), factor)
    BY <2>1, <2>2
  <2>5. Grown(q, placed, g, u, S, weight, capOf)
    BY <1>2, <2>3, <2>4, PlaceUnitIs
  <2> QED BY <2>2, <2>5 DEF Grown
<1>6. DOMAIN q.owner = S \cup {Unit}
  BY <1>5 DEF IsPlacing
<1>7. placed' = q
  BY <1>1, <1>3
<1>8. PassTyped'
  <2>1. IsPlacing(q, DOMAIN q.owner, weight, capOf)
    BY <1>5, <1>6
  <2>2. PassTyped' <=> /\ IsUnits(weight') /\ IsList(capOf') /\ factor' \in Nat
                       /\ IsPlacing(placed', DOMAIN placed'.owner, weight', capOf')
    BY DEF PassTyped, IsUnits, IsList, IsPlacing, Of
  <2> QED BY <1>1, <1>2, <1>7, <2>1, <2>2
<1> QED BY <1>4, <1>5, <1>6, <1>7, <1>8 DEF S

\* What a member has been given.
LEMMA HeldStep ==
  ASSUME PassTyped, PlaceNext, NEW m \in DOMAIN capOf
  PROVE  /\ held(m) \in SUBSET DOMAIN weight
         /\ held(m)' = IF m = Goes THEN held(m) \cup {Unit} ELSE held(m)
         /\ Unit \notin held(m)
<1>1. Unit \notin DOMAIN placed.owner
  BY StepIs
<1>2. /\ DOMAIN placed'.owner = DOMAIN placed.owner \cup {Unit}
      /\ placed'.owner[Unit] = Goes
      /\ \A k \in DOMAIN placed.owner : placed'.owner[k] = placed.owner[k]
  BY StepTyped
<1> QED BY <1>1, <1>2 DEF held, PassTyped, IsPlacing

LEMMA TypeOKStep ==
  ASSUME PassTyped, TypeOK, PlaceNext
  PROVE  TypeOK'
<1>1. weight' = weight /\ capOf' = capOf /\ Unit \in DOMAIN weight
  BY StepIs
<1>2. /\ PassTyped'
      /\ placed'.load[Goes] = placed.load[Goes] + weight[Unit]
      /\ \A m \in DOMAIN capOf : m # Goes => placed'.load[m] = placed.load[m]
  BY StepTyped
<1>3. ASSUME NEW m \in DOMAIN capOf
      PROVE  placed'.load[m] = SumOf([k \in held(m)' |-> weight'[k]])
  <2>1. /\ held(m) \in SUBSET DOMAIN weight /\ Unit \notin held(m)
        /\ held(m)' = IF m = Goes THEN held(m) \cup {Unit} ELSE held(m)
    BY HeldStep
  <2>2. placed.load[m] = SumOf(Of(weight, held(m)))
    BY DEF TypeOK, Of
  <2>3. [k \in held(m)' |-> weight'[k]] = Of(weight, held(m)')
    BY <1>1 DEF Of
  <2>4. CASE m = Goes
    <3>1. IsUnits(weight)
      BY DEF PassTyped
    <3>2. SumOf(Of(weight, held(m) \cup {Unit})) = SumOf(Of(weight, held(m))) + weight[Unit]
      BY <1>1, <2>1, <3>1, OneUnitMore
    <3> QED BY <1>2, <2>1, <2>2, <2>3, <2>4, <3>2
  <2>5. CASE m # Goes
    BY <1>2, <2>1, <2>2, <2>3, <2>5
  <2> QED BY <2>4, <2>5
<1>4. \A m \in DOMAIN capOf' : placed'.load[m] = SumOf([k \in held(m)' |-> weight'[k]])
  BY <1>1, <1>3
<1>5. /\ DOMAIN placed'.owner \subseteq DOMAIN weight'
      /\ \A k \in DOMAIN placed'.owner : placed'.owner[k] \in DOMAIN capOf'
  BY <1>2 DEF PassTyped, IsPlacing
<1> QED BY <1>4, <1>5 DEF TypeOK

LEMMA BoundStep ==
  ASSUME PassTyped, BoundKept, PlaceNext
  PROVE  BoundKept'
<1>1. /\ weight' = weight /\ capOf' = capOf /\ factor' = factor
      /\ Unit \in DOMAIN weight \ DOMAIN placed.owner /\ Unit \in Keys
  BY StepIs
<1>2. /\ placed'.load[Goes] = placed.load[Goes] + weight[Unit]
      /\ \A m \in DOMAIN capOf : m # Goes => placed'.load[m] = placed.load[m]
  BY StepTyped
<1>3. IsUnits(weight) /\ IsList(capOf) /\ IsPlacing(placed, DOMAIN placed.owner, weight, capOf)
  BY DEF PassTyped
<1>4. placed.load \in [DOMAIN capOf -> Nat] /\ weight[Unit] \in Nat
  BY <1>1, <1>3 DEF IsPlacing, IsUnits
<1> DEFINE room == Room(weight[Unit], capOf, placed.load, total(weight), factor)
<1>5. /\ room # {} => Goes \in room
      /\ room = {} => Goes \in Least(capOf, placed.load)
  BY <1>1, <1>3, <1>4, PickIs DEF Goes
<1>6. ASSUME NEW m \in DOMAIN capOf
      PROVE  \/ placed'.load[m] <= boundOf(m, capOf, total(weight), factor)
             \/ \E k \in held(m)' :
                  (placed'.load[m] - weight[k]) * capacity(capOf) < total(weight) * capOf[m]
  <2>1. held(m)' = IF m = Goes THEN held(m) \cup {Unit} ELSE held(m)
    BY HeldStep
  <2>2. CASE m # Goes
    BY <1>2, <2>1, <2>2 DEF BoundKept
  <2>3. CASE m = Goes /\ room # {}
    BY <1>2, <1>5, <2>3 DEF Room
  <2>4. CASE m = Goes /\ room = {}
    <3>1. m \in Least(capOf, placed.load)
      BY <1>5, <2>4
    <3>2. placed.load[m] * capacity(capOf) < total(weight) * capOf[m]
      BY <1>1, <1>3, <3>1, LeastBelow
    <3>3. placed'.load[m] - weight[Unit] = placed.load[m]
      BY <1>2, <1>4, <2>4
    <3>4. Unit \in held(m)'
      BY <2>1, <2>4
    <3> QED BY <3>2, <3>3, <3>4
  <2> QED BY <2>2, <2>3, <2>4
<1> QED BY <1>1, <1>6 DEF BoundKept

\* Where members that have room for everything are given a unit, it is the first
\* of them.
LEMMA GoesToFirst ==
  ASSUME PassTyped, PlaceNext, NEW T \in SUBSET DOMAIN capOf, Goes \in T,
         \A m \in T : total(weight) <= boundOf(m, capOf, total(weight), factor)
  PROVE  Goes = First(T, Unit, capOf)
<1>1. Unit \in DOMAIN weight \ DOMAIN placed.owner
  BY StepIs
<1>2. /\ IsUnits(weight) /\ IsList(capOf) /\ factor \in Nat
      /\ IsPlacing(placed, DOMAIN placed.owner, weight, capOf)
  BY DEF PassTyped
<1> QED BY <1>1, <1>2, GoesFirst DEF Goes

LEMMA PlainStep ==
  ASSUME PassTyped, PlainWhenRoomy, PlaceNext
  PROVE  PlainWhenRoomy'
<1>1. weight' = weight /\ capOf' = capOf /\ factor' = factor /\ Unit \in Keys
  BY StepIs
<1>2. /\ Goes \in DOMAIN capOf
      /\ DOMAIN placed'.owner = DOMAIN placed.owner \cup {Unit}
      /\ placed'.owner[Unit] = Goes
      /\ \A k \in DOMAIN placed.owner : placed'.owner[k] = placed.owner[k]
  BY StepTyped
<1>3. ASSUME factor >= Cardinality(DOMAIN capOf) * Milli, OneCapacity(capOf)
      PROVE  Goes = Owner(DOMAIN capOf, Unit)
  <2>1. IsList(capOf) /\ total(weight) \in Nat /\ factor \in Nat
    BY TotalIs DEF PassTyped
  <2>2. \A m \in DOMAIN capOf : total(weight) <= boundOf(m, capOf, total(weight), factor)
    BY <1>3, <2>1, BoundWhenRoomy
  <2>3. Goes = First(DOMAIN capOf, Unit, capOf)
    BY <1>2, <2>2, GoesToFirst
  <2> QED BY <1>1, <1>3, <2>1, <2>3, OwnerIsFirst
<1> QED BY <1>1, <1>2, <1>3 DEF PlainWhenRoomy, OneCapacity

LEMMA FirstsStep ==
  ASSUME PassTyped, FirstOfOthers, PlaceNext
  PROVE  FirstOfOthers'
<1>1. weight' = weight /\ capOf' = capOf /\ factor' = factor
  BY StepIs
<1>2. /\ Goes \in DOMAIN capOf
      /\ DOMAIN placed'.owner = DOMAIN placed.owner \cup {Unit}
      /\ placed'.owner[Unit] = Goes
      /\ \A k \in DOMAIN placed.owner : placed'.owner[k] = placed.owner[k]
  BY StepTyped
<1>3. ASSUME NEW gone \in DOMAIN capOf, RoomBut(gone), Goes # gone
      PROVE  Goes = First(But(gone), Unit, capOf)
  <2>1. IsList(capOf) /\ total(weight) \in Nat /\ factor \in Nat
    BY TotalIs DEF PassTyped
  <2>2. Goes \in But(gone) /\ But(gone) \in SUBSET DOMAIN capOf
    BY <1>2, <1>3 DEF But
  <2>3. ASSUME NEW m \in But(gone)
        PROVE  total(weight) <= boundOf(m, capOf, total(weight), factor)
    <3>1. boundOf(m, capOf, total(weight), factor) \in Nat
      BY <2>1, <2>2, BoundIs
    <3> QED BY <1>3, <2>1, <3>1 DEF RoomBut
  <2> QED BY <2>2, <2>3, GoesToFirst
<1>4. \A gone : But(gone)' = But(gone) /\ (RoomBut(gone)' <=> RoomBut(gone))
  BY <1>1 DEF But, RoomBut
<1>5. ASSUME NEW gone \in DOMAIN capOf, RoomBut(gone), NEW k \in DOMAIN placed'.owner,
             placed'.owner[k] # gone
      PROVE  placed'.owner[k] = First(But(gone), k, capOf)
  <2>1. CASE k = Unit
    BY <1>2, <1>3, <1>5, <2>1
  <2>2. CASE k # Unit
    BY <1>2, <1>5, <2>2 DEF FirstOfOthers
  <2> QED BY <2>1, <2>2
<1> QED BY <1>1, <1>4, <1>5 DEF FirstOfOthers

LEMMA PassInit == Init => PassInv
<1> SUFFICES ASSUME Init PROVE PassInv
  OBVIOUS
<1>1. IsUnits(weight)
  BY PassAssumption DEF Init, IsUnits
<1>2. IsList(capOf)
  <2>1. PICK S \in (SUBSET Names) \ {{}} : capOf \in [S -> Caps]
    BY DEF Init
  <2>2. DOMAIN capOf = S /\ \A m \in S : capOf[m] \in Nat \ {0}
    BY <2>1, PassAssumption
  <2>3. capOf \in [S -> Nat \ {0}]
    BY <2>1, <2>2
  <2>4. S \subseteq Names /\ S # {}
    BY <2>1
  <2> QED BY <2>2, <2>3, <2>4 DEF IsList
<1>3. factor \in Nat
  BY PassAssumption DEF Init
<1>4. placed = NothingPlaced(capOf)
  BY DEF Init
<1>5. DOMAIN placed.owner = {} /\ placed.load = [m \in DOMAIN capOf |-> 0]
  BY <1>4 DEF NothingPlaced
<1>6. IsPlacing(placed, {}, weight, capOf)
  BY <1>4, NothingIsPlacing
<1>7. TypeOK
  <2>1. \A m \in DOMAIN capOf : SumOf([k \in held(m) |-> weight[k]]) = 0
    <3>1. \A m \in DOMAIN capOf : held(m) = {}
      BY <1>5 DEF held
    <3> QED BY <3>1, SumOfNone
  <2> QED BY <1>5, <2>1 DEF TypeOK
<1>8. BoundKept
  <2>1. total(weight) \in Nat
    BY <1>1, TotalIs
  <2> SUFFICES ASSUME NEW m \in DOMAIN capOf
               PROVE  placed.load[m] <= boundOf(m, capOf, total(weight), factor)
    BY DEF BoundKept
  <2>2. boundOf(m, capOf, total(weight), factor) \in Nat
    BY <1>2, <1>3, <2>1, BoundIs
  <2> QED BY <1>5, <2>2
<1>9. PlainWhenRoomy /\ FirstOfOthers
  BY <1>5 DEF PlainWhenRoomy, FirstOfOthers
<1> QED BY <1>1, <1>2, <1>3, <1>5, <1>6, <1>7, <1>8, <1>9 DEF PassInv, PassTyped

LEMMA PassStep == PassInv /\ [Next]_vars => PassInv'
<1> SUFFICES ASSUME PassInv, [Next]_vars PROVE PassInv'
  OBVIOUS
<1>1. CASE PlaceNext
  BY <1>1, StepTyped, TypeOKStep, BoundStep, PlainStep, FirstsStep DEF PassInv
<1>2. CASE UNCHANGED vars
  <2>1. weight' = weight /\ capOf' = capOf /\ factor' = factor /\ placed' = placed
    BY <1>2 DEF vars
  <2>2. PassTyped' /\ FirstOfOthers'
    BY <2>1 DEF PassInv, PassTyped, FirstOfOthers, RoomBut, But
  <2>3. TypeOK' /\ BoundKept' /\ PlainWhenRoomy'
    BY <2>1 DEF PassInv, TypeOK, BoundKept, PlainWhenRoomy, held
  <2> QED BY <2>2, <2>3 DEF PassInv
<1> QED BY <1>1, <1>2 DEF Next

\* Members rank in one order, by their scores.
LEMMA RanksInOrder ==
  ASSUME PassTyped
  PROVE  OneOrder /\ HigherWins
<1>1. ASSUME NEW k \in Keys
      PROVE  AreRanked(DOMAIN capOf, k, capOf)
  BY ListRanked DEF PassTyped
<1>2. OneOrder
  <2> SUFFICES ASSUME NEW k \in Keys, NEW m \in DOMAIN capOf, NEW n \in DOMAIN capOf, m # n
               PROVE  /\ better(m, n, k, capOf) <=> ~better(n, m, k, capOf)
                      /\ \A o \in DOMAIN capOf \ {m, n} :
                           better(m, n, k, capOf) /\ better(n, o, k, capOf)
                             => better(m, o, k, capOf)
    BY DEF OneOrder
  <2>1. \A o \in DOMAIN capOf : Ranked(o, k, capOf)
    BY <1>1 DEF AreRanked
  <2>2. rank(m) # rank(n)
    BY <1>1 DEF AreRanked
  <2> QED BY <2>1, <2>2, BetterOneWay, BetterOnwards
<1>3. HigherWins
  <2> SUFFICES ASSUME NEW k \in Keys, NEW m \in DOMAIN capOf, NEW n \in DOMAIN capOf,
                      Score(m, k) > Score(n, k), capOf[m] >= capOf[n]
               PROVE  better(m, n, k, capOf)
    BY DEF HigherWins
  <2>1. Ranked(m, k, capOf) /\ Ranked(n, k, capOf)
    BY <1>1 DEF AreRanked
  <2>2. PICK c \in Nat \ {0} : c = capOf[m]
    BY <2>1 DEF Ranked
  <2>3. PICK d \in Nat \ {0} : d = capOf[n]
    BY <2>1 DEF Ranked
  <2>4. PICK a \in Nat : a = negLog(Score(m, k))
    BY <2>1 DEF Ranked
  <2>5. PICK b \in Nat : b = negLog(Score(n, k))
    BY <2>1 DEF Ranked
  <2>6. a <= b
    <3>1. PICK g \in 0 .. 2^HashBits - 1 : g = Score(m, k)
      BY <2>1 DEF Ranked
    <3>2. PICK h \in 0 .. 2^HashBits - 1 : h = Score(n, k)
      BY <2>1 DEF Ranked
    <3>3. h <= g
      <4>1. Score(m, k) \in Nat /\ Score(n, k) \in Nat
        BY <2>1 DEF Ranked
      <4> QED BY <3>1, <3>2, <4>1
    <3> QED BY <2>4, <2>5, <3>1, <3>2, <3>3, NegLogsOrdered
  <2>7. d <= c
    BY <2>2, <2>3
  <2>8. a * d <= b * c
    <3>1. a * d <= b * d
      BY <2>6, Timesed
    <3>2. b * d <= b * c
      BY <2>7
    <3>3. a * d \in Nat /\ b * d \in Nat /\ b * c \in Nat
      OBVIOUS
    <3> QED BY <3>1, <3>2, <3>3
  <2>9. Higher(m, n, k, capOf) \/ Alike(m, n, k, capOf)
    <3>1. a * d < b * c \/ a * d = b * c
      <4>1. a * d \in Nat /\ b * c \in Nat
        OBVIOUS
      <4> QED BY <2>8, <4>1
    <3> QED BY <2>2, <2>3, <2>4, <2>5, <3>1 DEF Higher, Alike
  <2>10. ByHash(m, n, k)
    BY DEF ByHash
  <2> QED BY <2>1, <2>9, <2>10, BetterIs
<1> QED BY <1>2, <1>3

\* In a placement of any targets over any members, of any hashes, of any width, and
\* any fraction of logarithms, members rank in one order for each key, which no
\* rounding of a logarithm turns round, a member holds more than its bound by one
\* unit at most, which went to it below its fair share, and where there is room
\* for everything on members of one capacity each unit is where plain rendezvous
\* hashing has it (place, pick, memberScore.better and log2Fixed).
THEOREM PlacementAlwaysHolds == Spec => []PlacementHolds
<1>1. PassInv => PlacementHolds
  BY RanksInOrder DEF PassInv, PlacementHolds
<1> QED BY <1>1, PassInit, PassStep, PTL DEF Spec

-----------------------------------------------------------------------------
(* Placement: all units in one go. *)

\* What the placements of sets of at most n units are.
Small(S, n) == {T \in SUBSET S : Cardinality(T) <= n}

PlacesEach(g, D, w, caps, f) ==
  /\ g = [S \in D |-> g[S]]
  /\ \A S \in D :
       g[S] = IF S = {} THEN NothingPlaced(caps)
              ELSE placeUnit(g[S \ {LastOf(S)}], LastOf(S), w, caps, f)

\* The last of some units leaves one fewer.
LEMMA LastTaken ==
  ASSUME NEW K \in SUBSET Keys, NEW S \in SUBSET K, S # {}
  PROVE  /\ LastOf(S) \in S /\ IsFiniteSet(S) /\ S \ {LastOf(S)} \in SUBSET K
         /\ Cardinality(S \ {LastOf(S)}) = Cardinality(S) - 1
         /\ Cardinality(S) \in Nat \ {0}
<1>1. S \in SUBSET Keys
  OBVIOUS
<1>2. IsFiniteSet(S)
  BY <1>1, PlacementAssumption, FS_Subset
<1>3. LastOf(S) \in S
  BY <1>1, LastUnit
<1>4. Cardinality(S \ {LastOf(S)}) = Cardinality(S) - 1
  BY <1>2, <1>3, FS_RemoveElement
<1>5. Cardinality(S) \in Nat /\ Cardinality(S) # 0
  BY <1>2, FS_CardinalityType, FS_EmptySet
<1> QED BY <1>2, <1>3, <1>4, <1>5

\* The placements of the subsets are what one unit after the other makes of them.
LEMMA PlacementsOfEach ==
  ASSUME NEW w, DOMAIN w \in SUBSET Keys, NEW caps, NEW f
  PROVE  PlacesEach(placements(w, caps, f), SUBSET DOMAIN w, w, caps, f)
<1> DEFINE K == DOMAIN w
           E(g, S) == IF S = {} THEN NothingPlaced(caps)
                      ELSE placeUnit(g[S \ {LastOf(S)}], LastOf(S), w, caps, f)
           Has(n) == \E g : PlacesEach(g, Small(K, n), w, caps, f)
           N == {n \in Nat : ~Has(n)}
<1>1. \A S \in SUBSET K : IsFiniteSet(S) /\ Cardinality(S) \in Nat
  <2> SUFFICES ASSUME NEW S \in SUBSET K PROVE IsFiniteSet(S) /\ Cardinality(S) \in Nat
    OBVIOUS
  <2>1. IsFiniteSet(S)
    BY PlacementAssumption, FS_Subset
  <2> QED BY <2>1, FS_CardinalityType
<1>2. Has(0)
  <2> DEFINE g == [S \in Small(K, 0) |-> NothingPlaced(caps)]
  <2>1. \A S \in Small(K, 0) : S = {}
    <3> SUFFICES ASSUME NEW S \in SUBSET K, Cardinality(S) <= 0 PROVE S = {}
      BY DEF Small
    <3>1. Cardinality(S) = 0
      BY <1>1
    <3> QED BY <1>1, <3>1, FS_EmptySet
  <2>2. PlacesEach(g, Small(K, 0), w, caps, f)
    <3>1. \A S \in Small(K, 0) : g[S] = NothingPlaced(caps)
      OBVIOUS
    <3>2. g = [S \in Small(K, 0) |-> g[S]]
      OBVIOUS
    <3> HIDE DEF g
    <3> QED BY <2>1, <3>1, <3>2 DEF PlacesEach
  <2> QED BY <2>2
<1>3. ASSUME NEW n \in Nat, Has(n) PROVE Has(n + 1)
  <2>1. PICK g : PlacesEach(g, Small(K, n), w, caps, f)
    BY <1>3
  <2> DEFINE h == [S \in Small(K, n + 1) |-> E(g, S)]
  <2>2. \A S \in Small(K, n) : S \in Small(K, n + 1) /\ g[S] = E(g, S)
    <3>1. \A S \in Small(K, n) : S \in Small(K, n + 1)
      BY <1>1 DEF Small
    <3> QED BY <2>1, <3>1 DEF PlacesEach
  <2>3. \A S \in Small(K, n) : h[S] = g[S]
    <3> HIDE DEF E
    <3> QED BY <2>2
  <2>4. \A S \in Small(K, n + 1) : S # {} => S \ {LastOf(S)} \in Small(K, n)
    <3> SUFFICES ASSUME NEW S \in SUBSET K, Cardinality(S) <= n + 1, S # {}
                 PROVE  S \ {LastOf(S)} \in SUBSET K /\ Cardinality(S \ {LastOf(S)}) <= n
      BY DEF Small
    <3> QED BY LastTaken
  <2>5. \A S \in Small(K, n + 1) : h[S] = E(h, S)
    <3> SUFFICES ASSUME NEW S \in Small(K, n + 1) PROVE h[S] = E(h, S)
      OBVIOUS
    <3>1. h[S] = E(g, S)
      OBVIOUS
    <3>2. S # {} => h[S \ {LastOf(S)}] = g[S \ {LastOf(S)}]
      BY <2>3, <2>4
    <3> HIDE DEF h
    <3> QED BY <3>1, <3>2
  <2>6. h = [S \in Small(K, n + 1) |-> h[S]]
    OBVIOUS
  <2> HIDE DEF h
  <2>7. PlacesEach(h, Small(K, n + 1), w, caps, f)
    BY <2>5, <2>6 DEF PlacesEach
  <2> QED BY <2>7
<1> HIDE DEF Has
<1>4. N = {}
  <2> SUFFICES ASSUME N # {} PROVE FALSE
    OBVIOUS
  <2>1. PICK k \in N : \A j \in N : k <= j
    BY LeastOf
  <2>2. k \in Nat /\ ~Has(k) /\ k # 0
    BY <1>2
  <2>3. k - 1 \in Nat /\ ~(k <= k - 1) /\ (k - 1) + 1 = k
    BY <2>2
  <2>4. Has(k - 1)
    BY <2>1, <2>3
  <2> QED BY <1>3, <2>2, <2>3, <2>4
<1>5. Small(K, Cardinality(K)) = SUBSET K /\ Cardinality(K) \in Nat
  <2>1. IsFiniteSet(K) /\ Cardinality(K) \in Nat
    BY <1>1
  <2>2. \A S \in SUBSET K : Cardinality(S) <= Cardinality(K)
    BY <2>1, FS_Subset
  <2> QED BY <2>1, <2>2 DEF Small
<1>6. PICK g : PlacesEach(g, SUBSET K, w, caps, f)
  <2>1. Has(Cardinality(K))
    BY <1>4, <1>5
  <2> QED BY <1>5, <2>1 DEF Has
<1> DEFINE Is(h) == h = [S \in SUBSET K |-> E(h, S)]
<1>7. Is(g)
  <2>1. g = [S \in SUBSET K |-> g[S]] /\ \A S \in SUBSET K : g[S] = E(g, S)
    BY <1>6 DEF PlacesEach
  <2> HIDE DEF E
  <2>2. [S \in SUBSET K |-> g[S]] = [S \in SUBSET K |-> E(g, S)]
    BY <2>1
  <2> QED BY <2>1, <2>2
<1>8. placements(w, caps, f) = CHOOSE h : Is(h)
  BY DEF placements
<1> HIDE DEF Is
<1>9. Is(placements(w, caps, f))
  BY <1>7, <1>8
<1> QED BY <1>9 DEF Is, PlacesEach

\* p places the units of S, each on the first of the members.
OnFirst(p, S, w, caps) ==
  /\ IsPlacing(p, S, w, caps)
  /\ \A k \in S : p.owner[k] = First(DOMAIN caps, k, caps)

AllRoomy(w, caps, f) ==
  \A m \in DOMAIN caps : total(w) <= boundOf(m, caps, total(w), f)

\* Where there is room for everything everywhere, a unit more goes to the first.
LEMMA OneMoreOnFirst ==
  ASSUME NEW w, IsUnits(w), NEW caps, IsList(caps), NEW f \in Nat, AllRoomy(w, caps, f),
         NEW S, NEW p, OnFirst(p, S, w, caps), NEW key \in DOMAIN w \ S,
         NEW q, q = placeUnit(p, key, w, caps, f)
  PROVE  OnFirst(q, S \cup {key}, w, caps)
<1>1. IsPlacing(p, S, w, caps) /\ \A k \in S : p.owner[k] = First(DOMAIN caps, k, caps)
  BY DEF OnFirst
<1>2. PICK m : m = pick(key, w[key], caps, p.load, total(w), f)
  OBVIOUS
<1>3. Grown(q, p, m, key, S, w, caps)
  BY <1>1, <1>2, PlaceUnitIs
<1>4. m \in DOMAIN caps /\ IsPlacing(q, S \cup {key}, w, caps) /\ q.owner[key] = m
      /\ \A k \in S : q.owner[k] = p.owner[k]
  BY <1>3 DEF Grown
<1>5. m = First(DOMAIN caps, key, caps)
  <2>1. \A n \in DOMAIN caps : total(w) <= boundOf(n, caps, total(w), f)
    BY DEF AllRoomy
  <2>2. DOMAIN caps \in SUBSET DOMAIN caps
    OBVIOUS
  <2> QED BY <1>1, <1>2, <1>4, <2>1, <2>2, GoesFirst
<1> QED BY <1>1, <1>4, <1>5 DEF OnFirst

\* Where there is room for everything everywhere, every unit is on the first.
LEMMA AllOnFirst ==
  ASSUME NEW w, IsUnits(w), NEW caps, IsList(caps), NEW f \in Nat, AllRoomy(w, caps, f)
  PROVE  OnFirst(place(w, caps, f), DOMAIN w, w, caps)
<1> DEFINE K == DOMAIN w
<1>1. PICK g : g = placements(w, caps, f)
  OBVIOUS
<1>2. K \in SUBSET Keys
  BY DEF IsUnits
<1>3. \A S \in SUBSET K :
        g[S] = IF S = {} THEN NothingPlaced(caps)
               ELSE placeUnit(g[S \ {LastOf(S)}], LastOf(S), w, caps, f)
  <2>1. PlacesEach(g, SUBSET K, w, caps, f)
    <3>1. PlacesEach(placements(w, caps, f), SUBSET DOMAIN w, w, caps, f)
      BY <1>2, PlacementsOfEach
    <3> QED BY <1>1, <3>1
  <2> HIDE DEF K
  <2> QED BY <2>1 DEF PlacesEach
<1> DEFINE Good(S) == OnFirst(g[S], S, w, caps)
           N == {Cardinality(S) : S \in {T \in SUBSET K : ~Good(T)}}
<1>4. ASSUME NEW S \in SUBSET K, S # {}, Good(S \ {LastOf(S)})
      PROVE  Good(S)
  <2>1. PICK u : u = LastOf(S)
    OBVIOUS
  <2>2. u \in S
    BY <1>2, <1>4, <2>1, LastTaken
  <2>3. u \in K \ (S \ {u}) /\ (S \ {u}) \cup {u} = S
    BY <2>2
  <2>4. g[S] = placeUnit(g[S \ {u}], u, w, caps, f)
    BY <1>3, <1>4, <2>1
  <2>5. OnFirst(g[S \ {u}], S \ {u}, w, caps)
    BY <1>4, <2>1
  <2>6. OnFirst(g[S], (S \ {u}) \cup {u}, w, caps)
    BY <2>3, <2>4, <2>5, OneMoreOnFirst
  <2> QED BY <2>3, <2>6
<1>5. Good({})
  <2>1. g[{}] = NothingPlaced(caps)
    BY <1>3
  <2> QED BY <2>1, NothingIsPlacing DEF OnFirst
<1> HIDE DEF Good
<1>6. N = {}
  <2> SUFFICES ASSUME N # {} PROVE FALSE
    OBVIOUS
  <2>1. N \in SUBSET Nat
    <3> SUFFICES ASSUME NEW S \in SUBSET K PROVE Cardinality(S) \in Nat
      OBVIOUS
    <3>1. IsFiniteSet(S)
      BY <1>2, PlacementAssumption, FS_Subset
    <3> QED BY <3>1, FS_CardinalityType
  <2>2. PICK n \in N : \A i \in N : n <= i
    BY <2>1, LeastOf
  <2>3. PICK S \in SUBSET K : n = Cardinality(S) /\ ~Good(S)
    BY <2>2
  <2>4. S # {}
    BY <1>5, <2>3
  <2>5. /\ S \ {LastOf(S)} \in SUBSET K /\ Cardinality(S) \in Nat
        /\ Cardinality(S \ {LastOf(S)}) = Cardinality(S) - 1
    BY <1>2, <2>3, <2>4, LastTaken
  <2>6. ~(n <= Cardinality(S \ {LastOf(S)}))
    BY <2>3, <2>5
  <2>7. Good(S \ {LastOf(S)})
    BY <2>2, <2>5, <2>6
  <2> QED BY <1>4, <2>3, <2>4, <2>7
<1>7. OnFirst(g[K], K, w, caps)
  <2>1. Good(K)
    BY <1>6
  <2> QED BY <2>1 DEF Good
<1>8. place(w, caps, f) = g[K]
  BY <1>1 DEF place, IsList
<1> QED BY <1>7, <1>8

\* Members rank alike in a list and in one of fewer.
LEMMA FirstOfRest ==
  ASSUME NEW caps, IsList(caps), NEW rest, IsList(rest), NEW key \in Keys,
         DOMAIN rest \subseteq DOMAIN caps,
         \A m \in DOMAIN rest : rest[m] = caps[m]
  PROVE  First(DOMAIN rest, key, rest) = First(DOMAIN rest, key, caps)
<1> DEFINE S == DOMAIN rest
<1>1. S \in SUBSET DOMAIN caps /\ S # {} /\ S \in SUBSET S
  BY DEF IsList
<1>2. IsFiniteSet(S) /\ AreRanked(S, key, rest) /\ AreRanked(S, key, caps)
  BY <1>1, ListRanked
<1>3. \A m, n \in S : better(m, n, key, rest) <=> better(m, n, key, caps)
  BY DEF better
<1>4. PICK f : f = First(S, key, rest)
  OBVIOUS
<1>5. f \in S /\ \A n \in S \ {f} : better(f, n, key, rest)
  BY <1>1, <1>2, <1>4, FirstIs
<1>6. \A n \in S \ {f} : better(f, n, key, caps)
  BY <1>3, <1>5
<1>7. f = First(S, key, caps)
  BY <1>1, <1>2, <1>5, <1>6, FirstIs
<1> QED BY <1>4, <1>7

\* At the end of a pass, then, no unit of a member that stays would move.
LEMMA OthersStay == PassInv => OnlyItsOwnMove
<1> SUFFICES ASSUME PassInv, left = {}, NEW gone \in DOMAIN capOf,
                    NEW rest, rest = [m \in DOMAIN capOf \ {gone} |-> capOf[m]],
                    DOMAIN rest # {},
                    \A m \in DOMAIN rest :
                      /\ boundOf(m, capOf, total(weight), factor) >= total(weight)
                      /\ boundOf(m, rest, total(weight), factor) >= total(weight),
                    NEW k \in DOMAIN weight, placed.owner[k] # gone
             PROVE  place(weight, rest, factor).owner[k] = placed.owner[k]
  BY DEF OnlyItsOwnMove
<1>1. /\ IsUnits(weight) /\ IsList(capOf) /\ factor \in Nat /\ FirstOfOthers
      /\ IsPlacing(placed, DOMAIN placed.owner, weight, capOf)
  BY DEF PassInv, PassTyped
<1>2. DOMAIN rest = But(gone) /\ \A m \in DOMAIN rest : rest[m] = capOf[m]
  BY DEF But
<1>3. k \in DOMAIN placed.owner /\ k \in Keys
  BY <1>1 DEF left, IsUnits
<1>4. placed.owner[k] = First(But(gone), k, capOf)
  <2>1. RoomBut(gone)
    BY <1>2 DEF RoomBut
  <2> QED BY <1>1, <1>3, <2>1 DEF FirstOfOthers
<1>5. IsList(rest)
  BY <1>1, <1>2 DEF IsList, But
<1>6. total(weight) \in Nat
  BY <1>1, TotalIs
<1>7. AllRoomy(weight, rest, factor)
  <2> SUFFICES ASSUME NEW m \in DOMAIN rest
               PROVE  total(weight) <= boundOf(m, rest, total(weight), factor)
    BY DEF AllRoomy
  <2>1. boundOf(m, rest, total(weight), factor) \in Nat
    BY <1>1, <1>5, <1>6, BoundIs
  <2> QED BY <1>6, <2>1
<1>8. place(weight, rest, factor).owner[k] = First(DOMAIN rest, k, rest)
  BY <1>1, <1>5, <1>7, AllOnFirst DEF OnFirst
<1>9. First(DOMAIN rest, k, rest) = First(DOMAIN rest, k, capOf)
  <2>1. DOMAIN rest \subseteq DOMAIN capOf
    BY <1>2 DEF But
  <2> QED BY <1>1, <1>2, <1>3, <1>5, <2>1, FirstOfRest
<1> QED BY <1>2, <1>4, <1>8, <1>9

\* When a member leaves the list and there is room for everything on each of the
\* others, before and after, place puts every unit of theirs where it was, for any
\* units and members, of any weights, capacities and hashes (place and pick).
THEOREM OthersStayAlways == Spec => []OnlyItsOwnMove
<1> QED BY OthersStay, PassInit, PassStep, PTL DEF Spec

=============================================================================
