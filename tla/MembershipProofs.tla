--------------------------- MODULE MembershipProofs ---------------------------
(***************************************************************************)
(* What Membership promises for every number of members, targets, input    *)
(* versions and every setting of the durations.                            *)
(***************************************************************************)
EXTENDS Membership, TLAPS

\* What the types of records, drains and clocks say, without the timer's: the
\* timer is armed from them.
Typed ==
  /\ DOMAIN members \subseteq Members
  /\ members \in [DOMAIN members -> Records]
  /\ proposedAge \in 0 .. Settle
  /\ draining \in [DOMAIN draining -> Nat]
  /\ startAge \in 0 .. StartWait
  /\ heardAge \in 0 .. MaxInterval \cup {NotHeard}
  /\ longestHeard \in 0 .. MaxInterval

LEMMA MaxOfNat ==
  ASSUME NEW a \in Int, NEW b \in Int
  PROVE  /\ MaxOf(a, b) \in Int
         /\ MaxOf(a, b) >= a /\ MaxOf(a, b) >= b
         /\ MaxOf(a, b) \in {a, b}
BY DEF MaxOf

LEMMA MaxOfNear ==
  ASSUME NEW a \in Int, NEW b \in Int, NEW c \in Int, NEW d \in Int,
         a - 1 <= c, b - 1 <= d
  PROVE  /\ MaxOf(a, b) \in Int /\ MaxOf(c, d) \in Int
         /\ MaxOf(a, b) - 1 <= MaxOf(c, d)
BY DEF MaxOf

LEMMA MinusNear ==
  ASSUME NEW a \in Int, NEW x \in Int, NEW y \in Int, y <= x + 1
  PROVE  a - x \in Int /\ a - y \in Int /\ (a - x) - 1 <= a - y
OBVIOUS

LEMMA StartWaitNat == StartWait \in Nat
BY ConstantsAssumption, MaxOfNat DEF StartWait

LEMMA ListType ==
  ASSUME NEW list
  PROVE  list \in MemberLists <=>
           DOMAIN list \subseteq Members /\ list \in [DOMAIN list -> Capacities]
<1>1. ASSUME list \in MemberLists
      PROVE  DOMAIN list \subseteq Members /\ list \in [DOMAIN list -> Capacities]
  BY <1>1 DEF MemberLists
<1>2. ASSUME DOMAIN list \subseteq Members, list \in [DOMAIN list -> Capacities]
      PROVE  list \in MemberLists
  BY <1>2 DEF MemberLists
<1> QED BY <1>1, <1>2

LEMMA LiveListType ==
  ASSUME NEW mem, DOMAIN mem \subseteq Members, mem \in [DOMAIN mem -> Records]
  PROVE  LiveList(mem) \in MemberLists /\ DOMAIN LiveList(mem) \subseteq DOMAIN mem
<1>1. /\ DOMAIN LiveList(mem) = LiveIn(mem)
      /\ LiveIn(mem) \subseteq DOMAIN mem
  BY DEF LiveList, LiveIn
<1>2. LiveList(mem) \in [LiveIn(mem) -> Capacities]
  BY <1>1 DEF LiveList, Records
<1> QED BY <1>1, <1>2, ListType

\* A due instant is never in the past.
LEMMA DuesNat == Typed => Dues \subseteq Nat
<1> SUFFICES ASSUME Typed PROVE Dues \subseteq Nat
  OBVIOUS
<1>1. \A m \in LiveIn(members) : TTL - members[m].age \in Nat
  BY ConstantsAssumption DEF Typed, LiveIn, Live, Records
<1>2. \A key \in DOMAIN draining : draining[key] \in Nat
  BY DEF Typed
<1>3. FirstSettleLeft \in Nat
  <2> DEFINE own   == StartWait - startAge
             heard == IF heardAge = NotHeard THEN 0 ELSE longestHeard - heardAge
  <2>1. own \in Int
    BY StartWaitNat DEF Typed
  <2>2. heard \in Int
    BY ConstantsAssumption DEF Typed, NotHeard
  <2> HIDE DEF own, heard
  <2>3. MaxOf(own, heard) \in Int
    BY <2>1, <2>2, MaxOfNat
  <2>4. MaxOf(0, MaxOf(own, heard)) \in Nat
    BY <2>3, MaxOfNat
  <2> QED BY <2>4 DEF FirstSettleLeft, own, heard
<1>4. MaxOf(Settle - proposedAge, IF settled THEN 0 ELSE FirstSettleLeft) \in Nat
  <2>1. Settle - proposedAge \in Nat
    BY ConstantsAssumption DEF Typed
  <2>2. (IF settled THEN 0 ELSE FirstSettleLeft) \in Nat
    BY <1>3
  <2> QED BY <2>1, <2>2 DEF MaxOf
<1> QED BY <1>1, <1>2, <1>4 DEF Dues

LEMMA TimerType == Typed' /\ schedule => timer' \in Nat \cup {NoTimer}
<1>1. Typed' => (Dues \subseteq Nat)'
  BY DuesNat, PTL
<1> QED BY <1>1 DEF schedule

-----------------------------------------------------------------------------
(* Drains and bundles have their types, whatever list they are made for. *)

LEMMA BeginType ==
  ASSUME NEW v \in Inputs, NEW moved, moved \subseteq TargetsOf(v) \X Members,
         DOMAIN draining \subseteq Targets \X Members,
         draining \in [DOMAIN draining -> Nat]
  PROVE  /\ DOMAIN Begin(moved, v) = DOMAIN draining \cup moved
         /\ DOMAIN Begin(moved, v) \subseteq Targets \X Members
         /\ Begin(moved, v) \in [DOMAIN Begin(moved, v) -> Nat]
         /\ \A key \in DOMAIN Begin(moved, v) :
              /\ key \in moved => Begin(moved, v)[key] > 0
              /\ key \notin moved => Begin(moved, v)[key] = draining[key]
<1>1. \A key \in moved : IntervalOf(v, key[1]) \in Nat \ {0}
  BY PlaceAssumption
<1>2. moved \subseteq Targets \X Members
  BY PlaceAssumption
<1> QED BY <1>1, <1>2 DEF Begin

LEMMA KeepOnlyType ==
  ASSUME NEW drains, NEW keys, drains \in [DOMAIN drains -> Nat]
  PROVE  /\ DOMAIN KeepOnly(drains, keys) = DOMAIN drains \cap keys
         /\ KeepOnly(drains, keys) \in [DOMAIN KeepOnly(drains, keys) -> Nat]
         /\ \A key \in DOMAIN KeepOnly(drains, keys) :
              KeepOnly(drains, keys)[key] = drains[key]
BY DEF KeepOnly

LEMMA BundlesType ==
  ASSUME NEW v \in Inputs, NEW list \in MemberLists, NEW drains
  PROVE  /\ DOMAIN BundlesOf(v, list, drains) = DOMAIN list
         /\ DOMAIN BundlesOf(v, list, drains) \subseteq Members
         /\ BundlesOf(v, list, drains) \in
              [DOMAIN BundlesOf(v, list, drains) -> Bundles]
         /\ bundleOf(v, {}) \in Bundles
<1>1. DOMAIN list \subseteq Members
  BY ListType
<1>2. \A m : ShareOf(v, list, drains, m) \subseteq Targets
  BY PlaceAssumption DEF ShareOf
<1>3. \A share \in SUBSET Targets : bundleOf(v, share) \in Bundles
  BY DEF Bundles
<1> QED BY <1>1, <1>2, <1>3 DEF BundlesOf

\* Taking a list into effect starts drains of its members alone, apart from
\* the owners it gives.
LEMMA TakeEffectDrains ==
  ASSUME TypeOK, NEW list \in MemberLists
  PROVE  /\ DOMAIN takeEffect(list) \subseteq Targets \X Members
         /\ takeEffect(list) \in [DOMAIN takeEffect(list) -> Nat]
         /\ \A key \in DOMAIN takeEffect(list) :
              /\ key[2] \in DOMAIN list
              /\ ~Owns(inputs, list, key[2], key[1])
              /\ key \in DOMAIN draining \/ key[1] \in TargetsOf(inputs)
<1> DEFINE moved == {key \in TargetsOf(inputs) \X DOMAIN list :
                       /\ Owns(inputs, effective, key[2], key[1])
                       /\ ~Owns(inputs, list, key[2], key[1])}
           begun == Begin(moved, inputs)
           kept  == {key \in DOMAIN begun : keeps(list, key)}
<1>1. moved \subseteq TargetsOf(inputs) \X Members
  BY ListType
<1>2. /\ DOMAIN begun = DOMAIN draining \cup moved
      /\ DOMAIN begun \subseteq Targets \X Members
      /\ begun \in [DOMAIN begun -> Nat]
  <2> HIDE DEF moved
  <2> QED BY <1>1, BeginType DEF TypeOK
<1>3. takeEffect(list) = KeepOnly(begun, kept)
  BY DEF takeEffect
<1>4. \A key \in moved : key[1] \in TargetsOf(inputs)
  OBVIOUS
<1> HIDE DEF moved, begun, kept
<1>5. /\ DOMAIN takeEffect(list) = DOMAIN begun \cap kept
      /\ takeEffect(list) \in [DOMAIN takeEffect(list) -> Nat]
  BY <1>2, <1>3, KeepOnlyType
<1> QED BY <1>2, <1>4, <1>5 DEF keeps, kept

-----------------------------------------------------------------------------
(* The inductive invariant. *)

\* There is no list in effect before the first has formed: a reload before it
\* moves nothing.
Formed == ~settled => DOMAIN effective = {}

IInv == TypeOK /\ BundlesCurrent /\ DrainsApart /\ RecordsHeld /\ Formed

LEMMA KeptType ==
  ASSUME NEW mem, DOMAIN mem \subseteq Members, mem \in [DOMAIN mem -> Records]
  PROVE  /\ DOMAIN Kept(mem) \subseteq Members
         /\ Kept(mem) \in [DOMAIN Kept(mem) -> Records]
         /\ DOMAIN LiveList(mem) \subseteq DOMAIN Kept(mem)
         /\ DOMAIN effective \cap DOMAIN mem \subseteq DOMAIN Kept(mem)
BY DEF Kept, LiveList, LiveIn

\* update, of records that include those there were, keeps the invariant.
LEMMA UpdateStep ==
  ASSUME IInv, NEW mem, DOMAIN members \subseteq DOMAIN mem,
         DOMAIN mem \subseteq Members, mem \in [DOMAIN mem -> Records],
         update(mem), UNCHANGED <<inputs, startAge, stopped>>,
         waking' \in BOOLEAN,
         heardAge' \in 0 .. MaxInterval \cup {NotHeard},
         longestHeard' \in 0 .. MaxInterval
  PROVE  IInv'
<1> DEFINE list   == LiveList(mem)
           age    == IF list = proposed THEN proposedAge ELSE 0
           due    == settleDue(list, age)
           eff    == IF due THEN list ELSE effective
           handed == IF due THEN takeEffect(list) ELSE draining
           drains == running(handed)
<1> USE DEF IInv
<1>1. /\ members' = Kept(mem) /\ proposed' = list /\ proposedAge' = age
      /\ effective' = eff /\ settled' = (settled \/ due) /\ draining' = drains
      /\ IF rebuildAfter(due, handed, drains) THEN rebuild(inputs, eff, drains)
                                              ELSE UNCHANGED served
      /\ schedule
  BY DEF update
<1>2. list \in MemberLists /\ DOMAIN list \subseteq DOMAIN mem
  BY LiveListType
<1>3. age \in 0 .. Settle
  BY ConstantsAssumption DEF TypeOK
<1>4. due \in BOOLEAN
  BY DEF settleDue
<1>5. eff \in MemberLists /\ DOMAIN eff \subseteq DOMAIN Kept(mem)
  <2> HIDE DEF list, due
  <2>1. DOMAIN effective \subseteq DOMAIN Kept(mem)
    BY KeptType DEF RecordsHeld
  <2>2. DOMAIN list \subseteq DOMAIN Kept(mem)
    BY KeptType DEF list
  <2> QED BY <1>2, <2>1, <2>2 DEF TypeOK
<1>6. /\ DOMAIN handed \subseteq Targets \X Members
      /\ handed \in [DOMAIN handed -> Nat]
      /\ \A key \in DOMAIN handed :
           /\ key[1] \in TargetsOf(inputs)
           /\ key[2] \in DOMAIN eff
           /\ ~Owns(inputs, eff, key[2], key[1])
  <2> HIDE DEF list, age, due
  <2>1. CASE due
    BY <2>1, <1>2, TakeEffectDrains DEF DrainsApart
  <2>2. CASE ~due
    BY <2>2 DEF TypeOK, DrainsApart
  <2> QED BY <2>1, <2>2
<1> HIDE DEF list, age, due, eff, handed
<1>7. /\ DOMAIN drains \subseteq DOMAIN handed
      /\ drains \in [DOMAIN drains -> Nat]
  BY <1>6, KeepOnlyType DEF running
<1> HIDE DEF drains
<1>8. BundlesCurrent'
  <2>1. CASE rebuildAfter(due, handed, drains)
    BY <2>1, <1>1 DEF rebuild, BundlesCurrent
  <2>2. CASE ~rebuildAfter(due, handed, drains)
    <3>1. eff = effective /\ drains = draining
      BY <2>2 DEF rebuildAfter, eff, handed
    <3>2. UNCHANGED <<bundles, joining>>
      BY <2>2, <1>1 DEF served
    <3> QED BY <3>1, <3>2, <1>1 DEF BundlesCurrent
  <2> QED BY <2>1, <2>2
<1>9. DrainsApart'
  BY <1>1, <1>6, <1>7 DEF DrainsApart
<1>10. RecordsHeld'
  BY <1>1, <1>5, KeptType DEF RecordsHeld, list
<1>11. TypeOK'
  <2>1. DOMAIN members' \subseteq Members /\ members' \in [DOMAIN members' -> Records]
    BY <1>1, KeptType
  <2>2. DOMAIN draining' \subseteq Targets \X Members
        /\ draining' \in [DOMAIN draining' -> Nat]
    BY <1>1, <1>6, <1>7
  <2>3. proposedAge' \in 0 .. Settle
    BY <1>1, <1>3
  <2>4. timer' \in Nat \cup {NoTimer}
    <3>1. Typed'
      BY <2>1, <2>2, <2>3 DEF TypeOK, Typed
    <3> QED BY <3>1, <1>1, TimerType
  <2>5. /\ DOMAIN bundles' \subseteq Members
        /\ bundles' \in [DOMAIN bundles' -> Bundles] /\ joining' \in Bundles
    BY <1>8, <1>1, <1>5, BundlesType DEF BundlesCurrent, TypeOK
  <2>6. watchers' \subseteq Pollers
    BY <1>1 DEF rebuild, served, TypeOK
  <2>7. settled' \in BOOLEAN
    BY <1>1, <1>4 DEF TypeOK
  <2> QED BY <1>1, <1>2, <1>5, <2>1, <2>2, <2>3, <2>4, <2>5, <2>6, <2>7 DEF TypeOK
<1>12. Formed'
  BY <1>1, <1>4 DEF Formed, TypeOK, eff
<1> QED BY <1>8, <1>9, <1>10, <1>11, <1>12

THEOREM InitIInv == Init => IInv
<1> SUFFICES ASSUME Init PROVE IInv
  OBVIOUS
<1> USE DEF Init
<1>1. NoMembers \in MemberLists /\ DOMAIN NoMembers = {}
  BY ListType DEF NoMembers
<1>2. BundlesCurrent
  <2>1. BundlesOf(inputs, effective, draining) = [m \in {} |-> 0]
    BY <1>1 DEF BundlesOf
  <2> QED BY <2>1 DEF BundlesCurrent
<1>3. TypeOK
  <2>1. joining \in Bundles
    <3>1. {} \in SUBSET Targets
      OBVIOUS
    <3> QED BY <3>1 DEF Bundles
  <2>2. startAge \in 0 .. StartWait /\ longestHeard \in 0 .. MaxInterval
    BY StartWaitNat, ConstantsAssumption
  <2>3. /\ DOMAIN members \subseteq Members /\ members \in [DOMAIN members -> Records]
        /\ DOMAIN draining \subseteq Targets \X Members
        /\ draining \in [DOMAIN draining -> Nat]
        /\ DOMAIN bundles \subseteq Members /\ bundles \in [DOMAIN bundles -> Bundles]
    OBVIOUS
  <2>4. proposedAge \in 0 .. Settle
    BY ConstantsAssumption
  <2> QED BY <1>1, <2>1, <2>2, <2>3, <2>4 DEF TypeOK
<1>4. DrainsApart /\ RecordsHeld /\ Formed
  BY <1>1 DEF DrainsApart, RecordsHeld, Formed
<1> QED BY <1>2, <1>3, <1>4 DEF IInv

LEMMA IntervalsBounded == Intervals \subseteq 0 .. MaxInterval
BY ConstantsAssumption

\* What a heartbeat says of intervals has its type.
LEMMA HearType ==
  ASSUME TypeOK, NEW hb \in Heartbeats, hear(hb)
  PROVE  /\ heardAge' \in 0 .. MaxInterval \cup {NotHeard}
         /\ longestHeard' \in 0 .. MaxInterval
<1>1. hb.interval \in 0 .. MaxInterval
  <2>1. hb.interval \in Intervals
    BY DEF Heartbeats
  <2> QED BY <2>1, IntervalsBounded
<1>2. heardAge' \in 0 .. MaxInterval \cup {NotHeard}
  BY ConstantsAssumption DEF hear, TypeOK
<1>3. longestHeard' \in 0 .. MaxInterval
  BY <1>1 DEF hear, TypeOK, MaxOf
<1> QED BY <1>2, <1>3

LEMMA HeartbeatStep ==
  ASSUME IInv, NEW m \in Members, NEW hb \in Heartbeats, Heartbeat(m, hb)
  PROVE  IInv'
<1>1. CASE HeartbeatApplied(m, hb)
  <2> DEFINE mem == [n \in DOMAIN members \cup {m} |->
                       IF n = m THEN Applied(m, hb) ELSE members[n]]
  <2>1. Applied(m, hb) \in Records
    <3>1. 0 \in 0 .. TTL
      BY ConstantsAssumption
    <3>2. m \in DOMAIN members => members[m] \in Records
      BY DEF IInv, TypeOK
    <3> QED BY <3>1, <3>2 DEF Applied, Records, Heartbeats
  <2>2. /\ DOMAIN members \subseteq DOMAIN mem /\ DOMAIN mem \subseteq Members
        /\ mem \in [DOMAIN mem -> Records]
    BY <2>1 DEF IInv, TypeOK
  <2>3. /\ hear(hb) /\ update(mem)
        /\ UNCHANGED <<inputs, startAge, stopped>> /\ waking' \in BOOLEAN
    BY <1>1 DEF HeartbeatApplied, IInv, TypeOK
  <2> HIDE DEF mem
  <2> QED BY <2>2, <2>3, HearType, UpdateStep DEF IInv
<1>2. CASE HeartbeatNotApplied(m, hb)
  <2>1. /\ heardAge' \in 0 .. MaxInterval \cup {NotHeard}
        /\ longestHeard' \in 0 .. MaxInterval
    BY <1>2, HearType DEF HeartbeatNotApplied, IInv
  <2> QED BY <1>2, <2>1 DEF HeartbeatNotApplied, lists, served, IInv, TypeOK,
             BundlesCurrent, DrainsApart, RecordsHeld, Formed
<1> QED BY <1>1, <1>2 DEF Heartbeat

LEMMA ReloadStep ==
  ASSUME IInv, NEW v \in Inputs, Reload(v)
  PROVE  IInv'
<1> DEFINE moved == {key \in (TargetsOf(inputs) \cap TargetsOf(v)) \X Members :
                       /\ settled
                       /\ Owns(inputs, effective, key[2], key[1])
                       /\ ~Owns(v, effective, key[2], key[1])}
           begun == Begin(moved, v)
           keys  == {key \in DOMAIN begun :
                       \E m \in DOMAIN effective \ {key[2]} :
                         Owns(v, effective, m, key[1])}
           kept  == KeepOnly(begun, keys)
<1> USE DEF IInv
<1>1. /\ inputs' = v /\ draining' = kept
      /\ UNCHANGED <<members, proposed, proposedAge, effective, settled>>
      /\ UNCHANGED <<waking, stopped, startAge, hearing>>
      /\ rebuild(v, effective, kept) /\ schedule
  BY DEF Reload
<1>2. \A key \in moved : Owns(inputs, effective, key[2], key[1])
  OBVIOUS
<1>3. moved \subseteq TargetsOf(v) \X Members
  OBVIOUS
<1> HIDE DEF moved
<1>4. /\ DOMAIN begun = DOMAIN draining \cup moved
      /\ DOMAIN begun \subseteq Targets \X Members
      /\ begun \in [DOMAIN begun -> Nat]
  BY <1>3, BeginType DEF TypeOK
<1> HIDE DEF begun
<1>5. /\ DOMAIN kept = DOMAIN begun \cap keys
      /\ kept \in [DOMAIN kept -> Nat]
  <2> HIDE DEF keys
  <2> QED BY <1>4, KeepOnlyType
<1>6. \A key \in DOMAIN begun : key[2] \in DOMAIN effective
  <2>1. \A key \in moved : key[2] \in DOMAIN effective
    BY <1>2, PlaceAssumption DEF Owns, TypeOK
  <2> QED BY <1>4, <2>1 DEF DrainsApart
<1>7. \A key \in DOMAIN kept :
        /\ key[1] \in TargetsOf(v)
        /\ key[2] \in DOMAIN effective
        /\ ~Owns(v, effective, key[2], key[1])
  BY <1>5, <1>6 DEF Owns
<1> HIDE DEF kept, keys
<1>8. DrainsApart'
  BY <1>1, <1>7 DEF DrainsApart
<1>9. RecordsHeld' /\ Formed'
  BY <1>1 DEF RecordsHeld, Formed
<1>10. BundlesCurrent'
  BY <1>1 DEF BundlesCurrent, rebuild
<1>11. TypeOK'
  <2>1. DOMAIN draining' \subseteq Targets \X Members
        /\ draining' \in [DOMAIN draining' -> Nat]
    BY <1>1, <1>4, <1>5
  <2>2. timer' \in Nat \cup {NoTimer}
    <3>1. Typed'
      BY <1>1, <2>1 DEF TypeOK, Typed, hearing
    <3> QED BY <3>1, <1>1, TimerType
  <2>3. /\ DOMAIN bundles' \subseteq Members
        /\ bundles' \in [DOMAIN bundles' -> Bundles] /\ joining' \in Bundles
    BY <1>10, <1>1, BundlesType DEF BundlesCurrent, TypeOK
  <2>4. watchers' \subseteq Pollers
    BY <1>1 DEF rebuild, TypeOK
  <2> QED BY <1>1, <2>1, <2>2, <2>3, <2>4 DEF TypeOK, hearing
<1> QED BY <1>8, <1>9, <1>10, <1>11

LEMMA WakeStep ==
  ASSUME IInv, wake
  PROVE  IInv'
<1>1. CASE stopped
  BY <1>1 DEF wake, lists, served, hearing, IInv, TypeOK, BundlesCurrent,
              DrainsApart, RecordsHeld, Formed
<1>2. CASE ~stopped
  <2>1. /\ update(members) /\ UNCHANGED <<inputs, startAge, stopped>>
        /\ waking' \in BOOLEAN
        /\ heardAge' \in 0 .. MaxInterval \cup {NotHeard}
        /\ longestHeard' \in 0 .. MaxInterval
    BY <1>2 DEF wake, hearing, IInv, TypeOK
  <2>2. DOMAIN members \subseteq Members /\ members \in [DOMAIN members -> Records]
    BY DEF IInv, TypeOK
  <2> QED BY <2>1, <2>2, UpdateStep
<1> QED BY <1>1, <1>2

LEMMA OlderType ==
  ASSUME NEW limit \in Nat, NEW age \in 0 .. limit
  PROVE  Older(age, limit) \in 0 .. limit
BY DEF Older

LEMMA TickStep ==
  ASSUME IInv, Tick
  PROVE  IInv'
<1> USE DEF IInv
<1>1. DOMAIN members' = DOMAIN members /\ DOMAIN draining' = DOMAIN draining
  BY DEF Tick
<1>2. /\ UNCHANGED <<proposed, effective, settled, inputs, waking, stopped>>
      /\ UNCHANGED <<bundles, joining, watchers, longestHeard>>
  BY DEF Tick, served
<1>3. members' \in [DOMAIN members -> Records]
  <2>1. \A m \in DOMAIN members :
          [members[m] EXCEPT !.age = Older(@, TTL)] \in Records
    <3> SUFFICES ASSUME NEW m \in DOMAIN members
                 PROVE  [members[m] EXCEPT !.age = Older(@, TTL)] \in Records
      OBVIOUS
    <3>1. members[m] \in Records
      BY DEF TypeOK
    <3>2. Older(members[m].age, TTL) \in 0 .. TTL
      BY <3>1, OlderType, ConstantsAssumption DEF Records
    <3> QED BY <3>1, <3>2 DEF Records
  <2> QED BY <2>1 DEF Tick
<1>4. proposedAge' \in 0 .. Settle
  BY OlderType, ConstantsAssumption DEF Tick, TypeOK
<1>5. draining' \in [DOMAIN draining -> Nat] /\ timer' \in Nat \cup {NoTimer}
  BY DEF Tick, TypeOK, Nearer, NoTimer
<1>6. startAge' \in 0 .. StartWait
  BY OlderType, StartWaitNat DEF Tick, TypeOK
<1>7. heardAge' \in 0 .. MaxInterval \cup {NotHeard}
  <2>1. heardAge # NotHeard => Older(heardAge, MaxInterval) \in 0 .. MaxInterval
    BY OlderType, ConstantsAssumption DEF TypeOK
  <2> QED BY <2>1 DEF Tick, TypeOK
<1>8. BundlesCurrent'
  BY <1>1, <1>2 DEF BundlesCurrent, BundlesOf, ShareOf
<1>9. DrainsApart' /\ RecordsHeld' /\ Formed'
  BY <1>1, <1>2 DEF DrainsApart, RecordsHeld, Formed
<1>10. TypeOK'
  BY <1>1, <1>2, <1>3, <1>4, <1>5, <1>6, <1>7 DEF TypeOK
<1> QED BY <1>8, <1>9, <1>10

LEMMA OtherSteps ==
  ASSUME IInv,
         \/ \E p \in Pollers : changes(p) \/ Leave(p)
         \/ FireTimer
         \/ BeginShutdown
         \/ UNCHANGED vars
  PROVE  IInv'
<1> USE DEF IInv, TypeOK, BundlesCurrent, DrainsApart, RecordsHeld, Formed, lists,
            served, hearing
<1>1. CASE \E p \in Pollers : changes(p) \/ Leave(p)
  BY <1>1 DEF changes, Leave
<1>2. CASE FireTimer
  BY <1>2 DEF FireTimer
<1>3. CASE BeginShutdown
  BY <1>3 DEF BeginShutdown
<1>4. CASE UNCHANGED vars
  BY <1>4 DEF vars
<1> QED BY <1>1, <1>2, <1>3, <1>4

\* The invariant holds of every step, of which those that rebuild nothing keep
\* the bundles current because they change nothing the bundles are made of.
THEOREM NextIInv == IInv /\ [Next]_vars => IInv'
<1> SUFFICES ASSUME IInv, [Next]_vars PROVE IInv'
  OBVIOUS
<1>1. CASE \E m \in Members, hb \in Heartbeats : Heartbeat(m, hb)
  BY <1>1, HeartbeatStep
<1>2. CASE \E v \in Inputs : Reload(v)
  BY <1>2, ReloadStep
<1>3. CASE wake
  BY <1>3, WakeStep
<1>4. CASE Tick
  BY <1>4, TickStep
<1>5. CASE \/ \E p \in Pollers : changes(p) \/ Leave(p)
           \/ FireTimer
           \/ BeginShutdown
           \/ UNCHANGED vars
  BY <1>5, OtherSteps
<1> QED BY <1>1, <1>2, <1>3, <1>4, <1>5 DEF Next

THEOREM Invariance == Spec => []IInv
BY InitIInv, NextIInv, PTL DEF Spec

\* Every variable keeps its type.
THEOREM TypeCorrect == Spec => []TypeOK
<1>1. IInv => TypeOK
  BY DEF IInv
<1> QED BY <1>1, Invariance, PTL

\* The bundles served are always those of what is in force.
THEOREM BundlesStayCurrent == Spec => []BundlesCurrent
<1>1. IInv => BundlesCurrent
  BY DEF IInv
<1> QED BY <1>1, Invariance, PTL

\* No target is drained by its owner, by a member that has left the list, or
\* once it is gone.
THEOREM DrainsStayApart == Spec => []DrainsApart
<1>1. IInv => DrainsApart
  BY DEF IInv
<1> QED BY <1>1, Invariance, PTL

\* The allocator has a record of every member of its lists.
THEOREM RecordsStayHeld == Spec => []RecordsHeld
<1>1. IInv => RecordsHeld
  BY DEF IInv
<1> QED BY <1>1, Invariance, PTL

-----------------------------------------------------------------------------
(* No wake is lost. *)

LEMMA IInvTyped == IInv => Typed
BY DEF IInv, TypeOK, Typed

LEMMA ScheduleArms ==
  ASSUME Typed', schedule
  PROVE  WakeArmed'
<1>1. Dues' \subseteq Nat
  <2>1. Typed' => (Dues \subseteq Nat)'
    BY DuesNat, PTL
  <2> QED BY <2>1
<1> QED BY <1>1 DEF schedule, WakeArmed, NoTimer

\* As time passes the timer comes no nearer than what it is armed for.
LEMMA TickArmed ==
  ASSUME IInv, WakeArmed, Tick
  PROVE  WakeArmed'
<1>1. UNCHANGED <<stopped, waking, proposed, effective, settled, longestHeard>>
  BY DEF Tick
<1> SUFFICES ASSUME ~stopped, ~waking, NEW due \in Dues'
             PROVE  timer' # NoTimer /\ timer' <= due
  BY <1>1 DEF WakeArmed
<1>2. Dues' \subseteq Nat
  <2>1. Typed' => (Dues \subseteq Nat)'
    BY DuesNat, PTL
  <2>2. Typed'
    BY TickStep DEF IInv, TypeOK, Typed
  <2> QED BY <2>1, <2>2
<1>3. due \in Nat
  BY <1>2
<1>4. \A d \in Dues : timer \in Nat /\ timer <= d
  BY DEF WakeArmed, IInv, TypeOK, NoTimer
<1>5. timer' = Nearer(timer)
  BY DEF Tick
\* Any deadline is one that was a unit away at most further.
<1>6. \E d \in Dues : d \in Nat /\ d - 1 <= due
  <2>0. Dues \subseteq Nat
    BY DuesNat, IInvTyped
  <2>1. CASE \E m \in LiveIn(members)' : due = TTL - members'[m].age
    <3>1. PICK m \in LiveIn(members)' : due = TTL - members'[m].age
      BY <2>1
    <3>2. /\ m \in DOMAIN members
          /\ members'[m] = [members[m] EXCEPT !.age = Older(@, TTL)]
          /\ members[m] \in Records
      BY <3>1 DEF LiveIn, Tick, IInv, TypeOK
    <3>3. /\ members[m].age \in 0 .. TTL
          /\ members'[m].age = Older(members[m].age, TTL)
          /\ members'[m].shuttingDown = members[m].shuttingDown
      BY <3>2 DEF Records
    <3>4. ~members'[m].shuttingDown /\ members'[m].age < TTL
      BY <3>1 DEF LiveIn, Live
    <3>5. m \in LiveIn(members)
      BY <3>2, <3>3, <3>4, ConstantsAssumption DEF LiveIn, Live, Older
    <3>6. TTL - members[m].age \in Dues
      BY <3>5 DEF Dues
    <3>7. TTL - members[m].age - 1 <= due
      BY <3>1, <3>3, ConstantsAssumption DEF Older
    <3> QED BY <2>0, <3>6, <3>7
  <2>2. CASE \E key \in DOMAIN draining' : due = draining'[key]
    <3>1. PICK key \in DOMAIN draining' : due = draining'[key]
      BY <2>2
    <3>2. key \in DOMAIN draining /\ due = Nearer(draining[key])
      BY <3>1 DEF Tick
    <3>3. draining[key] \in Dues /\ draining[key] \in Nat
      BY <3>2 DEF Dues, IInv, TypeOK
    <3> QED BY <3>2, <3>3 DEF Nearer
  <2>3. CASE /\ ListPending'
             /\ due = MaxOf(Settle - proposedAge',
                            IF settled' THEN 0 ELSE FirstSettleLeft')
    <3> DEFINE d == MaxOf(Settle - proposedAge,
                          IF settled THEN 0 ELSE FirstSettleLeft)
    <3>1. d \in Dues
      BY <2>3, <1>1 DEF Dues, ListPending
    <3>2. /\ proposedAge \in Int /\ proposedAge' \in Int
          /\ proposedAge' <= proposedAge + 1
      BY ConstantsAssumption DEF Tick, Older, IInv, TypeOK
    <3>3. /\ ~settled => FirstSettleLeft \in Int /\ FirstSettleLeft' \in Int
          /\ ~settled => FirstSettleLeft - 1 <= FirstSettleLeft'
      <4> SUFFICES ASSUME ~settled
                   PROVE  /\ FirstSettleLeft \in Int /\ FirstSettleLeft' \in Int
                          /\ FirstSettleLeft - 1 <= FirstSettleLeft'
        OBVIOUS
      <4>1. /\ startAge \in Int /\ startAge' \in Int /\ startAge' <= startAge + 1
        BY StartWaitNat DEF Tick, Older, IInv, TypeOK
      <4>2. /\ heardAge \in Int /\ heardAge' \in Int /\ heardAge' <= heardAge + 1
            /\ heardAge' = NotHeard <=> heardAge = NotHeard
        BY ConstantsAssumption DEF Tick, Older, IInv, TypeOK, NotHeard
      <4>3. longestHeard \in Int /\ longestHeard' = longestHeard
        BY ConstantsAssumption, <1>1 DEF IInv, TypeOK
      <4> DEFINE own   == StartWait - startAge
                 heard == IF heardAge = NotHeard THEN 0 ELSE longestHeard - heardAge
                 own1   == StartWait - startAge'
                 heard1 == IF heardAge' = NotHeard THEN 0
                                                   ELSE longestHeard' - heardAge'
      <4>4. own \in Int /\ own1 \in Int /\ own - 1 <= own1
        <5>1. StartWait \in Int
          BY StartWaitNat
        <5> QED BY <4>1, <5>1, MinusNear
      <4>5. heard \in Int /\ heard1 \in Int /\ heard - 1 <= heard1
        <5>1. CASE heardAge = NotHeard
          BY <5>1, <4>2
        <5>2. CASE heardAge # NotHeard
          <6>1. heard = longestHeard - heardAge /\ heard1 = longestHeard - heardAge'
            BY <5>2, <4>2, <4>3
          <6> HIDE DEF heard, heard1
          <6> QED BY <6>1, <4>2, <4>3, MinusNear
        <5> QED BY <5>1, <5>2
      <4>6. FirstSettleLeft = MaxOf(0, MaxOf(own, heard))
        BY DEF FirstSettleLeft
      <4>7. FirstSettleLeft' = MaxOf(0, MaxOf(own1, heard1))
        BY DEF FirstSettleLeft, StartWait
      <4> HIDE DEF own, heard, own1, heard1
      <4>8. /\ MaxOf(own, heard) \in Int /\ MaxOf(own1, heard1) \in Int
            /\ MaxOf(own, heard) - 1 <= MaxOf(own1, heard1)
        BY <4>4, <4>5, MaxOfNear
      <4>9. 0 \in Int /\ 0 - 1 <= 0
        OBVIOUS
      <4> QED BY <4>6, <4>7, <4>8, <4>9, MaxOfNear
    <3>4. d - 1 <= due
      <4> DEFINE a == Settle - proposedAge
                 b == IF settled THEN 0 ELSE FirstSettleLeft
                 a1 == Settle - proposedAge'
                 b1 == IF settled' THEN 0 ELSE FirstSettleLeft'
      <4>1. a \in Int /\ a1 \in Int /\ a - 1 <= a1
        <5>1. Settle \in Int
          BY ConstantsAssumption
        <5> QED BY <3>2, <5>1, MinusNear
      <4>2. b \in Int /\ b1 \in Int /\ b - 1 <= b1
        BY <3>3, <1>1
      <4>3. d = MaxOf(a, b) /\ due = MaxOf(a1, b1)
        BY <2>3
      <4> HIDE DEF a, b, a1, b1, d
      <4> QED BY <4>1, <4>2, <4>3, MaxOfNear
    <3> HIDE DEF d
    <3> QED BY <2>0, <3>1, <3>4
  <2> QED BY <2>1, <2>2, <2>3 DEF Dues
<1> QED BY <1>3, <1>4, <1>5, <1>6 DEF Nearer, NoTimer

\* Hearing of a longer interval, or for the first time, puts the first list off.
LEMMA NotAppliedArmed ==
  ASSUME IInv, WakeArmed, NEW m \in Members, NEW hb \in Heartbeats,
         HeartbeatNotApplied(m, hb)
  PROVE  WakeArmed'
<1>1. /\ UNCHANGED <<members, proposed, proposedAge, effective, settled>>
      /\ UNCHANGED <<draining, timer, waking, stopped, startAge>>
      /\ hear(hb)
  BY DEF HeartbeatNotApplied, lists
<1> SUFFICES ASSUME ~stopped, ~waking, NEW due \in Dues'
             PROVE  timer # NoTimer /\ timer <= due
  BY <1>1 DEF WakeArmed
<1>2. \A d \in Dues : timer # NoTimer /\ timer <= d
  BY DEF WakeArmed
<1>3. CASE due \in Dues
  BY <1>2, <1>3
<1>4. CASE due \notin Dues
  <2>1. /\ ListPending /\ ~settled
        /\ due = MaxOf(Settle - proposedAge, FirstSettleLeft')
    BY <1>1, <1>4 DEF Dues, ListPending, LiveIn, hear
  <2>2. MaxOf(Settle - proposedAge, FirstSettleLeft) \in Dues
    BY <2>1 DEF Dues
  <2>3. FirstSettleLeft \in Int /\ FirstSettleLeft' \in Int
        /\ FirstSettleLeft <= FirstSettleLeft'
    <3> DEFINE own    == StartWait - startAge
               heard  == IF heardAge = NotHeard THEN 0 ELSE longestHeard - heardAge
               heard1 == IF heardAge' = NotHeard THEN 0
                                                 ELSE longestHeard' - heardAge'
    <3>1. own \in Int
      BY StartWaitNat DEF IInv, TypeOK
    <3>2. heard \in Int /\ heard1 \in Int /\ heard <= heard1
      <4>1. hb.interval \in Int
        <5>1. hb.interval \in Intervals
          BY DEF Heartbeats
        <5>2. hb.interval \in 0 .. MaxInterval
          BY <5>1, IntervalsBounded
        <5> QED BY <5>2
      <4>2. /\ longestHeard \in Nat /\ longestHeard' \in Nat
            /\ longestHeard <= longestHeard'
        <5>1. longestHeard \in Nat
          BY ConstantsAssumption DEF IInv, TypeOK
        <5>2. longestHeard' = MaxOf(longestHeard, hb.interval)
          BY <1>1, <2>1 DEF hear
        <5> QED BY <4>1, <5>1, <5>2 DEF MaxOf
      <4>3. CASE heardAge = NotHeard
        BY <4>2, <4>3, <1>1, <2>1 DEF hear, NotHeard
      <4>4. CASE heardAge # NotHeard
        <5>1. heardAge' = heardAge /\ heardAge \in Int
          BY <4>4, <1>1, <2>1, ConstantsAssumption DEF hear, IInv, TypeOK
        <5>2. heard = longestHeard - heardAge
          BY <4>4
        <5>3. heard1 = longestHeard' - heardAge
          BY <4>4, <5>1
        <5> HIDE DEF heard, heard1
        <5>4. \A a, b, c \in Int : b <= c => /\ b - a \in Int /\ c - a \in Int
                                            /\ b - a <= c - a
          OBVIOUS
        <5>5. longestHeard \in Int /\ longestHeard' \in Int
          BY <4>2
        <5> QED BY ONLY <5>1, <5>2, <5>3, <5>4, <5>5, <4>2
      <4> QED BY <4>3, <4>4
    <3>3. FirstSettleLeft = MaxOf(0, MaxOf(own, heard))
      BY DEF FirstSettleLeft
    <3>4. FirstSettleLeft' = MaxOf(0, MaxOf(own, heard1))
      BY <1>1 DEF FirstSettleLeft, StartWait
    <3> HIDE DEF own, heard, heard1
    <3> QED BY <3>1, <3>2, <3>3, <3>4 DEF MaxOf
  <2>4. Settle - proposedAge \in Int
    BY ConstantsAssumption DEF IInv, TypeOK
  <2>5. MaxOf(Settle - proposedAge, FirstSettleLeft) <= due
    BY <2>1, <2>3, <2>4 DEF MaxOf
  <2>6. /\ timer # NoTimer /\ timer \in Int
        /\ timer <= MaxOf(Settle - proposedAge, FirstSettleLeft)
    BY <1>2, <2>2 DEF IInv, TypeOK, NoTimer
  <2>7. MaxOf(Settle - proposedAge, FirstSettleLeft) \in Int /\ due \in Int
    BY <2>1, <2>3, <2>4 DEF MaxOf
  <2> QED BY <2>5, <2>6, <2>7
<1> QED BY <1>3, <1>4

\* Every operation that changes what there is to wake for arms the timer
\* again, and what it forgets to bring up to the clock it still wakes for.
THEOREM NextArmed == IInv /\ WakeArmed /\ [Next]_vars => WakeArmed'
<1> SUFFICES ASSUME IInv, WakeArmed, [Next]_vars PROVE WakeArmed'
  OBVIOUS
<1>0. Typed'
  BY NextIInv DEF IInv, TypeOK, Typed
<1>1. CASE schedule
  BY <1>0, <1>1, ScheduleArms
<1>2. CASE \E m \in Members, hb \in Heartbeats : Heartbeat(m, hb)
  <2>1. PICK m \in Members, hb \in Heartbeats : Heartbeat(m, hb)
    BY <1>2
  <2>2. CASE HeartbeatApplied(m, hb)
    BY <2>2, <1>1 DEF HeartbeatApplied, update
  <2>3. CASE HeartbeatNotApplied(m, hb)
    BY <2>3, NotAppliedArmed
  <2> QED BY <2>1, <2>2, <2>3 DEF Heartbeat
<1>3. CASE \E v \in Inputs : Reload(v)
  BY <1>3, <1>1 DEF Reload
<1>4. CASE wake
  <2>1. CASE stopped
    BY <2>1, <1>4 DEF wake, WakeArmed
  <2>2. CASE ~stopped
    BY <2>2, <1>4, <1>1 DEF wake, update
  <2> QED BY <2>1, <2>2
<1>5. CASE FireTimer \/ BeginShutdown
  BY <1>5 DEF FireTimer, BeginShutdown, WakeArmed
<1>6. CASE Tick
  BY <1>6, TickArmed
<1>7. CASE (\E p \in Pollers : changes(p) \/ Leave(p)) \/ UNCHANGED vars
  <2>1. /\ UNCHANGED <<members, proposed, proposedAge, effective, settled>>
        /\ UNCHANGED <<draining, timer, waking, stopped, startAge>>
        /\ UNCHANGED <<heardAge, longestHeard>>
    BY <1>7 DEF changes, Leave, vars, lists, hearing
  <2>2. Dues' = Dues
    BY <2>1 DEF Dues, LiveIn, ListPending, FirstSettleLeft, StartWait
  <2> QED BY <2>1, <2>2 DEF WakeArmed
<1> QED BY <1>2, <1>3, <1>4, <1>5, <1>6, <1>7 DEF Next

\* No wake is lost, whatever order heartbeats, reloads, late timers and the
\* goroutines they start come in.
THEOREM WakeStaysArmed == Spec => []WakeArmed
<1>1. Init => WakeArmed
  <2> SUFFICES ASSUME Init PROVE Dues = {}
    BY DEF WakeArmed
  <2> QED BY DEF Init, Dues, LiveIn, ListPending
<1> QED BY <1>1, NextArmed, Invariance, PTL DEF Spec

-----------------------------------------------------------------------------
(* What a step never does. *)

\* What update does to the lists and the drains.
LEMMA UpdateLists ==
  ASSUME IInv, NEW mem, update(mem)
  PROVE  /\ \/ UNCHANGED effective /\ draining' = running(draining)
            \/ /\ effective' = LiveList(mem)
               /\ proposed' = proposed \/ proposedAge' = 0
               /\ proposed' = proposed => proposedAge >= Settle
               /\ proposed' # proposed => 0 >= Settle
               /\ draining' = running(takeEffect(LiveList(mem)))
         /\ proposed' = LiveList(mem)
BY DEF update, settleDue

\* The list changes only to one that held for the settle time.
THEOREM ListHeldBeforeEffect == Spec => HeldBeforeEffect
<1>1. ASSUME IInv, [Next]_vars
      PROVE  effective' # effective =>
               /\ effective' = proposed'
               /\ Settle > 0 => proposed' = proposed /\ proposedAge >= Settle
  <2> SUFFICES ASSUME effective' # effective
               PROVE  /\ effective' = proposed'
                      /\ Settle > 0 => proposed' = proposed /\ proposedAge >= Settle
    OBVIOUS
  <2>1. \E mem : update(mem)
    BY <1>1 DEF Next, Heartbeat, HeartbeatApplied, HeartbeatNotApplied, Reload,
       changes, Leave, FireTimer, wake, BeginShutdown, Tick, lists, vars
  <2> QED BY <1>1, <2>1, UpdateLists, ConstantsAssumption
<1> QED BY <1>1, Invariance, PTL DEF Spec, HeldBeforeEffect

\* A step in which every member that stays in the list keeps its targets, but
\* for those gone and those whose drain has run out.
Kind(m, t) ==
  \/ t \notin ShareOf(inputs, effective, draining, m)
  \/ t \in ShareOf(inputs, effective, draining, m)'
  \/ t \notin TargetsOf(inputs')
  \/ <<t, m>> \in DOMAIN draining /\ draining[<<t, m>>] = 0

LEMMA UpdateNoGap ==
  ASSUME IInv, NEW mem, update(mem), UNCHANGED inputs,
         DOMAIN mem \subseteq Members, mem \in [DOMAIN mem -> Records],
         NEW m \in DOMAIN effective', NEW t
  PROVE  Kind(m, t)
<1> DEFINE key == <<t, m>>
<1> USE DEF IInv
<1> SUFFICES ASSUME t \in ShareOf(inputs, effective, draining, m),
                    key \notin DOMAIN draining \/ draining[key] # 0,
                    ~Owns(inputs, effective', m, t)
             PROVE  key \in DOMAIN draining'
  BY DEF Kind, ShareOf
<1>1. t \in TargetsOf(inputs)
  BY DEF ShareOf
<1>2. key \in DOMAIN draining => draining[key] > 0
  BY DEF TypeOK
<1>3. CASE UNCHANGED effective /\ draining' = running(draining)
  <2>1. key \in DOMAIN draining
    BY <1>3 DEF ShareOf
  <2> QED BY <1>2, <1>3, <2>1 DEF running, KeepOnly
<1>4. CASE /\ effective' = LiveList(mem)
           /\ draining' = running(takeEffect(LiveList(mem)))
  <2> DEFINE list  == LiveList(mem)
             moved == {k \in TargetsOf(inputs) \X DOMAIN list :
                         /\ Owns(inputs, effective, k[2], k[1])
                         /\ ~Owns(inputs, list, k[2], k[1])}
             begun == Begin(moved, inputs)
  <2>0. list \in MemberLists
    BY LiveListType
  <2>1. m \in DOMAIN list /\ ~Owns(inputs, list, m, t)
    BY <1>4
  <2>2. key \in DOMAIN draining \/ key \in moved
    BY <1>1, <2>1 DEF ShareOf
  <2>3. moved \subseteq TargetsOf(inputs) \X Members
    BY <2>0, ListType
  <2>4. takeEffect(list) = KeepOnly(begun, {k \in DOMAIN begun : keeps(list, k)})
    BY DEF takeEffect
  <2> HIDE DEF list, moved
  <2>5. key \in DOMAIN begun /\ begun[key] > 0
    BY <1>2, <2>2, <2>3, BeginType DEF TypeOK
  <2> HIDE DEF begun
  <2>6. keeps(list, key)
    BY <2>1 DEF keeps
  <2>7. key \in DOMAIN takeEffect(list) /\ takeEffect(list)[key] > 0
    BY <2>4, <2>5, <2>6 DEF KeepOnly
  <2>8. draining' = running(takeEffect(list))
    BY <1>4 DEF list
  <2> QED BY <2>7, <2>8 DEF running, KeepOnly
<1> QED BY <1>3, <1>4, UpdateLists

LEMMA ReloadNoGap ==
  ASSUME IInv, NEW v \in Inputs, Reload(v), NEW m \in DOMAIN effective', NEW t
  PROVE  Kind(m, t)
<1> DEFINE key   == <<t, m>>
           moved == {k \in (TargetsOf(inputs) \cap TargetsOf(v)) \X Members :
                       /\ settled
                       /\ Owns(inputs, effective, k[2], k[1])
                       /\ ~Owns(v, effective, k[2], k[1])}
           begun == Begin(moved, v)
<1> USE DEF IInv
<1>1. /\ inputs' = v /\ effective' = effective
      /\ draining' = KeepOnly(begun, {k \in DOMAIN begun :
                       \E n \in DOMAIN effective \ {k[2]} : Owns(v, effective, n, k[1])})
  BY DEF Reload
<1> SUFFICES ASSUME t \in ShareOf(inputs, effective, draining, m),
                    t \in TargetsOf(v), ~Owns(v, effective, m, t)
             PROVE  key \in DOMAIN draining'
  BY <1>1 DEF Kind, ShareOf
<1>2. m \in DOMAIN effective /\ m \in Members /\ settled
  BY <1>1, ListType DEF TypeOK, Formed
<1>3. key \in DOMAIN draining \/ key \in moved
  BY <1>2 DEF ShareOf
<1>4. key \in DOMAIN begun
  BY <1>3 DEF Begin
<1>5. \E n \in DOMAIN effective \ {m} : Owns(v, effective, n, t)
  BY <1>2, PlaceAssumption DEF Owns, TypeOK
<1> HIDE DEF begun
<1> QED BY <1>1, <1>4, <1>5 DEF KeepOnly

\* A target that moves has no gap on any member that stays in the list.
THEOREM NoTargetHasAGap == Spec => NoGap
<1>1. ASSUME IInv, [Next]_vars, NEW m \in DOMAIN effective', NEW t
      PROVE  Kind(m, t)
  <2> USE <1>1
  <2>1. CASE \E n \in Members, hb \in Heartbeats : HeartbeatApplied(n, hb)
    <3>1. PICK n \in Members, hb \in Heartbeats : HeartbeatApplied(n, hb)
      BY <2>1
    <3> DEFINE mem == [o \in DOMAIN members \cup {n} |->
                         IF o = n THEN Applied(n, hb) ELSE members[o]]
    <3>2. Applied(n, hb) \in Records
      <4>1. 0 \in 0 .. TTL
        BY ConstantsAssumption
      <4>2. n \in DOMAIN members => members[n] \in Records
        BY DEF IInv, TypeOK
      <4> QED BY <4>1, <4>2 DEF Applied, Records, Heartbeats
    <3>3. DOMAIN mem \subseteq Members /\ mem \in [DOMAIN mem -> Records]
      BY <3>2 DEF IInv, TypeOK
    <3>4. update(mem) /\ UNCHANGED inputs
      BY <3>1 DEF HeartbeatApplied
    <3> HIDE DEF mem
    <3> QED BY <3>3, <3>4, UpdateNoGap
  <2>2. CASE wake /\ ~stopped
    BY <2>2, UpdateNoGap DEF wake, IInv, TypeOK
  <2>3. CASE \E v \in Inputs : Reload(v)
    BY <2>3, ReloadNoGap
  <2>4. CASE UNCHANGED <<effective, inputs>> /\ DOMAIN draining' = DOMAIN draining
    BY <2>4 DEF Kind, ShareOf
  <2> QED
    BY <1>1, <2>1, <2>2, <2>3, <2>4 DEF Next, Heartbeat, HeartbeatNotApplied,
       changes, Leave, FireTimer, wake, BeginShutdown, Tick, lists, vars
<1>2. ASSUME IInv, [Next]_vars
      PROVE  \A m \in DOMAIN effective' :
               \A t \in ShareOf(inputs, effective, draining, m)
                          \ ShareOf(inputs, effective, draining, m)' :
                 \/ t \notin TargetsOf(inputs')
                 \/ /\ <<t, m>> \in DOMAIN draining
                    /\ draining[<<t, m>>] = 0
  BY <1>1, <1>2 DEF Kind
<1> QED BY <1>2, Invariance, PTL DEF Spec, NoGap

-----------------------------------------------------------------------------
(* The proposed list. *)

\* The records that update keeps are those of every live member.
LEMMA UpdateProposes == ASSUME NEW mem, update(mem) PROVE proposed' = LiveList(members')
<1>1. members' = Kept(mem) /\ proposed' = LiveList(mem)
  BY DEF update
<1>2. LiveIn(Kept(mem)) = LiveIn(mem) /\ \A m \in LiveIn(mem) : Kept(mem)[m] = mem[m]
  BY DEF LiveIn, Kept
<1> QED BY <1>1, <1>2 DEF LiveList

\* Nobody's record is too old before the timer is due.
LEMMA TickProposes ==
  ASSUME IInv, WakeArmed, ProposedCurrent, Tick
  PROVE  ProposedCurrent'
<1> SUFFICES ASSUME ~stopped, ~waking, timer' # 0 PROVE proposed' = LiveList(members')
  BY DEF ProposedCurrent, Tick
<1>1. /\ timer' = Nearer(timer) /\ timer \in Nat \cup {NoTimer} /\ proposed' = proposed
      /\ members' = [m \in DOMAIN members |-> [members[m] EXCEPT !.age = Older(@, TTL)]]
      /\ members \in [DOMAIN members -> Records] /\ TTL \in Nat
  BY ConstantsAssumption DEF Tick, IInv, TypeOK
<1>2. timer # 0 /\ timer # 1 /\ proposed = LiveList(members)
  BY <1>1 DEF Nearer, NoTimer, ProposedCurrent
<1>3. ASSUME NEW m \in DOMAIN members
      PROVE  /\ members'[m].capacity = members[m].capacity
             /\ Live(members'[m]) <=> Live(members[m])
  <2>1. members[m] \in Records
    BY <1>1
  <2>2. /\ members'[m].capacity = members[m].capacity
        /\ members'[m].shuttingDown = members[m].shuttingDown
        /\ members'[m].age = Older(members[m].age, TTL)
    BY <1>1, <2>1 DEF Records
  <2>3. members[m].age \in 0 .. TTL
    BY <2>1 DEF Records
  <2>4. Live(members[m]) => TTL - members[m].age >= 2
    <3> SUFFICES ASSUME Live(members[m]) PROVE TTL - members[m].age >= 2
      OBVIOUS
    <3>1. TTL - members[m].age \in Dues
      BY DEF Dues, LiveIn
    <3>2. timer # NoTimer /\ timer <= TTL - members[m].age
      BY <3>1 DEF WakeArmed
    <3>3. timer \in Nat /\ timer # 0 /\ timer # 1 /\ TTL \in Nat
      BY <1>1, <1>2, <3>2
    <3> QED BY <2>3, <3>2, <3>3
  <2> QED BY <1>1, <2>2, <2>3, <2>4 DEF Live, Older
<1>4. DOMAIN members' = DOMAIN members
  BY <1>1
<1>5. LiveIn(members') = LiveIn(members)
  BY <1>3, <1>4 DEF LiveIn
<1>6. \A m \in LiveIn(members) : m \in DOMAIN members
  BY DEF LiveIn
<1> QED BY <1>1, <1>2, <1>3, <1>5, <1>6 DEF LiveList

\* While the inputs stay as they are, the proposed list is that of the live
\* members but for the time the timer takes: update comes after every other
\* event, and in time for each member's TTL (Allocator.update and schedule).
THEOREM ProposedStaysCurrent == Spec /\ [][UNCHANGED inputs]_vars => []ProposedCurrent
<1>1. Init => ProposedCurrent
  <2> SUFFICES ASSUME Init PROVE proposed = LiveList(members)
    BY DEF ProposedCurrent
  <2>1. LiveIn(members) = {}
    BY DEF Init, LiveIn
  <2> QED BY <2>1 DEF Init, NoMembers, LiveList
<1>2. IInv /\ WakeArmed /\ ProposedCurrent /\ [Next]_vars /\ [UNCHANGED inputs]_vars
        => ProposedCurrent'
  <2> SUFFICES ASSUME IInv, WakeArmed, ProposedCurrent, [Next]_vars, UNCHANGED inputs
               PROVE  ProposedCurrent'
    BY DEF vars
  <2>1. ASSUME NEW m \in Members, NEW hb \in Heartbeats, Heartbeat(m, hb) PROVE ProposedCurrent'
    <3>1. ASSUME HeartbeatApplied(m, hb) PROVE ProposedCurrent'
      BY <3>1, UpdateProposes DEF HeartbeatApplied, ProposedCurrent
    <3>2. ASSUME HeartbeatNotApplied(m, hb) PROVE ProposedCurrent'
      BY <3>2 DEF HeartbeatNotApplied, ProposedCurrent, LiveList, LiveIn, lists
    <3> QED BY <2>1, <3>1, <3>2 DEF Heartbeat
  <2>2. ASSUME NEW v \in Inputs, Reload(v) PROVE FALSE
    BY <2>2 DEF Reload
  <2>3. ASSUME NEW p \in Pollers, changes(p) \/ Leave(p) PROVE ProposedCurrent'
    BY <2>3 DEF changes, Leave, ProposedCurrent, LiveList, LiveIn, lists
  <2>4. ASSUME FireTimer \/ BeginShutdown PROVE ProposedCurrent'
    BY <2>4 DEF FireTimer, BeginShutdown, ProposedCurrent
  <2>5. ASSUME wake PROVE ProposedCurrent'
    BY <2>5, UpdateProposes DEF wake, ProposedCurrent
  <2>6. ASSUME Tick PROVE ProposedCurrent'
    BY <2>6, TickProposes
  <2>7. ASSUME UNCHANGED vars PROVE ProposedCurrent'
    BY <2>7 DEF vars, lists, ProposedCurrent, LiveList, LiveIn
  <2> QED BY <2>1, <2>2, <2>3, <2>4, <2>5, <2>6, <2>7 DEF Next
<1> QED BY <1>1, <1>2, Invariance, WakeStaysArmed, PTL DEF Spec

=============================================================================
