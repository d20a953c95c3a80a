------------------------------ MODULE Membership ------------------------------
(***************************************************************************)
(* The member list of one instance of pue-allocator                        *)
(* (internal/allocator/allocator.go): the replicas it hears from, the list *)
(* it proposes, the list in effect, the static targets that drain, the     *)
(* bundles it serves and the timer that wakes it.                          *)
(*                                                                         *)
(* Every operation of the allocator runs under its mutex, so each is one   *)
(* action.  The timer's call is two: it fires, and the goroutine it starts *)
(* takes the mutex later (FireTimer, Wake); heartbeats, reloads and time   *)
(* come in between.                                                        *)
(*                                                                         *)
(* Time is relative.  An instant the code keeps is modelled by how long    *)
(* ago it was, counted no further than the longest duration it is compared *)
(* with; a deadline is modelled by how long it is away, 0 once it is due.  *)
(* Tick is one unit of time, and nothing makes a timer punctual.           *)
(***************************************************************************)
EXTENDS Integers, FiniteSets

CONSTANTS
  Members,            \* the ids of replicas
  Instances,          \* the ids of replica processes
  NoInstance,         \* the retired instance of a member that had none
  Capacities,         \* the capacities a heartbeat may say, in thousandths
  Inputs,             \* the versions of the input files
  Targets,            \* the names of static targets
  TargetsOf(_),       \* the static targets of a version
  IntervalOf(_, _),   \* the interval of a static target in a version
  Place(_, _),        \* the owner of each static target: version, list
  bundleOf(_, _),     \* a bundle's files: version, set of static targets
  Pollers,            \* requests for a bundle being answered
  TTL,                \* Allocator.memberTTL
  Settle,             \* Allocator.settle
  HeartbeatInterval,  \* Allocator.heartbeatInterval
  Intervals,          \* the intervals a heartbeat may say, 0 for none
  MaxInterval,        \* the longest of them
  MaxMembers          \* Allocator.maxMembers

\* A member list: the capacity of each of its members.
MemberLists == UNION {[S -> Capacities] : S \in SUBSET Members}

\* The list without a member.
NoMembers == [m \in {} |-> 0]

ASSUME ConstantsAssumption ==
  /\ TTL \in Nat \ {0} /\ Settle \in Nat /\ HeartbeatInterval \in Nat \ {0}
  /\ Intervals \subseteq Nat /\ MaxInterval \in Nat
  /\ \A i \in Intervals : i <= MaxInterval
  /\ MaxMembers \in Nat \ {0}
  /\ Capacities \subseteq Nat \ {0}
  /\ NoInstance \notin Instances

\* What the input files and the placement give: a target has an interval, and
\* one owner, a member of the list.
ASSUME PlaceAssumption ==
  /\ \A v \in Inputs : TargetsOf(v) \subseteq Targets
  /\ \A v \in Inputs : \A t \in TargetsOf(v) : IntervalOf(v, t) \in Nat \ {0}
  /\ \A v \in Inputs : \A list \in MemberLists :
       DOMAIN list # {} => Place(v, list) \in [TargetsOf(v) -> DOMAIN list]

VARIABLES
  members,       \* a record for each member known
  proposed,      \* the live members with their capacities, as last updated
  proposedAge,   \* since when: the age of proposedAt
  effective,     \* the list the targets are placed over
  settled,       \* a list has been formed
  draining,      \* how long a member keeps a target it has lost
  inputs,        \* the input files in force
  bundles,       \* the bundle of each effective member
  joining,       \* the bundle of any other member
  watchers,      \* the requests that hold the channel `changed'
  timer,         \* how far away the next wake is, or NoTimer
  waking,        \* the timer has fired and its goroutine not run
  stopped,       \* BeginShutdown was called
  startAge,      \* the age of started
  heardAge,      \* the age of firstHeard, or NotHeard
  longestHeard   \* the longest interval heard before the first list

lists   == <<proposed, proposedAge, effective, settled, draining>>
served  == <<bundles, joining, watchers>>
hearing == <<heardAge, longestHeard>>
vars    == <<members, lists, inputs, served, timer, waking, stopped, startAge,
             hearing>>

NoTimer  == -1
NotHeard == -1

MaxOf(a, b) == IF a >= b THEN a ELSE b

\* The first list waits for this long after the start (firstSettle).
StartWait == MaxOf(Settle, HeartbeatInterval)

-----------------------------------------------------------------------------
(* Members and their liveness. *)

Live(rec) == ~rec.shuttingDown /\ rec.age < TTL

LiveIn(mem) == {m \in DOMAIN mem : Live(mem[m])}

\* The live members with their capacities: a member list.
LiveList(mem) == [m \in LiveIn(mem) |-> mem[m].capacity]

\* Kept, but for the records of effective members.
Kept_OnlyLive(mem) ==
  [m \in {m \in DOMAIN mem : Live(mem[m]) \/ mem[m].age < TTL} |-> mem[m]]

\* The records update keeps: of live members, of effective members, and of any
\* other for the member TTL, so that a late heartbeat is known.
Kept(mem) ==
  [m \in {m \in DOMAIN mem : Live(mem[m]) \/ m \in DOMAIN effective
                             \/ mem[m].age < TTL} |-> mem[m]]

Stale(rec, hb) ==
  IF hb.instance = rec.instance THEN hb.late ELSE hb.instance = rec.retired

-----------------------------------------------------------------------------
(* Targets: who owns them, who keeps them, and the bundles that say so. *)

Owns(v, list, m, t) ==
  DOMAIN list # {} /\ t \in TargetsOf(v) /\ Place(v, list)[t] = m

ShareOf(v, list, drains, m) ==
  {t \in TargetsOf(v) : Owns(v, list, m, t) \/ <<t, m>> \in DOMAIN drains}

BundlesOf(v, list, drains) ==
  [m \in DOMAIN list |-> bundleOf(v, ShareOf(v, list, drains, m))]

\* The bundle a member is answered with, once a list has been formed.
bundleLocked(m) == IF m \in DOMAIN bundles THEN bundles[m] ELSE joining

\* Begin, but for the drains.
Begin_Nothing(moved, v) == draining

\* The drains in force with those of `moved' begun: each runs for the interval
\* its target has in version v.
Begin(moved, v) ==
  [key \in DOMAIN draining \cup moved |->
     IF key \in moved THEN IntervalOf(v, key[1]) ELSE draining[key]]

KeepOnly(drains, keys) == [key \in DOMAIN drains \cap keys |-> drains[key]]

-----------------------------------------------------------------------------
(* Deadlines. *)

\* How far away the earliest instant of the first list is.
FirstSettleLeft ==
  LET own   == StartWait - startAge
      heard == IF heardAge = NotHeard THEN 0 ELSE longestHeard - heardAge
  IN  MaxOf(0, MaxOf(own, heard))

\* The proposed list has yet to take effect, and is one that may.
ListPending ==
  IF settled THEN proposed # effective ELSE proposed # NoMembers

\* Dues, but for the members' TTL.
Dues_NoTTL ==
  {draining[key] : key \in DOMAIN draining}
    \cup (IF ListPending THEN {MaxOf(Settle - proposedAge,
                                    IF settled THEN 0 ELSE FirstSettleLeft)}
                         ELSE {})

\* Dues, but for the settle time.
Dues_NoSettle ==
  {TTL - members[m].age : m \in LiveIn(members)}
    \cup {draining[key] : key \in DOMAIN draining}

\* What the allocator has to wake for: a live member's TTL, the settle time of
\* a list that has yet to take effect, a draining target's interval.
Dues ==
  {TTL - members[m].age : m \in LiveIn(members)}
    \cup {draining[key] : key \in DOMAIN draining}
    \cup (IF ListPending
          THEN {MaxOf(Settle - proposedAge,
                      IF settled THEN 0 ELSE FirstSettleLeft)}
          ELSE {})

\* schedule, but for the order of the instants.
schedule_Latest ==
  IF stopped' \/ Dues' = {}
  THEN timer' = NoTimer
  ELSE timer' \in Dues' /\ \A due \in Dues' : timer' >= due

\* Arms the timer for the earliest of them, as they are after the step.
schedule ==
  IF stopped' \/ Dues' = {}
  THEN timer' = NoTimer
  ELSE timer' \in Dues' /\ \A due \in Dues' : timer' <= due

-----------------------------------------------------------------------------
(* The steps operations share. *)

\* Makes every bundle again; the requests waiting for a change are released
\* when one of them, or which members have one, changed.
rebuild(v, list, drains) ==
  LET made    == BundlesOf(v, list, drains)
      changed == \/ joining # bundleOf(v, {})
                 \/ Cardinality(DOMAIN made) # Cardinality(DOMAIN bundles)
                 \/ \E m \in DOMAIN made : \/ m \notin DOMAIN bundles
                                           \/ bundles[m] # made[m]
  IN  /\ bundles'  = made
      /\ joining'  = bundleOf(v, {})
      /\ watchers' = IF changed THEN {} ELSE watchers

\* settleDue, but for the settle time.
settleDue_AtOnce(list, age) ==
  IF settled THEN list # effective
             ELSE list # NoMembers /\ FirstSettleLeft' = 0

\* Whether `list', proposed for `age', takes effect now.
settleDue(list, age) ==
  /\ IF settled THEN list # effective
                ELSE list # NoMembers /\ FirstSettleLeft' = 0
  /\ age >= Settle

\* keeps, but for the target that is back.
keeps_Owned(list, key) == key[2] \in DOMAIN list

\* Whether a drain goes on under `list': not that of a member which has left,
\* or has the target back.
keeps(list, key) ==
  key[2] \in DOMAIN list /\ ~Owns(inputs, list, key[2], key[1])

\* The drains once `list' is in effect: what moves from a member of it begins
\* to drain.
takeEffect(list) ==
  LET moved == {key \in TargetsOf(inputs) \X DOMAIN list :
                  /\ Owns(inputs, effective, key[2], key[1])
                  /\ ~Owns(inputs, list, key[2], key[1])}
      begun == Begin(moved, inputs)
  IN  KeepOnly(begun, {key \in DOMAIN begun : keeps(list, key)})

\* running, but for the drains that are due.
running_Forever(drains) == drains

\* The drains that are not due.
running(drains) == KeepOnly(drains, {key \in DOMAIN drains : drains[key] > 0})

\* The bundles are made again, but not when a drain ends.
rebuildAfter_List(due, handed, drains) == due

\* Whether the bundles are made again: the list changed or a drain ended.
rebuildAfter(due, handed, drains) == due \/ drains # handed

\* Brings the lists, the drains and the bundles up to the clock, the records
\* being `mem', and arranges the next wake.
update(mem) ==
  /\ members'     = Kept(mem)
  /\ proposed'    = LiveList(mem)
  /\ proposedAge' = IF proposed' = proposed THEN proposedAge ELSE 0
  /\ LET due    == settleDue(proposed', proposedAge')
         handed == IF due THEN takeEffect(proposed') ELSE draining
     IN  /\ effective' = IF due THEN proposed' ELSE effective
         /\ settled'   = (settled \/ due)
         /\ draining'  = running(handed)
         /\ IF rebuildAfter(due, handed, draining')
            THEN rebuild(inputs, effective', draining')
            ELSE UNCHANGED served
  /\ schedule

-----------------------------------------------------------------------------
(* The operations. *)

\* A heartbeat is that of a process.  It is `late' when its sequence is not
\* past that of the last heartbeat applied of the process.
Heartbeats == [instance : Instances, late : BOOLEAN, shuttingDown : BOOLEAN,
               capacity : Capacities, interval : Intervals]

\* Before the first list any heartbeat, applied or not, tells the allocator
\* it can be found, and how long others may take.
hear(hb) ==
  /\ heardAge' = IF ~settled /\ heardAge = NotHeard THEN 0 ELSE heardAge
  /\ longestHeard' = IF settled THEN longestHeard
                                ELSE MaxOf(longestHeard, hb.interval)

Ignored(m, hb) ==
  IF m \in DOMAIN members THEN Stale(members[m], hb) ELSE hb.shuttingDown

Refused(m) ==
  m \notin DOMAIN members /\ Cardinality(LiveIn(members)) >= MaxMembers

\* The record of m once hb is applied.
Applied(m, hb) ==
  LET old == IF m \in DOMAIN members
             THEN members[m]
             ELSE [instance |-> NoInstance, retired |-> NoInstance]
  IN  [instance     |-> hb.instance,
       retired      |-> IF hb.instance = old.instance THEN old.retired
                                                      ELSE old.instance,
       shuttingDown |-> hb.shuttingDown,
       capacity     |-> hb.capacity,
       age          |-> 0]

HeartbeatApplied(m, hb) ==
  /\ ~Ignored(m, hb) /\ ~Refused(m)
  /\ hear(hb)
  /\ UNCHANGED <<inputs, startAge, stopped, waking>>
  /\ update([n \in DOMAIN members \cup {m} |->
               IF n = m THEN Applied(m, hb) ELSE members[n]])

HeartbeatNotApplied(m, hb) ==
  /\ Ignored(m, hb) \/ Refused(m)
  /\ hear(hb)
  /\ UNCHANGED <<members, lists, inputs, served, timer, waking, stopped,
                 startAge>>

Heartbeat(m, hb) == HeartbeatApplied(m, hb) \/ HeartbeatNotApplied(m, hb)

\* Other input files are in force, and the static targets they move from a
\* member drain there, as for a change of the member list.
Reload(v) ==
  LET moved == {key \in (TargetsOf(inputs) \cap TargetsOf(v)) \X Members :
                  /\ settled
                  /\ Owns(inputs, effective, key[2], key[1])
                  /\ ~Owns(v, effective, key[2], key[1])}
      begun == Begin(moved, v)
      kept  == KeepOnly(begun, {key \in DOMAIN begun :
                 \E m \in DOMAIN effective \ {key[2]} :
                   Owns(v, effective, m, key[1])})
  IN  /\ v # inputs
      /\ inputs' = v
      /\ draining' = kept
      /\ UNCHANGED <<members, proposed, proposedAge, effective, settled>>
      /\ UNCHANGED <<waking, stopped, startAge, hearing>>
      /\ rebuild(v, effective, kept)
      /\ schedule

\* The timer goes off and starts a goroutine.
FireTimer ==
  /\ timer = 0
  /\ timer' = NoTimer
  /\ waking' = TRUE
  /\ UNCHANGED <<members, lists, inputs, served, stopped, startAge, hearing>>

\* That goroutine has the mutex.
wake ==
  /\ waking
  /\ waking' = FALSE
  /\ UNCHANGED <<inputs, stopped, startAge, hearing>>
  /\ IF stopped THEN UNCHANGED <<members, lists, served, timer>>
                ELSE update(members)

BeginShutdown ==
  /\ ~stopped
  /\ stopped' = TRUE
  /\ timer' = NoTimer
  /\ UNCHANGED <<members, lists, inputs, served, waking, startAge, hearing>>

\* A request for a bundle takes the channel that the next change closes.
changes(p) ==
  /\ p \notin watchers
  /\ watchers' = watchers \cup {p}
  /\ UNCHANGED <<members, lists, inputs, bundles, joining, timer, waking,
                 stopped, startAge, hearing>>

\* A request ends for a reason of its own.
Leave(p) ==
  /\ p \in watchers
  /\ watchers' = watchers \ {p}
  /\ UNCHANGED <<members, lists, inputs, bundles, joining, timer, waking,
                 stopped, startAge, hearing>>

\* Nearer, but for the deadline that is due already.
Nearer_Past(left) == left - 1

Older(age, limit) == IF age < limit THEN age + 1 ELSE age
Nearer(left) == IF left > 0 THEN left - 1 ELSE left

\* What the first list waited for is of no use once it has formed.
Tick ==
  /\ members' = [m \in DOMAIN members |->
                   [members[m] EXCEPT !.age = Older(@, TTL)]]
  /\ proposedAge' = Older(proposedAge, Settle)
  /\ draining' = [key \in DOMAIN draining |-> Nearer(draining[key])]
  /\ timer' = Nearer(timer)
  /\ startAge' = IF settled THEN startAge ELSE Older(startAge, StartWait)
  /\ heardAge' = IF settled \/ heardAge = NotHeard
                 THEN heardAge ELSE Older(heardAge, MaxInterval)
  /\ UNCHANGED <<proposed, effective, settled, inputs, served, waking, stopped,
                 longestHeard>>

-----------------------------------------------------------------------------

Init ==
  /\ members = [m \in {} |-> 0]
  /\ proposed = NoMembers /\ proposedAge = 0
  /\ effective = NoMembers /\ settled = FALSE
  /\ draining = [key \in {} |-> 0]
  /\ inputs \in Inputs
  /\ bundles = [m \in {} |-> 0] /\ joining = bundleOf(inputs, {})
  /\ watchers = {}
  /\ timer = NoTimer /\ waking = FALSE /\ stopped = FALSE
  /\ startAge = 0 /\ heardAge = NotHeard /\ longestHeard = 0

Next ==
  \/ \E m \in Members, hb \in Heartbeats : Heartbeat(m, hb)
  \/ \E v \in Inputs : Reload(v)
  \/ \E p \in Pollers : changes(p) \/ Leave(p)
  \/ FireTimer
  \/ wake
  \/ BeginShutdown
  \/ Tick

Spec == Init /\ [][Next]_vars

\* Time passes, a timer that is due goes off, and a goroutine that waits for
\* the mutex gets it.
Fairness == WF_vars(Tick) /\ WF_vars(FireTimer) /\ WF_vars(wake)

FairSpec == Spec /\ Fairness

-----------------------------------------------------------------------------
(* Properties. *)

Records == [instance : Instances, retired : Instances \cup {NoInstance},
            shuttingDown : BOOLEAN, capacity : Capacities, age : 0 .. TTL]

Bundles == {bundleOf(v, share) : v \in Inputs, share \in SUBSET Targets}

\* Every variable has its type: deadlines are never negative, and instants no
\* older than anything compares them.
TypeOK ==
  /\ DOMAIN members \subseteq Members
  /\ members \in [DOMAIN members -> Records]
  /\ proposed \in MemberLists /\ effective \in MemberLists
  /\ proposedAge \in 0 .. Settle
  /\ settled \in BOOLEAN /\ waking \in BOOLEAN /\ stopped \in BOOLEAN
  /\ DOMAIN draining \subseteq Targets \X Members
  /\ draining \in [DOMAIN draining -> Nat]
  /\ inputs \in Inputs
  /\ DOMAIN bundles \subseteq Members
  /\ bundles \in [DOMAIN bundles -> Bundles] /\ joining \in Bundles
  /\ watchers \subseteq Pollers
  /\ timer \in Nat \cup {NoTimer}
  /\ startAge \in 0 .. StartWait
  /\ heardAge \in 0 .. MaxInterval \cup {NotHeard}
  /\ longestHeard \in 0 .. MaxInterval

\* The bundles served are always those of the inputs, the list and the drains
\* in force: no operation changes one of them and leaves a bundle behind.
BundlesCurrent ==
  /\ joining = bundleOf(inputs, {})
  /\ bundles = BundlesOf(inputs, effective, draining)

\* A drain is of a target the inputs in force have, on a member of the list
\* that does not own it: no target is drained by its own owner, by a member
\* that has left, or after it is gone, whatever moved it and how often.
DrainsApart ==
  \A key \in DOMAIN draining :
    /\ key[1] \in TargetsOf(inputs)
    /\ key[2] \in DOMAIN effective
    /\ ~Owns(inputs, effective, key[2], key[1])

\* The allocator has a record of every member of either list: what reads the
\* record of a member it took from a list (routing, the status) finds one.
RecordsHeld == DOMAIN effective \cup DOMAIN proposed \subseteq DOMAIN members

\* No wake is lost: while the allocator runs, whatever it has to wake for is
\* covered by a timer armed no later, or by a goroutine on its way.
WakeArmed ==
  stopped \/ waking \/ \A due \in Dues : timer # NoTimer /\ timer <= due

\* The proposed list is the live members: it falls behind only between the
\* instant the timer is due and the goroutine's turn.
ProposedCurrent == stopped \/ waking \/ timer = 0 \/ proposed = LiveList(members)

\* A target that moves has no gap: a member still in the list scrapes what it
\* had until the drain of it has run out, through any changes of the list and
\* of the inputs, unless the target itself is gone.
NoGap ==
  [][\A m \in DOMAIN effective' :
       \A t \in ShareOf(inputs, effective, draining, m)
                  \ ShareOf(inputs, effective, draining, m)' :
         \/ t \notin TargetsOf(inputs')
         \/ /\ <<t, m>> \in DOMAIN draining
            /\ draining[<<t, m>>] = 0]_vars

\* The list changes only to one that has been proposed, as it is, for the
\* settle time: replicas that restart or flap within it move nothing.
HeldBeforeEffect ==
  [][effective' # effective =>
       /\ effective' = proposed'
       /\ Settle > 0 => proposed' = proposed /\ proposedAge >= Settle]_vars

\* What the documentation says of --members.max: no more members than that
\* are live.
MembersBounded == Cardinality(LiveIn(members)) <= MaxMembers

\* Every drain ends, however often the list and the inputs change.
DrainsEnd ==
  \A t \in Targets, m \in Members :
    <<t, m>> \in DOMAIN draining ~> stopped \/ <<t, m>> \notin DOMAIN draining

\* A list that stops changing takes effect.
ListTakesEffect ==
  <>[][UNCHANGED proposed]_vars => <>[](stopped \/ ~ListPending)

=============================================================================
