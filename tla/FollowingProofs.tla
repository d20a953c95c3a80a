--------------------------- MODULE FollowingProofs ---------------------------
(***************************************************************************)
(* What follows reloads, for any collectors, definitions, goroutines,      *)
(* probes, trips, targets and reloads: that a following is one step and    *)
(* leaves nothing of what has retired; that identical probes share a trip  *)
(* that goes on for them and no other, and are not answered with what is   *)
(* older than their collector; and that a trial has the one trip that ends *)
(* it, and nothing is remembered of a definition that is gone.             *)
(***************************************************************************)
EXTENDS Reconcile, ProbeSharing, FailureBackoff, CountingLemmas, FiniteSetTheorems,
        SequenceTheorems, TLAPS

-----------------------------------------------------------------------------
(* The following of reloads. *)

\* What a goroutine has in hand: a following to work out is not made yet, and
\* no configuration it goes on with is older than its asking.
InHand ==
  /\ DOMAIN mine = Goroutines
  /\ \A g \in Goroutines :
       /\ asked[g] <= force.n
       /\ doing[g] = "plans" => mine[g].config # cfg[g]
       /\ doing[g] \in {"reads", "plans"} => asked[g] <= cfg[g].n

\* The goroutine that reloads is not done before what it installed is followed.
ReloadFollowed ==
  /\ doing[Reloader] \in {"reads", "plans"} => cfg[Reloader] = force
  /\ doing[Reloader] \in {"idle", "made", "has"} => followed.config = force

\* Whoever made the last following tells of it, if it has not been told.
ToldOrTelling ==
  /\ applied <= followed.generation
  /\ \A g \in Goroutines : doing[g] = "made" => mine[g].generation <= followed.generation
  /\ applied # followed.generation =>
       \E g \in Goroutines : doing[g] = "made" /\ mine[g].generation = followed.generation

ReconcileInv ==
  RetiredLeavesNothing /\ NotBeforeAsked /\ InHand /\ ReloadFollowed /\ ToldOrTelling

LEMMA InitialReconcile == ReconcileInit => ReconcileInv
<1> SUFFICES ASSUME ReconcileInit PROVE ReconcileInv
  OBVIOUS
<1>1. PICK d \in [Names -> Definitions \cup {None}] : force = [n |-> 0, defs |-> d]
  BY DEF ReconcileInit, FollowingInit
<1>2. /\ followed.config = force /\ followed.generation = 1
      /\ followed.defined = [c \in Named(force) |-> 1]
  BY DEF ReconcileInit, FollowingInit
<1>3. force \in Config /\ force.n = 0
  BY <1>1, FollowingAssumption DEF Config
<1>4. FollowingTypeOK
  BY <1>2, <1>3 DEF FollowingTypeOK
<1>5. ReconcileTypeOK
  BY <1>2, <1>3, <1>4, FollowingAssumption DEF ReconcileInit, ReconcileTypeOK
<1>6. RetiredLeavesNothing
  BY <1>5 DEF RetiredLeavesNothing, ReconcileInit, StatsOfStay
<1> QED BY <1>2, <1>3, <1>6
           DEF ReconcileInv, ReconcileInit, NotBeforeAsked, InHand, ReloadFollowed, ToldOrTelling, Goroutines

LEMMA InstallKeepsInv ==
  ASSUME ReconcileInv, NEW d \in [Names -> Definitions \cup {None}], install(d)
  PROVE  ReconcileInv' /\ Install(d)
<1> USE DEF ReconcileInv, RetiredLeavesNothing, ReconcileTypeOK, FollowingTypeOK
<1>1. /\ force' \in Config /\ force'.n = force.n + 1
  BY FollowingAssumption DEF install, Config
<1>2. followed.config = force
  BY DEF install, ReloadFollowed
<1>3. Install(d)
  BY <1>2 DEF install, Install
<1>4. UNCHANGED <<followed, asked, cfg, mine, since, stats, kept, applied>>
        /\ doing' = [doing EXCEPT ![Reloader] = "asks"] /\ doing[Reloader] = "idle"
  BY DEF install
<1>5. ReconcileTypeOK'
  BY <1>1, <1>4
<1>6. RetiredLeavesNothing'
  BY <1>4, <1>5 DEF stands, StatsOfStay
<1>7. NotBeforeAsked' /\ ReloadFollowed' /\ ToldOrTelling'
  BY <1>4 DEF NotBeforeAsked, ReloadFollowed, ToldOrTelling, Goroutines
<1>8. InHand'
  BY <1>1, <1>4 DEF InHand, Config, Goroutines
<1> QED BY <1>3, <1>6, <1>7, <1>8

LEMMA ReadKeepsInv ==
  ASSUME ReconcileInv, NEW g \in Goroutines, ReadForce(g) \/ ReadFollowed(g)
  PROVE  ReconcileInv' /\ UNCHANGED following
<1> USE DEF ReconcileInv, RetiredLeavesNothing, ReconcileTypeOK, FollowingTypeOK
<1>1. CASE ReadForce(g)
  <2>1. force.n \in 0 .. MaxReloads
    BY DEF Config
  <2>2. ReconcileTypeOK'
    BY <1>1, <2>1 DEF ReadForce
  <2>3. RetiredLeavesNothing'
    BY <1>1, <2>2 DEF ReadForce, stands, StatsOfStay
  <2>4. NotBeforeAsked' /\ InHand'
    BY <1>1, <2>1 DEF ReadForce, NotBeforeAsked, InHand
  <2>5. ReloadFollowed' /\ ToldOrTelling'
    BY <1>1 DEF ReadForce, ReloadFollowed, ToldOrTelling, Goroutines
  <2> QED BY <1>1, <2>3, <2>4, <2>5 DEF ReadForce, following
<1>2. CASE ReadFollowed(g)
  <2>1. ReconcileTypeOK'
    BY <1>2 DEF ReadFollowed, Goes
  <2>2. RetiredLeavesNothing'
    BY <1>2, <2>1 DEF ReadFollowed, stands, StatsOfStay
  <2>3. NotBeforeAsked' /\ InHand'
    <3>1. /\ mine' = [mine EXCEPT ![g] = followed] /\ doing[g] = "reads"
          /\ doing'[g] = Goes(cfg[g], followed)
          /\ \A h \in Goroutines : h # g => doing'[h] = doing[h]
          /\ UNCHANGED <<force, asked, cfg>>
      BY <1>2 DEF ReadFollowed
    <3>2. \/ doing'[g] = "has" /\ followed.config = cfg[g]
          \/ doing'[g] = "plans" /\ followed.config # cfg[g]
      BY <3>1 DEF Goes
    <3>3. NotBeforeAsked'
      BY <3>1, <3>2 DEF NotBeforeAsked, InHand, Config
    <3>4. InHand'
      BY <3>1, <3>2 DEF InHand
    <3> QED BY <3>3, <3>4
  <2>4. ReloadFollowed' /\ ToldOrTelling'
    BY <1>2 DEF ReadFollowed, Goes, ReloadFollowed, ToldOrTelling, Goroutines
  <2> QED BY <1>2, <2>2, <2>3, <2>4 DEF ReadFollowed, following
<1> QED BY <1>1, <1>2

\* What is worked out anew under the lock is of what is in force there.
LEMMA AgainKeepsInv ==
  ASSUME ReconcileInv, NEW g \in Goroutines, Make(g), ~StillTo(g)
  PROVE  ReconcileInv' /\ UNCHANGED following
<1> USE DEF ReconcileInv, RetiredLeavesNothing, ReconcileTypeOK, FollowingTypeOK
<1>1. /\ doing[g] = "plans"
      /\ mine' = [mine EXCEPT ![g] = followed]
      /\ cfg' = [cfg EXCEPT ![g] = force]
      /\ doing' = [doing EXCEPT ![g] = Goes(force, followed)]
      /\ UNCHANGED <<force, followed, since, stats, kept, asked, applied>>
  BY DEF Make
<1>2. ReconcileTypeOK'
  BY <1>1 DEF Goes
<1>3. RetiredLeavesNothing'
  BY <1>1, <1>2 DEF stands, StatsOfStay
<1>4. NotBeforeAsked' /\ InHand'
  <2>1. \/ doing'[g] = "has" /\ followed.config = force
        \/ doing'[g] = "plans" /\ followed.config # force
    BY <1>1 DEF Goes
  <2>2. \A h \in Goroutines : h # g => doing'[h] = doing[h]
    BY <1>1
  <2>3. NotBeforeAsked'
    BY <1>1, <2>1, <2>2 DEF NotBeforeAsked, InHand, Config
  <2>4. InHand'
    BY <1>1, <2>1, <2>2 DEF InHand
  <2> QED BY <2>3, <2>4
<1>5. ReloadFollowed' /\ ToldOrTelling'
  BY <1>1 DEF Goes, ReloadFollowed, ToldOrTelling, Goroutines
<1> QED BY <1>1, <1>3, <1>4, <1>5 DEF following

\* A following made drops what is kept of the collectors it retires, and the
\* others have been there since the same generation.
LEMMA MakeKeepsInv ==
  ASSUME ReconcileInv, NEW g \in Goroutines, Make(g), StillTo(g)
  PROVE  ReconcileInv' /\ Follow
<1> USE DEF ReconcileInv, RetiredLeavesNothing, ReconcileTypeOK, FollowingTypeOK
<1> DEFINE next == planFollowing(followed, force)
<1>1. /\ doing[g] = "plans" /\ followed = mine[g] /\ force = cfg[g]
      /\ followed' = next
      /\ since' = [c \in Named(next.config) |->
                     IF c \in DOMAIN since THEN since[c] ELSE next.generation]
      /\ stats' = [c \in Names |-> IF c \in DOMAIN since' THEN stats[c] ELSE 0]
      /\ kept' = {k \in kept : k[1] \notin stale(followed, next)}
      /\ mine' = [mine EXCEPT ![g] = followed']
      /\ doing' = [doing EXCEPT ![g] = "made"]
      /\ UNCHANGED <<force, cfg, asked, applied>>
  BY DEF Make, StillTo, followLocked
<1>2. /\ next.config = force /\ next.generation = followed.generation + 1
      /\ next.defined = definedFrom(followed, force, followed.generation + 1)
  BY DEF planFollowing
<1>3. Follow
  BY <1>1 DEF InHand, Follow
<1> HIDE DEF next
<1>4. /\ next.defined \in [Named(force) -> 1 .. next.generation]
      /\ \A c \in Named(force) :
           next.defined[c] = IF followed.config.defs[c] = force.defs[c]
                               THEN followed.defined[c] ELSE next.generation
  <2>1. \A c \in Named(force) : followed.config.defs[c] = force.defs[c] =>
          c \in Named(followed.config) /\ followed.defined[c] \in 1 .. followed.generation
    BY DEF Named
  <2> QED BY <1>2, <2>1 DEF definedFrom
<1>5. FollowingTypeOK'
  BY <1>1, <1>2, <1>4
<1>6. since' \in [Named(force) -> 1 .. next.generation]
  BY <1>1, <1>2
<1>7. ReconcileTypeOK'
  <2>1. stats' \in [Names -> Nat]
    BY <1>1
  <2>2. \A h \in Goroutines : mine'[h].config \in Config /\ mine'[h].generation \in Nat
    BY <1>1, <1>2
  <2> QED BY <1>1, <1>2, <1>5, <1>6, <2>1, <2>2
<1>8. \A k \in kept' : stands(k[1], k[2])'
  <2> SUFFICES ASSUME NEW k \in kept' PROVE stands(k[1], k[2])'
    OBVIOUS
  <2>1. k \in kept /\ k[1] \notin stale(followed, next) /\ stands(k[1], k[2])
    BY <1>1
  <2>2. k[1] \in Named(followed.config) /\ force.defs[k[1]] = followed.config.defs[k[1]]
    BY <1>2, <2>1 DEF stands, stale
  <2>3. k[1] \in Named(force) /\ next.defined[k[1]] = followed.defined[k[1]]
    BY <1>4, <2>2 DEF Named
  <2> QED BY <1>1, <1>4, <2>1, <2>3 DEF stands
<1>9. StatsOfStay'
  BY <1>1, <1>6 DEF StatsOfStay
<1>10. NotBeforeAsked' /\ InHand'
  <2>1. NotBeforeAsked'
    BY <1>1, <1>2 DEF NotBeforeAsked, InHand, Config
  <2>2. InHand'
    BY <1>1 DEF InHand
  <2> QED BY <2>1, <2>2
<1>11. ReloadFollowed' /\ ToldOrTelling'
  <2>1. ReloadFollowed'
    BY <1>1, <1>2 DEF ReloadFollowed, Goroutines
  <2>2. applied' <= followed'.generation /\ followed'.generation \in Nat
    BY <1>1, <1>2 DEF ToldOrTelling
  <2>3. doing'[g] = "made" /\ mine'[g].generation = followed'.generation
    BY <1>1, <1>2 DEF InHand
  <2>4. ASSUME NEW h \in Goroutines, doing'[h] = "made"
        PROVE  mine'[h].generation <= followed'.generation
    BY <1>1, <1>2, <2>3, <2>4 DEF ToldOrTelling
  <2> QED BY <2>1, <2>2, <2>3, <2>4 DEF ToldOrTelling
<1> QED BY <1>3, <1>7, <1>8, <1>9, <1>10, <1>11

LEMMA ApplyKeepsInv ==
  ASSUME ReconcileInv, NEW g \in Goroutines, applyFollowed(g) \/ Done(g)
  PROVE  ReconcileInv' /\ UNCHANGED following
<1> USE DEF ReconcileInv, RetiredLeavesNothing, ReconcileTypeOK, FollowingTypeOK
<1>1. /\ UNCHANGED <<force, followed, asked, cfg, mine, since, stats, kept>>
      /\ doing' = [doing EXCEPT ![g] = IF applyFollowed(g) THEN "has" ELSE "idle"]
      /\ applied' \in Nat
  BY DEF applyFollowed, Done
<1>2. ReconcileTypeOK'
  BY <1>1
<1>3. RetiredLeavesNothing'
  BY <1>1, <1>2 DEF stands, StatsOfStay
<1>4. NotBeforeAsked' /\ InHand'
  BY <1>1 DEF applyFollowed, Done, NotBeforeAsked, InHand
<1>5. ReloadFollowed'
  BY <1>1 DEF applyFollowed, Done, ReloadFollowed, Goroutines
<1>6. ToldOrTelling'
  <2>1. CASE applyFollowed(g)
    BY <1>1, <2>1 DEF applyFollowed, Later, ToldOrTelling
  <2>2. CASE Done(g)
    BY <1>1, <2>2 DEF Done, ToldOrTelling
  <2> QED BY <2>1, <2>2
<1> QED BY <1>1, <1>3, <1>4, <1>5, <1>6 DEF following

LEMMA TripKeepsInv ==
  ASSUME ReconcileInv, NEW g \in Goroutines, NEW c \in Names, statsSince(g, c) \/ write(g, c)
  PROVE  ReconcileInv' /\ UNCHANGED following
<1> USE DEF ReconcileInv, RetiredLeavesNothing, ReconcileTypeOK, FollowingTypeOK
<1>1. CASE statsSince(g, c)
  <2>1. since[c] \in Nat
    BY <1>1 DEF statsSince
  <2>2. ReconcileTypeOK'
    BY <1>1, <2>1 DEF statsSince
  <2>3. RetiredLeavesNothing'
    BY <1>1, <2>2 DEF statsSince, stands, StatsOfStay
  <2> QED BY <1>1, <2>3
             DEF statsSince, following, NotBeforeAsked, InHand, ReloadFollowed, ToldOrTelling
<1>2. CASE write(g, c)
  <2>1. /\ UNCHANGED <<force, followed, asked, cfg, mine, since, stats, applied>>
        /\ doing[g] = "has" /\ doing' = [doing EXCEPT ![g] = "idle"]
        /\ kept' \in {kept, kept \cup {<<c, mine[g].generation>>}}
        /\ kept' # kept => stands(c, mine[g].generation)
    BY <1>2 DEF write
  <2>2. ReconcileTypeOK'
    BY <2>1
  <2>3. RetiredLeavesNothing'
    BY <2>1, <2>2 DEF stands, StatsOfStay
  <2>4. NotBeforeAsked' /\ InHand'
    BY <2>1 DEF NotBeforeAsked, InHand
  <2>5. ReloadFollowed' /\ ToldOrTelling'
    BY <2>1 DEF ReloadFollowed, ToldOrTelling, Goroutines
  <2> QED BY <2>1, <2>3, <2>4, <2>5 DEF following
<1> QED BY <1>1, <1>2

LEMMA StutterKeepsInv == ReconcileInv /\ UNCHANGED rvars => ReconcileInv' /\ UNCHANGED following
BY DEF ReconcileInv, RetiredLeavesNothing, ReconcileTypeOK, FollowingTypeOK, StatsOfStay, stands, NotBeforeAsked,
       InHand, ReloadFollowed, ToldOrTelling, rvars, following

\* A step keeps the invariant, and is a step of Following or leaves what
\* Following is about as it was.
LEMMA ReconcileStep == ReconcileInv /\ [ReconcileNext]_rvars => ReconcileInv' /\ [FollowingNext]_following
<1> SUFFICES ASSUME ReconcileInv, [ReconcileNext]_rvars PROVE ReconcileInv' /\ [FollowingNext]_following
  OBVIOUS
<1>1. CASE \E d \in [Names -> Definitions \cup {None}] : install(d)
  BY <1>1, InstallKeepsInv DEF FollowingNext
<1>2. ASSUME NEW g \in Goroutines,
             ReadForce(g) \/ ReadFollowed(g) \/ Make(g) \/ applyFollowed(g) \/ Done(g)
      PROVE  ReconcileInv' /\ [FollowingNext]_following
  BY <1>2, ReadKeepsInv, AgainKeepsInv, MakeKeepsInv, ApplyKeepsInv DEF FollowingNext
<1>3. ASSUME NEW g \in Goroutines, NEW c \in Names, statsSince(g, c) \/ write(g, c)
      PROVE  ReconcileInv' /\ [FollowingNext]_following
  BY <1>3, TripKeepsInv
<1>4. CASE UNCHANGED rvars
  BY <1>4, StutterKeepsInv
<1> QED BY <1>1, <1>2, <1>3, <1>4 DEF ReconcileNext

LEMMA ReconcileInvariance == ReconcileSpec => []ReconcileInv
BY InitialReconcile, ReconcileStep, PTL DEF ReconcileSpec

-----------------------------------------------------------------------------

\* The steps by which reloads and probes follow a reload (Server.reconcile,
\* followLocked), any number at once, are as following it in one step, before
\* the next reload.
THEOREM FollowsInOneStep == ReconcileSpec => FollowingSpec
<1>1. ReconcileInit => FollowingInit
  BY DEF ReconcileInit
<1> QED BY <1>1, ReconcileInvariance, ReconcileStep, PTL DEF ReconcileSpec, FollowingSpec

\* Nothing is kept of a definition no longer in force (dropStale and the tests
\* of stands), and the statistics kept are of the stay their collector is in.
THEOREM NothingRetiredKept == ReconcileSpec => []RetiredLeavesNothing
BY ReconcileInvariance, PTL DEF ReconcileInv

\* Whoever asks after a reload goes on with it or a later one, and what is told
\* of followings (applyFollowed) never goes back to an older one.
THEOREM NothingOlderFollowed == ReconcileSpec => []FollowsTheLatest
<1>1. ReconcileInv => FollowsTheLatest
  BY DEF ReconcileInv, FollowsTheLatest, LatestApplied, ToldOrTelling
<1> QED BY <1>1, ReconcileInvariance, PTL

-----------------------------------------------------------------------------
(* Identical probes: the invariant. *)

Phases == {"none", "started", "fetching", "failed", "ending", "closing"}
Answers == [def : Definitions \cup {None}, stay : Nat]
Reads == [def : Definitions \cup {None}, generation : Nat, stay : Nat]
TripStates == [phase : Phases, key : (Definitions \cup {None}) \X Nat,
               def : Definitions \cup {None}, generation : Nat, stay : Nat,
               waiters : Nat, cancelled : BOOLEAN, result : Answers]
Entries == [age : {"fresh", "stale"}, stay : Nat, unwatched : BOOLEAN]

Typed ==
  /\ at \in [Callers -> {"idle", "begun", "missed", "waiting", "answered"}]
  /\ read \in [Callers -> Reads]
  /\ on \in [Callers -> Trips \cup {None}]
  /\ answer \in [Callers -> Answers]
  /\ flights \in [Keys -> Trips \cup {None}]
  /\ trip \in [Trips -> TripStates]
  /\ entry \in [Definitions -> Entries \cup {None}]

\* Generations are counted with the reloads.
FollowedFits ==
  /\ FollowingTypeOK
  /\ followed.generation = followed.config.n + 1
  /\ force = followed.config \/ force.n = followed.config.n + 1

\* What a probe or a trip has of the collector was read at a generation: it is
\* the collector's still unless a reload has changed that since.
ReadRight(r) ==
  /\ r.def \in Definitions /\ r.generation \in 1..followed.generation /\ r.stay \in 1..r.generation
  /\ stands(Collector, r.generation) =>
       r.def = followed.config.defs[Collector] /\ r.stay = followed.defined[Collector]

\* A probe waits for a trip of what it has read.
ProbesFit ==
  \A p \in Callers :
    /\ at[p] # "idle" => ReadRight(read[p])
    /\ on[p] # None <=> at[p] = "waiting"
    /\ at[p] = "waiting" => trip[on[p]].def = read[p].def /\ trip[on[p]].stay = read[p].stay

\* What a trip answers with.
AnswersFor(r, answered) ==
  answered = Failure \/ (answered.def = r.def /\ answered.stay >= r.stay)

WaitOn(t) == {p \in Callers : on[p] = t}

TripsFit ==
  \A t \in Trips : trip[t] # Nothing =>
    /\ ReadRight(trip[t]) /\ trip[t].key = <<trip[t].def, trip[t].stay>>
    /\ AnswersFor(trip[t], trip[t].result)
    /\ Cardinality(WaitOn(t)) <= trip[t].waiters /\ trip[t].waiters <= Cardinality(Callers)

SharingInv ==
  /\ Typed /\ FollowedFits /\ ProbesFit /\ TripsFit
  /\ FlightsGoOn /\ CancelledWhenAlone /\ AskedOnce
  /\ NeverOlder /\ NothingRetired

LEMMA Blanks ==
  /\ Nothing \in TripStates /\ Failure \in Answers /\ Unread \in Reads
  /\ Nothing.phase = "none" /\ Nothing.stay = 0
BY DEF Nothing, TripStates, Failure, Answers, Unread, Reads, Phases

\* One more probe waits for a trip, or one less.
LEMMA OneMoreWaits ==
  ASSUME SharingInv, NEW p \in Callers, NEW t \in Trips, on[p] # t, on' = [on EXCEPT ![p] = t]
  PROVE  /\ Cardinality(WaitOn(t)') = Cardinality(WaitOn(t)) + 1
         /\ Cardinality(WaitOn(t)') <= Cardinality(Callers) /\ Cardinality(WaitOn(t)) \in Nat
         /\ \A u \in Trips : u # t /\ u # on[p] => WaitOn(u)' = WaitOn(u)
<1>1. on \in [Callers -> Trips \cup {None}]
  BY DEF SharingInv, Typed
<1>2. WaitOn(t)' = WaitOn(t) \cup {p} /\ p \notin WaitOn(t)
  BY <1>1 DEF WaitOn
<1>3. IsFiniteSet(Callers) /\ WaitOn(t) \in SUBSET Callers /\ WaitOn(t)' \in SUBSET Callers
  BY SharingAssumption DEF WaitOn
<1>4. IsFiniteSet(WaitOn(t)) /\ Cardinality(WaitOn(t)') <= Cardinality(Callers)
  BY <1>3, FS_Subset
<1>5. Cardinality(WaitOn(t)) \in Nat
  BY <1>4, FS_CardinalityType
<1>6. Cardinality(WaitOn(t) \cup {p}) = Cardinality(WaitOn(t)) + 1
  BY <1>2, <1>4, FS_AddElement
<1>7. \A u \in Trips : u # t /\ u # on[p] => WaitOn(u)' = WaitOn(u)
  BY <1>1 DEF WaitOn
<1> QED BY <1>2, <1>4, <1>5, <1>6, <1>7

LEMMA OneLessWaits ==
  ASSUME SharingInv, NEW p \in Callers, NEW t \in Trips, on[p] = t, on' = [on EXCEPT ![p] = None]
  PROVE  /\ Cardinality(WaitOn(t)') = Cardinality(WaitOn(t)) - 1
         /\ Cardinality(WaitOn(t)') \in Nat /\ Cardinality(WaitOn(t)) \in Nat
         /\ \A u \in Trips : u # t => WaitOn(u)' = WaitOn(u)
<1>1. on \in [Callers -> Trips \cup {None}] /\ None \notin Trips
  BY SharingAssumption DEF SharingInv, Typed
<1>2. WaitOn(t)' = WaitOn(t) \ {p} /\ p \in WaitOn(t)
  BY <1>1 DEF WaitOn
<1>3. IsFiniteSet(Callers) /\ WaitOn(t) \in SUBSET Callers
  BY SharingAssumption DEF WaitOn
<1>4. IsFiniteSet(WaitOn(t))
  BY <1>3, FS_Subset
<1>5. IsFiniteSet(WaitOn(t) \ {p}) /\ Cardinality(WaitOn(t) \ {p}) = Cardinality(WaitOn(t)) - 1
  BY <1>2, <1>4, FS_RemoveElement
<1>6. Cardinality(WaitOn(t)) \in Nat /\ Cardinality(WaitOn(t) \ {p}) \in Nat
  BY <1>4, <1>5, FS_CardinalityType
<1>7. \A u \in Trips : u # t => WaitOn(u)' = WaitOn(u)
  BY <1>1 DEF WaitOn
<1> QED BY <1>2, <1>5, <1>6, <1>7

LEMMA InitialSharing == Init => SharingInv
<1> SUFFICES ASSUME Init PROVE SharingInv
  OBVIOUS
<1> USE DEF Init
<1>1. PICK d \in [Names -> Definitions \cup {None}] : force = [n |-> 0, defs |-> d]
  BY DEF FollowingInit
<1>2. /\ followed.config = force /\ followed.generation = 1
      /\ followed.defined = [c \in Named(force) |-> 1]
  BY DEF FollowingInit
<1>3. force \in Config /\ force.n = 0
  BY <1>1, FollowingAssumption DEF Config
<1>4. FollowedFits
  BY <1>2, <1>3 DEF FollowedFits, FollowingTypeOK
<1>5. Typed
  BY Blanks DEF Typed
<1>6. FlightsGoOn
  BY Blanks DEF FlightsGoOn, Going
<1>7. ProbesFit /\ TripsFit /\ CancelledWhenAlone /\ AskedOnce /\ NeverOlder /\ NothingRetired
  BY Blanks DEF ProbesFit, TripsFit, CancelledWhenAlone, AskedOnce, Going, NeverOlder, NothingRetired, Held
<1> QED BY <1>4, <1>5, <1>6, <1>7 DEF SharingInv

-----------------------------------------------------------------------------
(* Reloads. *)

\* What is right stays so when a reload is followed.
LEMMA RightStays ==
  ASSUME FollowedFits, Follow
  PROVE  /\ FollowedFits'
         /\ followed'.config = force /\ followed'.generation = followed.generation + 1
         /\ \A c \in Named(force) :
              followed'.defined[c] = IF followed.config.defs[c] = force.defs[c]
                                       THEN followed.defined[c] ELSE followed.generation + 1
         /\ DOMAIN followed'.defined = Named(force)
         /\ \A r : ReadRight(r) => ReadRight(r)'
<1> USE DEF FollowedFits, FollowingTypeOK
<1>1. /\ followed' = planFollowing(followed, force) /\ force' = force /\ followed.config # force
  BY DEF Follow
<1>2. /\ followed'.config = force /\ followed'.generation = followed.generation + 1
      /\ followed'.defined = definedFrom(followed, force, followed.generation + 1)
  BY <1>1 DEF planFollowing
<1>3. /\ DOMAIN followed'.defined = Named(force)
      /\ \A c \in Named(force) :
           /\ followed'.defined[c] = IF followed.config.defs[c] = force.defs[c]
                                       THEN followed.defined[c] ELSE followed.generation + 1
           /\ followed.config.defs[c] = force.defs[c] =>
                followed.defined[c] \in 1 .. followed.generation
  <2>1. \A c \in Named(force) : followed.config.defs[c] = force.defs[c] =>
          c \in Named(followed.config) /\ followed.defined[c] \in 1 .. followed.generation
    BY DEF Named
  <2> QED BY <1>2, <2>1 DEF definedFrom
<1>4. followed'.defined \in [Named(force) -> 1 .. (followed.generation + 1)]
  <2>1. \A c \in Named(force) : followed'.defined[c] \in 1 .. (followed.generation + 1)
    BY <1>3
  <2>2. followed'.defined = [c \in Named(force) |-> followed'.defined[c]]
    BY <1>2 DEF definedFrom
  <2> QED BY <2>1, <2>2
<1>5. FollowedFits'
  <2>1. FollowingTypeOK'
    BY <1>1, <1>2, <1>4
  <2>2. followed'.generation = followed'.config.n + 1
    BY <1>1, <1>2 DEF Config
  <2> QED BY <1>1, <1>2, <2>1, <2>2
<1>6. ASSUME NEW r, ReadRight(r) PROVE ReadRight(r)'
  <2>1. r.stay \in 1..r.generation /\ r.generation \in 1..followed'.generation
    BY <1>2, <1>6 DEF ReadRight
  <2>2. ASSUME stands(Collector, r.generation)'
        PROVE  r.def = force.defs[Collector] /\ r.stay = followed'.defined[Collector]
    <3>1. Collector \in Named(force) /\ followed'.defined[Collector] <= r.generation
      BY <1>3, <2>2 DEF stands
    <3>2. followed.config.defs[Collector] = force.defs[Collector]
      <4>1. r.generation \in Int /\ r.generation < followed.generation + 1
        BY <1>6 DEF ReadRight
      <4> QED BY <1>3, <3>1, <4>1
    <3>3. stands(Collector, r.generation)
      BY <1>3, <3>1, <3>2 DEF stands, Named
    <3> QED BY <1>3, <1>6, <3>1, <3>2, <3>3 DEF ReadRight
  <2> QED BY <1>2, <1>6, <2>1, <2>2 DEF ReadRight
<1> QED BY <1>2, <1>3, <1>5, <1>6

LEMMA ReloadKeeps ==
  ASSUME SharingInv, NEW defs \in [Names -> Definitions \cup {None}], Reload(defs)
  PROVE  SharingInv'
<1> USE DEF SharingInv
<1>1. /\ force' = [n |-> force.n + 1, defs |-> defs] /\ force.n < MaxReloads
      /\ followed.config = force /\ followed' = followed
      /\ UNCHANGED <<probes, flights, trip, entry>>
  BY DEF Reload, Install
<1>2. FollowedFits'
  BY <1>1, FollowingAssumption DEF FollowedFits, FollowingTypeOK, Config
<1>3. \A t \in Trips : WaitOn(t)' = WaitOn(t)
  BY <1>1 DEF WaitOn, probes
<1>4. Typed' /\ ProbesFit' /\ TripsFit'
  BY <1>1, <1>3 DEF Typed, ProbesFit, TripsFit, ReadRight, stands, probes
<1>5. FlightsGoOn' /\ CancelledWhenAlone' /\ AskedOnce' /\ NeverOlder' /\ NothingRetired'
  BY <1>1 DEF FlightsGoOn, CancelledWhenAlone, AskedOnce, Going, Fresh, Held, NeverOlder,
              NothingRetired, probes
<1> QED BY <1>2, <1>4, <1>5

LEMMA FollowKeeps == SharingInv /\ FollowReload => SharingInv'
<1> SUFFICES ASSUME SharingInv, FollowReload PROVE SharingInv'
  OBVIOUS
<1> USE DEF SharingInv
<1>1. /\ Follow /\ UNCHANGED <<probes, flights, trip>>
      /\ entry' = IF Collector \in stale(followed, followed')
                    THEN [d \in Definitions |-> None] ELSE entry
  BY DEF FollowReload
<1>2. /\ FollowedFits'
      /\ followed'.config = force
      /\ \A c \in Named(force) : followed.config.defs[c] = force.defs[c] =>
           followed'.defined[c] = followed.defined[c]
      /\ \A r : ReadRight(r) => ReadRight(r)'
  BY <1>1, RightStays
<1>3. \A d \in Definitions : entry'[d] \in {None, entry[d]}
  BY <1>1 DEF Typed
<1>4. Typed'
  BY <1>1 DEF Typed, probes
<1>5. ProbesFit' /\ TripsFit'
  <2>1. \A t \in Trips : WaitOn(t)' = WaitOn(t)
    BY <1>1 DEF WaitOn, probes
  <2>2. ProbesFit'
    BY <1>1, <1>2 DEF ProbesFit, probes
  <2>3. TripsFit'
    BY <1>1, <1>2, <2>1 DEF TripsFit
  <2> QED BY <2>2, <2>3
<1>6. FlightsGoOn' /\ CancelledWhenAlone' /\ NeverOlder'
  BY <1>1 DEF FlightsGoOn, CancelledWhenAlone, Going, NeverOlder, probes
<1>7. AskedOnce'
  <2>1. \A t \in Going : trip[t].def \in Definitions
    BY Blanks DEF Going, TripsFit, ReadRight
  <2>2. Going' = Going
    BY <1>1 DEF Going
  <2> QED BY <1>1, <1>3, <2>1, <2>2 DEF AskedOnce, Fresh
<1>8. NothingRetired'
  <2> SUFFICES ASSUME NEW d \in Definitions, Held(d)'
               PROVE  /\ Collector \in Named(force)
                      /\ d = force.defs[Collector] /\ entry'[d].stay = followed'.defined[Collector]
    BY <1>2 DEF NothingRetired
  <2>1. Collector \notin stale(followed, followed') /\ entry' = entry /\ Held(d)
    BY <1>1 DEF Held
  <2>2. /\ Collector \in Named(followed.config) /\ d = followed.config.defs[Collector]
        /\ entry[d].stay = followed.defined[Collector]
    BY <2>1 DEF NothingRetired
  <2>3. force.defs[Collector] = d /\ Collector \in Named(force)
    BY <1>2, <2>1, <2>2, FollowingAssumption DEF stale, Named
  <2> QED BY <1>2, <2>1, <2>2, <2>3
<1> QED BY <1>2, <1>4, <1>5, <1>6, <1>7, <1>8

-----------------------------------------------------------------------------
(* Probes. *)

\* What is cached under a definition is of the collector's stay, which is no
\* older than what was read of that definition.
LEMMA CachedIsLatest ==
  ASSUME SharingInv, NEW r, ReadRight(r), Held(r.def)
  PROVE  /\ Fetched(r.def, entry[r.def].stay) \in Answers
         /\ AnswersFor(r, Fetched(r.def, entry[r.def].stay))
<1>1. entry[r.def] \in Entries /\ entry[r.def].stay \in Nat
  BY DEF SharingInv, Typed, ReadRight, Held, Entries
<1>2. /\ Collector \in Named(followed.config) /\ entry[r.def].stay = followed.defined[Collector]
      /\ DOMAIN followed.defined = Named(followed.config)
      /\ followed.defined[Collector] \in Nat
  BY <1>1 DEF SharingInv, NothingRetired, ReadRight, FollowedFits, FollowingTypeOK
<1>3. entry[r.def].stay >= r.stay
  BY <1>1, <1>2 DEF ReadRight, stands
<1> QED BY <1>1, <1>3 DEF Fetched, Answers, AnswersFor, ReadRight

\* A step of a probe that leaves the trips, what is in flight and the cache.
LEMMA ProbeKeeps ==
  ASSUME SharingInv, NEW p \in Callers, on[p] = None,
         NEW where \in {"idle", "begun", "missed", "answered"}, NEW r \in Reads, NEW a \in Answers,
         where # "idle" => ReadRight(r),
         where = "answered" => a = Failure \/ (a.def = r.def /\ a.stay >= r.stay),
         at' = [at EXCEPT ![p] = where], read' = [read EXCEPT ![p] = r],
         answer' = [answer EXCEPT ![p] = a],
         UNCHANGED <<force, followed, on, flights, trip, entry>>
  PROVE  SharingInv'
<1> USE DEF SharingInv
<1>1. Typed'
  BY DEF Typed
<1>2. FollowedFits'
  BY DEF FollowedFits, FollowingTypeOK
<1>3. \A x : ReadRight(x)' <=> ReadRight(x)
  BY DEF ReadRight, stands
<1>4. ProbesFit'
  BY <1>3 DEF ProbesFit, Typed
<1>5. TripsFit'
  <2>1. \A t \in Trips : WaitOn(t)' = WaitOn(t)
    BY DEF WaitOn
  <2> QED BY <1>3, <2>1 DEF TripsFit
<1>6. FlightsGoOn' /\ CancelledWhenAlone' /\ AskedOnce' /\ NothingRetired'
  <2>1. Going' = Going
    BY DEF Going
  <2>2. FlightsGoOn' /\ CancelledWhenAlone'
    BY <2>1 DEF FlightsGoOn, CancelledWhenAlone
  <2>3. AskedOnce' /\ NothingRetired'
    BY <2>1 DEF AskedOnce, Fresh, Held, NothingRetired
  <2> QED BY <2>2, <2>3
<1>7. NeverOlder'
  BY DEF NeverOlder, Typed
<1> QED BY <1>1, <1>2, <1>4, <1>5, <1>6, <1>7

LEMMA BeginKeeps == ASSUME SharingInv, NEW p \in Callers, Begin(p) PROVE SharingInv'
<1> DEFINE r == [def |-> force.defs[Collector], generation |-> followed.generation,
                 stay |-> followed.defined[Collector]]
<1>1. /\ at[p] = "idle" /\ followed.config = force /\ Collector \in Named(force)
      /\ read' = [read EXCEPT ![p] = r] /\ at' = [at EXCEPT ![p] = "begun"]
      /\ UNCHANGED <<force, followed, on, answer, flights, trip, entry>>
  BY DEF Begin
<1>2. on[p] = None /\ answer[p] \in Answers /\ answer' = [answer EXCEPT ![p] = answer[p]]
  BY <1>1 DEF SharingInv, ProbesFit, Typed
<1>3. r.def \in Definitions /\ r.generation \in Nat \ {0} /\ r.stay \in 1..r.generation
  BY <1>1 DEF SharingInv, FollowedFits, FollowingTypeOK, Config, Named
<1>4. r \in Reads
  BY <1>3 DEF Reads
<1>5. ReadRight(r)
  BY <1>1, <1>3 DEF ReadRight
<1> HIDE DEF r
<1> QED BY <1>1, <1>2, <1>4, <1>5, ProbeKeeps

LEMMA LookKeeps == ASSUME SharingInv, NEW p \in Callers, Look(p) PROVE SharingInv'
<1> DEFINE d == read[p].def
<1>1. at[p] = "begun" /\ UNCHANGED <<force, followed, read, on, flights, trip, entry>>
  BY DEF Look
<1>2. /\ on[p] = None /\ answer[p] \in Answers /\ read[p] \in Reads /\ ReadRight(read[p])
      /\ read' = [read EXCEPT ![p] = read[p]]
  BY <1>1 DEF SharingInv, ProbesFit, Typed
<1>3. CASE Fresh(d)
  <2>1. /\ answer' = [answer EXCEPT ![p] = Fetched(d, entry[d].stay)]
        /\ at' = [at EXCEPT ![p] = "answered"]
    BY <1>3 DEF Look
  <2>2. Fetched(d, entry[d].stay) \in Answers /\ AnswersFor(read[p], Fetched(d, entry[d].stay))
    BY <1>2, <1>3, CachedIsLatest DEF Fresh, Held
  <2> QED BY <1>1, <1>2, <2>1, <2>2, ProbeKeeps DEF AnswersFor
<1>4. CASE ~Fresh(d)
  <2>1. at' = [at EXCEPT ![p] = "missed"] /\ answer' = [answer EXCEPT ![p] = answer[p]]
    BY <1>4 DEF Look, SharingInv, Typed
  <2> QED BY <1>1, <1>2, <2>1, ProbeKeeps
<1> QED BY <1>3, <1>4

LEMMA FinishKeeps == ASSUME SharingInv, NEW p \in Callers, Finish(p) PROVE SharingInv'
<1>1. on[p] = None
  BY DEF Finish, SharingInv, ProbesFit
<1> QED BY <1>1, Blanks, ProbeKeeps DEF Finish

\* A trip in flight goes on, and is there under one key.
LEMMA InFlight ==
  ASSUME SharingInv
  PROVE  /\ \A k \in Keys : flights[k] # None =>
              /\ flights[k] \in Trips /\ flights[k] \in Going /\ ~trip[flights[k]].cancelled
              /\ trip[flights[k]].key = k /\ trip[flights[k]] # Nothing
         /\ \A t \in Going : ~trip[t].cancelled => flights[trip[t].key] = t
         /\ \A t \in Trips : ReadRight(trip[t]) => <<trip[t].def, trip[t].stay>> \in Keys
<1> USE DEF SharingInv
<1>1. \A k \in Keys : flights[k] # None =>
              /\ flights[k] \in Trips /\ flights[k] \in Going /\ ~trip[flights[k]].cancelled
              /\ trip[flights[k]].key = k
  BY DEF FlightsGoOn, Typed
<1>2. \A t \in Going : trip[t] # Nothing
  BY Blanks DEF Going
<1>3. ASSUME NEW t \in Going, ~trip[t].cancelled PROVE flights[trip[t].key] = t
  <2>1. t \in {flights[k] : k \in Keys} \ {None}
    BY <1>3 DEF FlightsGoOn
  <2> QED BY <2>1 DEF FlightsGoOn
<1>4. ASSUME NEW r, ReadRight(r) PROVE <<r.def, r.stay>> \in Keys
  <2>1. followed.generation \in 1 .. (MaxReloads + 1)
    BY FollowingAssumption DEF FollowedFits, FollowingTypeOK, Config
  <2>2. r.stay \in 1 .. (MaxReloads + 1) /\ r.def \in Definitions
    BY <1>4, <2>1, FollowingAssumption DEF ReadRight
  <2> QED BY <2>2 DEF Keys, Generations
<1> QED BY <1>1, <1>2, <1>3, <1>4

\* A probe begins to wait for a trip, and the trip is as it was but for that, or
\* is new.
LEMMA JoinKeeps == ASSUME SharingInv, NEW p \in Callers, Join(p) PROVE SharingInv'
<1> USE DEF SharingInv
<1> DEFINE k == flightKey(p)
<1>1. /\ at[p] = "missed" /\ at' = [at EXCEPT ![p] = "waiting"]
      /\ UNCHANGED <<force, followed, read, answer, entry>>
  BY DEF Join
<1>2. /\ on[p] = None /\ ReadRight(read[p]) /\ read[p] \in Reads
  BY <1>1 DEF ProbesFit, Typed
<1>3. k = <<read[p].def, read[p].stay>> /\ read[p].stay >= 1
  BY <1>2 DEF flightKey, ReadRight
<1>4. k \in Keys
  <2>1. followed.generation \in 1 .. (MaxReloads + 1)
    BY FollowingAssumption DEF FollowedFits, FollowingTypeOK, Config
  <2> QED BY <1>2, <1>3, <2>1, FollowingAssumption DEF ReadRight, Keys, Generations
<1> HIDE DEF k
<1>5. PICK t \in Trips :
        /\ on' = [on EXCEPT ![p] = t]
        /\ \/ /\ flights[k] = t /\ UNCHANGED flights
              /\ trip' = [trip EXCEPT ![t].waiters = @ + 1]
           \/ /\ flights[k] = None /\ trip[t] = Nothing
              /\ flights' = [flights EXCEPT ![k] = t]
              /\ trip' = [trip EXCEPT ![t] =
                   [phase |-> "started", key |-> k, def |-> read[p].def,
                    generation |-> read[p].generation, stay |-> read[p].stay,
                    waiters |-> 1, cancelled |-> FALSE, result |-> Failure]]
  <2>1. flights[k] # None => flights[k] \in Trips
    BY <1>4 DEF Typed
  <2> QED BY <2>1 DEF Join, k
<1>6. on[p] # t /\ t # None
  BY <1>2, SharingAssumption
<1>7. /\ Cardinality(WaitOn(t)') = Cardinality(WaitOn(t)) + 1
      /\ Cardinality(WaitOn(t)') <= Cardinality(Callers) /\ Cardinality(WaitOn(t)) \in Nat
      /\ \A u \in Trips : u # t => WaitOn(u)' = WaitOn(u)
  <2>1. \A u \in Trips : u # on[p]
    BY <1>2, SharingAssumption
  <2> QED BY <1>5, <1>6, <2>1, OneMoreWaits
<1>8. flights[k] = t => /\ trip[t] # Nothing /\ trip[t].phase # "none" /\ ~trip[t].cancelled
                        /\ t \in Going /\ trip[t].key = k
  BY <1>4, <1>6, InFlight, Blanks DEF Going
<1>9. trip[t] = Nothing => WaitOn(t) = {}
  <2>1. ASSUME NEW q \in Callers, on[q] = t PROVE trip[t].stay >= 1
    BY <1>6, <2>1 DEF ProbesFit, ReadRight
  <2> QED BY <2>1, Blanks DEF WaitOn
<1>10. trip[t] = Nothing => Cardinality(WaitOn(t)') = 1
  BY <1>7, <1>9, FS_EmptySet
<1>11. /\ trip'[t].def = read[p].def /\ trip'[t].stay = read[p].stay /\ trip'[t].key = k
       /\ trip'[t].phase \in {"started", "fetching", "failed", "ending"}
       /\ ~trip'[t].cancelled /\ trip'[t].waiters = Cardinality(WaitOn(t)')
       /\ trip'[t] \in TripStates
       /\ ReadRight(trip'[t]) /\ AnswersFor(trip'[t], trip'[t].result)
       /\ trip'[t].phase = "fetching" => trip[t].phase = "fetching" /\ ~trip[t].cancelled
  <2>1. CASE flights[k] = t
    <3>1. trip' = [trip EXCEPT ![t].waiters = @ + 1]
      BY <1>5, <1>6, <2>1
    <3>2. trip[t] \in TripStates /\ trip[t].waiters \in Nat
      BY DEF Typed, TripStates
    <3>3. trip'[t] = [trip[t] EXCEPT !.waiters = trip[t].waiters + 1]
      BY <3>1 DEF Typed
    <3>4. /\ trip'[t] \in TripStates /\ trip'[t].waiters = trip[t].waiters + 1
          /\ trip'[t].phase = trip[t].phase /\ trip'[t].key = trip[t].key
          /\ trip'[t].def = trip[t].def /\ trip'[t].generation = trip[t].generation
          /\ trip'[t].stay = trip[t].stay /\ trip'[t].cancelled = trip[t].cancelled
          /\ trip'[t].result = trip[t].result
      BY <3>2, <3>3 DEF TripStates
    <3>5. trip[t].def = read[p].def /\ trip[t].stay = read[p].stay
      BY <1>3, <1>8, <2>1 DEF TripsFit
    <3>6. ReadRight(trip'[t]) /\ AnswersFor(trip'[t], trip'[t].result)
      BY <1>8, <2>1, <3>4 DEF TripsFit, ReadRight, AnswersFor
    <3>7. trip'[t].waiters = Cardinality(WaitOn(t)')
      BY <1>7, <1>8, <2>1, <3>4 DEF CancelledWhenAlone, WaitOn
    <3> QED BY <1>8, <2>1, <3>4, <3>5, <3>6, <3>7 DEF Going
  <2>2. CASE flights[k] # t
    <3> DEFINE new == [phase |-> "started", key |-> k, def |-> read[p].def,
                       generation |-> read[p].generation, stay |-> read[p].stay,
                       waiters |-> 1, cancelled |-> FALSE, result |-> Failure]
    <3>1. trip[t] = Nothing /\ trip' = [trip EXCEPT ![t] = new]
      BY <1>5, <2>2
    <3>2. trip'[t] = new
      BY <3>1 DEF Typed
    <3>3. new \in TripStates
      BY <1>2, <1>3, Blanks DEF TripStates, Reads, Phases, ReadRight
    <3>4. ReadRight(new) /\ AnswersFor(new, new.result)
      BY <1>2 DEF ReadRight, AnswersFor
    <3> QED BY <1>10, <3>1, <3>2, <3>3, <3>4
  <2> QED BY <2>1, <2>2
<1>12. \A u \in Trips : u # t => trip'[u] = trip[u]
  BY <1>5 DEF Typed
<1>13. \A j \in Keys : flights'[j] = IF j = k THEN t ELSE flights[j]
  BY <1>4, <1>5 DEF Typed
<1>14. \A q \in Callers : on'[q] = IF q = p THEN t ELSE on[q]
  BY <1>5 DEF Typed
<1>15. \A q \in Callers : at'[q] = IF q = p THEN "waiting" ELSE at[q]
  BY <1>1 DEF Typed
<1>16. Typed'
  <2>1. trip' \in [Trips -> TripStates]
    <3>1. DOMAIN trip' = Trips /\ trip' = [u \in Trips |-> trip'[u]]
      BY <1>5 DEF Typed
    <3> QED BY <1>11, <1>12, <3>1 DEF Typed
  <2>2. flights' \in [Keys -> Trips \cup {None}] /\ on' \in [Callers -> Trips \cup {None}]
    BY <1>5 DEF Typed
  <2> QED BY <1>1, <2>1, <2>2 DEF Typed
<1>17. FollowedFits' /\ \A x : ReadRight(x)' <=> ReadRight(x)
  BY <1>1 DEF FollowedFits, FollowingTypeOK, ReadRight, stands
<1>18. ProbesFit'
  <2>1. \A q \in Callers : q # p /\ on[q] = t => trip[t].def = trip'[t].def /\ trip[t].stay = trip'[t].stay
    <3>1. ASSUME NEW q \in Callers, on[q] = t PROVE flights[k] = t
      BY <1>5, <1>9, <3>1 DEF WaitOn
    <3> QED BY <1>3, <1>8, <1>11, <3>1 DEF TripsFit
  <2>2. ASSUME NEW q \in Callers
        PROVE  /\ at'[q] # "idle" => ReadRight(read[q])
               /\ on'[q] # None <=> at'[q] = "waiting"
    BY <1>1, <1>2, <1>6, <1>14, <1>15 DEF ProbesFit
  <2>3. ASSUME NEW q \in Callers, at'[q] = "waiting"
        PROVE  trip'[on'[q]].def = read[q].def /\ trip'[on'[q]].stay = read[q].stay
    <3>1. CASE q = p
      BY <1>11, <1>14, <3>1
    <3>2. CASE q # p
      <4>1. at[q] = "waiting" /\ on[q] \in Trips /\ on'[q] = on[q]
        BY <1>14, <1>15, <2>3, <3>2 DEF ProbesFit, Typed
      <4>2. trip[on[q]].def = read[q].def /\ trip[on[q]].stay = read[q].stay
        BY <4>1 DEF ProbesFit
      <4> QED BY <1>12, <2>1, <3>2, <4>1, <4>2
    <3> QED BY <3>1, <3>2
  <2> QED BY <1>1, <1>17, <2>2, <2>3 DEF ProbesFit
<1>19. TripsFit'
  <2>1. ASSUME NEW u \in Trips, trip'[u] # Nothing
        PROVE  /\ ReadRight(trip'[u]) /\ trip'[u].key = <<trip'[u].def, trip'[u].stay>>
               /\ AnswersFor(trip'[u], trip'[u].result)
               /\ Cardinality(WaitOn(u)') <= trip'[u].waiters /\ trip'[u].waiters <= Cardinality(Callers)
    <3>1. CASE u = t
      BY <1>3, <1>7, <1>11, <3>1
    <3>2. CASE u # t
      BY <1>7, <1>12, <2>1, <3>2 DEF TripsFit
    <3> QED BY <3>1, <3>2
  <2> QED BY <1>17, <2>1 DEF TripsFit
<1>20. FlightsGoOn'
  <2>1. \A j \in Keys : flights'[j] # None => trip'[flights'[j]].key = j
    <3>1. ASSUME NEW j \in Keys, flights[j] # None, j # k PROVE flights[j] \in Trips \ {t}
      BY <1>5, <1>8, <3>1, InFlight, Blanks
    <3> QED BY <1>11, <1>12, <1>13, <3>1, InFlight
  <2>2. ASSUME NEW u \in Trips
        PROVE  u \in {flights'[j] : j \in Keys} <=> u \in Going' /\ ~trip'[u].cancelled
    <3>1. CASE u = t
      BY <1>4, <1>11, <1>13, <3>1 DEF Going
    <3>2. CASE u # t
      <4>1. u \in {flights'[j] : j \in Keys} <=> u \in {flights[j] : j \in Keys}
        BY <1>5, <1>13, <3>2, SharingAssumption
      <4>2. u \in Going' /\ ~trip'[u].cancelled <=> u \in Going /\ ~trip[u].cancelled
        BY <1>12, <3>2 DEF Going
      <4> QED BY <4>1, <4>2, SharingAssumption DEF FlightsGoOn
    <3> QED BY <3>1, <3>2
  <2>3. \A j \in Keys : flights'[j] \in Trips \cup {None}
    BY <1>16 DEF Typed
  <2>4. {flights'[j] : j \in Keys} \ {None} = {u \in Going' : ~trip'[u].cancelled}
    BY <2>2, <2>3, SharingAssumption DEF Going
  <2> QED BY <2>1, <2>4 DEF FlightsGoOn
<1>21. CancelledWhenAlone'
  <2>1. ASSUME NEW u \in Trips, trip'[u].phase # "none"
        PROVE  /\ trip'[u].waiters = Cardinality(WaitOn(u)')
               /\ trip'[u].cancelled <=> trip'[u].waiters = 0
    <3>1. CASE u = t
      BY <1>7, <1>11, <3>1
    <3>2. CASE u # t
      BY <1>7, <1>12, <2>1, <3>2 DEF CancelledWhenAlone, WaitOn
    <3> QED BY <3>1, <3>2
  <2> QED BY <2>1 DEF CancelledWhenAlone, WaitOn
<1>22. AskedOnce'
  <2>1. ASSUME NEW u \in Trips, trip'[u].phase = "fetching", ~trip'[u].cancelled
        PROVE  /\ u \in Going /\ trip[u].phase = "fetching" /\ ~trip[u].cancelled
               /\ trip'[u].def = trip[u].def /\ trip'[u].stay = trip[u].stay
    <3>1. CASE u = t
      <4>1. trip[t] # Nothing /\ flights[k] = t
        BY <1>5, <1>11, <2>1, <3>1, Blanks
      <4> QED BY <1>3, <1>8, <1>11, <2>1, <3>1, <4>1 DEF TripsFit
    <3>2. CASE u # t
      BY <1>12, <2>1, <3>2 DEF Going
    <3> QED BY <3>1, <3>2
  <2> QED BY <1>1, <2>1 DEF AskedOnce, Fresh, Going
<1>23. NeverOlder' /\ NothingRetired'
  BY <1>1, <1>15 DEF NeverOlder, NothingRetired, Held
<1> QED BY <1>16, <1>17, <1>18, <1>19, <1>20, <1>21, <1>22, <1>23

-----------------------------------------------------------------------------
(* Trips. *)

\* Probes may join a trip in this state.
Joinable(x) == x.phase \in {"started", "fetching", "failed", "ending"} /\ ~x.cancelled

\* A trip comes to another state of its own, to be joined no more when it was
\* not to be, and is gone only when none waits for it.
Changes(t, x) ==
  /\ trip[t] # Nothing /\ trip' = [trip EXCEPT ![t] = x]
  /\ flights' \in [Keys -> Trips \cup {None}]
  /\ \A k \in Keys : flights'[k] = IF flights[k] = t /\ ~Joinable(x) THEN None ELSE flights[k]
  /\ UNCHANGED force /\ UNCHANGED followed
  /\ Joinable(x) => Joinable(trip[t])
  /\ x = Nothing => WaitOn(t)' = {}
  /\ x # Nothing =>
       /\ x.def = trip[t].def /\ x.generation = trip[t].generation
       /\ x.stay = trip[t].stay /\ x.key = trip[t].key
       /\ AnswersFor(x, x.result)
       /\ Cardinality(WaitOn(t)') <= x.waiters /\ x.waiters <= Cardinality(Callers)
  /\ x.phase # "none" =>
       x.waiters = Cardinality(WaitOn(t)') /\ (x.cancelled <=> x.waiters = 0)
  /\ \A u \in Trips : u # t => WaitOn(u)' = WaitOn(u)

LEMMA TripChanges ==
  ASSUME SharingInv, NEW t \in Trips, NEW x \in TripStates, Changes(t, x)
  PROVE  /\ trip' \in [Trips -> TripStates]
         /\ TripsFit' /\ FlightsGoOn' /\ CancelledWhenAlone'
         /\ \A u \in Trips : WaitOn(u)' # {} =>
              trip'[u].def = trip[u].def /\ trip'[u].stay = trip[u].stay
<1> USE DEF SharingInv, Changes
<1>1. trip' \in [Trips -> TripStates]
  BY DEF Typed
<1>2. \A u \in Trips : trip'[u] = IF u = t THEN x ELSE trip[u]
  BY DEF Typed
<1>3. \A r : ReadRight(r)' <=> ReadRight(r)
  BY DEF ReadRight, stands
<1>4. TripsFit'
  <2>1. ASSUME NEW u \in Trips, trip'[u] # Nothing
        PROVE  /\ ReadRight(trip'[u]) /\ trip'[u].key = <<trip'[u].def, trip'[u].stay>>
               /\ AnswersFor(trip'[u], trip'[u].result)
               /\ Cardinality(WaitOn(u)') <= trip'[u].waiters /\ trip'[u].waiters <= Cardinality(Callers)
    <3>1. CASE u = t
      BY <1>2, <2>1, <3>1 DEF TripsFit, ReadRight
    <3>2. CASE u # t
      BY <1>2, <2>1, <3>2 DEF TripsFit
    <3> QED BY <3>1, <3>2
  <2> QED BY <1>3, <2>1 DEF TripsFit
<1>5. FlightsGoOn'
  <2>1. \A u \in Trips : Joinable(trip[u]) <=> \E k \in Keys : flights[k] = u
    <3>1. \A u \in Trips : Joinable(trip[u]) <=> u \in Going /\ ~trip[u].cancelled
      BY DEF Joinable, Going
    <3>2. \A u \in Trips : u \in {flights[k] : k \in Keys} \ {None} <=> u \in Going /\ ~trip[u].cancelled
      BY DEF FlightsGoOn
    <3> QED BY <3>1, <3>2, SharingAssumption
  <2>2. \A u \in Trips : Joinable(trip'[u]) <=> \E k \in Keys : flights'[k] = u
    BY <1>2, <2>1, SharingAssumption
  <2>3. \A k \in Keys : flights'[k] # None => trip'[flights'[k]].key = k
    <3> SUFFICES ASSUME NEW k \in Keys, flights'[k] # None PROVE trip'[flights'[k]].key = k
      OBVIOUS
    <3>1. flights'[k] = flights[k] /\ flights[k] \in Trips /\ trip[flights[k]].key = k
      BY DEF Typed, FlightsGoOn
    <3>2. flights[k] = t => Joinable(x)
      BY <3>1
    <3>3. Joinable(x) => x # Nothing
      BY Blanks DEF Joinable
    <3> QED BY <1>2, <3>1, <3>2, <3>3
  <2>4. {flights'[k] : k \in Keys} \ {None} = {u \in Going' : ~trip'[u].cancelled}
    <3>1. \A k \in Keys : flights'[k] \in Trips \cup {None}
      OBVIOUS
    <3> QED BY <2>2, <3>1, SharingAssumption DEF Joinable, Going
  <2> QED BY <2>3, <2>4 DEF FlightsGoOn
<1>6. CancelledWhenAlone'
  <2>1. ASSUME NEW u \in Trips, trip'[u].phase # "none"
        PROVE  /\ trip'[u].waiters = Cardinality(WaitOn(u)')
               /\ trip'[u].cancelled <=> trip'[u].waiters = 0
    <3>1. CASE u = t
      BY <1>2, <2>1, <3>1
    <3>2. CASE u # t
      BY <1>2, <2>1, <3>2 DEF CancelledWhenAlone, WaitOn
    <3> QED BY <3>1, <3>2
  <2> QED BY <2>1 DEF CancelledWhenAlone, WaitOn
<1>7. \A u \in Trips : WaitOn(u)' # {} =>
        trip'[u].def = trip[u].def /\ trip'[u].stay = trip[u].stay
  BY <1>2
<1> QED BY <1>1, <1>4, <1>5, <1>6, <1>7

\* A probe is answered by its trip or goes away.
Parts(p, t, where, r, a, x) ==
  /\ on[p] = t /\ on' = [on EXCEPT ![p] = None]
  /\ where = "answered" => ReadRight(r) /\ (a = Failure \/ (a.def = r.def /\ a.stay >= r.stay))
  /\ \/ x = Nothing /\ trip[t].phase = "none" /\ LastOn(p)
     \/ x = trip[t] /\ trip[t].phase = "none" /\ ~LastOn(p)
     \/ x = Left(t) /\ (trip[t].phase = "none" => ~LastOn(p))
  /\ trip' = [trip EXCEPT ![t] = x] /\ flights' \in [Keys -> Trips \cup {None}]
  /\ \A k \in Keys : flights'[k] = IF flights[k] = t /\ ~Joinable(x) THEN None ELSE flights[k]
  /\ at' = [at EXCEPT ![p] = where] /\ read' = [read EXCEPT ![p] = r]
  /\ answer' = [answer EXCEPT ![p] = a]
  /\ UNCHANGED force /\ UNCHANGED followed /\ UNCHANGED entry

LEMMA PartKeeps ==
  ASSUME SharingInv, NEW p \in Callers, NEW t \in Trips, NEW where \in {"idle", "answered"},
         NEW r \in Reads, NEW a \in Answers, NEW x, Parts(p, t, where, r, a, x)
  PROVE  SharingInv'
<1> USE DEF SharingInv, Parts
<1>1. /\ Cardinality(WaitOn(t)') = Cardinality(WaitOn(t)) - 1
      /\ Cardinality(WaitOn(t)') \in Nat /\ Cardinality(WaitOn(t)) \in Nat
      /\ \A u \in Trips : u # t => WaitOn(u)' = WaitOn(u)
  BY OneLessWaits
<1>2. /\ trip[t].stay >= 1 /\ trip[t] # Nothing /\ trip[t] \in TripStates
      /\ trip[t].waiters \in Nat /\ trip[t].waiters >= 1
  <2>1. at[p] = "waiting" /\ trip[t].stay = read[p].stay /\ ReadRight(read[p])
    BY SharingAssumption DEF ProbesFit
  <2>2. trip[t].stay >= 1 /\ trip[t] # Nothing
    BY <2>1, Blanks DEF ReadRight
  <2>3. trip[t] \in TripStates /\ trip[t].waiters \in Nat
    BY DEF Typed, TripStates
  <2> QED BY <1>1, <2>2, <2>3 DEF TripsFit
<1>3. LastOn(p) => WaitOn(t)' = {}
  BY SharingAssumption DEF LastOn, WaitOn, Typed
<1>4. \/ x = Nothing /\ trip[t].phase = "none" /\ LastOn(p)
      \/ /\ x \in TripStates /\ x.def = trip[t].def /\ x.generation = trip[t].generation
         /\ x.stay = trip[t].stay /\ x.key = trip[t].key /\ x.result = trip[t].result
         /\ x.phase = trip[t].phase
         /\ \/ x.phase = "none" /\ x.waiters = trip[t].waiters
            \/ /\ x.waiters = trip[t].waiters - 1
               /\ x.cancelled <=> trip[t].cancelled \/ trip[t].waiters = 1
  <2>1. CASE x = Left(t)
    <3> DEFINE w == trip[t].waiters - 1
               b == trip[t].cancelled \/ trip[t].waiters = 1
    <3>1. w \in Nat /\ b \in BOOLEAN /\ trip[t].cancelled \in BOOLEAN
      BY <1>2 DEF TripStates
    <3>2. x = [trip[t] EXCEPT !.waiters = w, !.cancelled = b]
      BY <2>1 DEF Left
    <3> HIDE DEF w, b
    <3>3. x \in TripStates /\ x.waiters = w /\ x.cancelled = b
          /\ x.def = trip[t].def /\ x.generation = trip[t].generation
          /\ x.stay = trip[t].stay /\ x.key = trip[t].key /\ x.result = trip[t].result
          /\ x.phase = trip[t].phase
      BY <1>2, <3>1, <3>2 DEF TripStates
    <3> QED BY <3>3 DEF w, b
  <2>2. CASE x # Left(t)
    BY <1>2, <2>2
  <2> QED BY <2>1, <2>2
<1>5. x \in TripStates
  BY <1>4, Blanks
<1>6. trip[t].waiters <= Cardinality(Callers) /\ Cardinality(Callers) \in Nat
      /\ Cardinality(WaitOn(t)) <= trip[t].waiters
  BY <1>2, SharingAssumption, FS_CardinalityType DEF TripsFit
<1>7. x # Nothing =>
        /\ x.def = trip[t].def /\ x.generation = trip[t].generation
        /\ x.stay = trip[t].stay /\ x.key = trip[t].key
        /\ AnswersFor(x, x.result)
        /\ Cardinality(WaitOn(t)') <= x.waiters /\ x.waiters <= Cardinality(Callers)
  BY <1>1, <1>2, <1>4, <1>6 DEF TripsFit, AnswersFor
<1>8. x.phase # "none" =>
        /\ x.waiters = Cardinality(WaitOn(t)') /\ (x.cancelled <=> x.waiters = 0)
        /\ x.phase = trip[t].phase /\ (x.cancelled <=> trip[t].cancelled \/ trip[t].waiters = 1)
  <2>1. SUFFICES ASSUME x.phase # "none"
        PROVE  /\ x.waiters = Cardinality(WaitOn(t)') /\ (x.cancelled <=> x.waiters = 0)
               /\ x.phase = trip[t].phase /\ (x.cancelled <=> trip[t].cancelled \/ trip[t].waiters = 1)
    OBVIOUS
  <2>2. /\ x.waiters = trip[t].waiters - 1 /\ x.phase = trip[t].phase
        /\ x.cancelled <=> trip[t].cancelled \/ trip[t].waiters = 1
    BY <1>4, <2>1, Blanks
  <2>3. trip[t].waiters = Cardinality(WaitOn(t)) /\ (trip[t].cancelled <=> trip[t].waiters = 0)
    BY <2>1, <2>2 DEF CancelledWhenAlone, WaitOn
  <2> QED BY <1>1, <1>2, <2>2, <2>3
<1>9. Joinable(x) => Joinable(trip[t])
  BY <1>8 DEF Joinable
<1>10. x = Nothing => WaitOn(t)' = {}
  BY <1>2, <1>3, <1>4, Blanks
<1>11. /\ trip' \in [Trips -> TripStates]
       /\ TripsFit' /\ FlightsGoOn' /\ CancelledWhenAlone'
       /\ \A u \in Trips : WaitOn(u)' # {} =>
            trip'[u].def = trip[u].def /\ trip'[u].stay = trip[u].stay
  <2>1. Changes(t, x)
    BY <1>1, <1>2, <1>7, <1>8, <1>9, <1>10 DEF Changes
  <2> HIDE DEF SharingInv
  <2> QED BY <1>5, <2>1, TripChanges
<1>12. Typed'
  BY <1>11 DEF Typed
<1>13. FollowedFits' /\ \A y : ReadRight(y)' <=> ReadRight(y)
  BY DEF FollowedFits, FollowingTypeOK, ReadRight, stands
<1>14. ProbesFit'
  <2>1. ASSUME NEW q \in Callers, at'[q] = "waiting"
        PROVE  trip'[on'[q]].def = read'[q].def /\ trip'[on'[q]].stay = read'[q].stay
    <3>1. /\ q # p /\ at[q] = "waiting" /\ on'[q] = on[q] /\ read'[q] = read[q]
          /\ on[q] # None /\ on[q] \in Trips \cup {None}
      BY <2>1 DEF Typed, ProbesFit
    <3>2. PICK u \in Trips : on[q] = u
      BY <3>1
    <3>3. trip[u].def = read[q].def /\ trip[u].stay = read[q].stay
      BY <3>1, <3>2 DEF ProbesFit
    <3>4. q \in WaitOn(u)'
      BY <3>1, <3>2 DEF WaitOn
    <3>5. trip'[u].def = trip[u].def /\ trip'[u].stay = trip[u].stay
      BY <1>11, <3>4
    <3> QED BY <3>1, <3>2, <3>3, <3>5
  <2>2. ASSUME NEW q \in Callers
        PROVE  /\ at'[q] # "idle" => ReadRight(read'[q])
               /\ on'[q] # None <=> at'[q] = "waiting"
    BY SharingAssumption DEF Typed, ProbesFit
  <2> QED BY <1>13, <2>1, <2>2 DEF ProbesFit
<1>15. AskedOnce'
  <2>1. ASSUME NEW u \in Trips, trip'[u].phase = "fetching", ~trip'[u].cancelled
        PROVE  /\ u \in Going /\ trip[u].phase = "fetching" /\ ~trip[u].cancelled
               /\ trip'[u].def = trip[u].def /\ trip'[u].stay = trip[u].stay
    <3>1. CASE u = t
      <4>1. trip'[u] = x /\ x.phase # "none"
        BY <2>1, <3>1 DEF Typed
      <4>2. x # Nothing
        BY <4>1, Blanks
      <4> QED BY <1>4, <1>8, <2>1, <3>1, <4>1, <4>2 DEF Going
    <3>2. CASE u # t
      <4>1. trip'[u] = trip[u]
        BY <3>2 DEF Typed
      <4> QED BY <2>1, <4>1 DEF Going
    <3> QED BY <3>1, <3>2
  <2> QED BY <2>1 DEF AskedOnce, Fresh, Going
<1>16. NeverOlder'
  BY DEF NeverOlder, Typed
<1>17. NothingRetired'
  BY DEF NothingRetired, Held
<1> QED BY <1>11, <1>12, <1>13, <1>14, <1>15, <1>16, <1>17

LEMMA AnswerKeeps == ASSUME SharingInv, NEW p \in Callers, Answer(p) PROVE SharingInv'
<1> USE DEF SharingInv
<1>1. at[p] = "waiting" /\ on[p] # None /\ on[p] \in Trips \cup {None}
  BY DEF Answer, ProbesFit, Typed
<1>2. PICK t \in Trips : on[p] = t
  BY <1>1
<1>0. PICK x, a : x = (IF LastOn(p) THEN Nothing ELSE trip[t]) /\ a = trip[t].result
  OBVIOUS
<1>3. /\ trip[t].phase = "none" /\ trip' = [trip EXCEPT ![t] = x]
      /\ at' = [at EXCEPT ![p] = "answered"] /\ answer' = [answer EXCEPT ![p] = a]
      /\ on' = [on EXCEPT ![p] = None]
      /\ UNCHANGED <<force, followed, read, flights, entry>>
  BY <1>0, <1>2 DEF Answer
<1>4. /\ read[p] \in Reads /\ ReadRight(read[p]) /\ trip[t] \in TripStates
      /\ trip[t].def = read[p].def /\ trip[t].stay = read[p].stay
  BY <1>1, <1>2 DEF ProbesFit, Typed
<1>5. trip[t] # Nothing
  BY <1>4, Blanks DEF ReadRight
<1>6. a \in Answers /\ (a = Failure \/ (a.def = read[p].def /\ a.stay >= read[p].stay))
  BY <1>0, <1>4, <1>5 DEF TripsFit, AnswersFor, TripStates
<1>7. \A k \in Keys : flights[k] # t
  BY <1>3, InFlight, SharingAssumption DEF Going
<1>8. /\ flights' \in [Keys -> Trips \cup {None}] /\ read' = [read EXCEPT ![p] = read[p]]
      /\ \A k \in Keys : flights'[k] = IF flights[k] = t /\ ~Joinable(x) THEN None ELSE flights[k]
  BY <1>3, <1>7 DEF Typed
<1>9. \/ x = Nothing /\ trip[t].phase = "none" /\ LastOn(p)
      \/ x = trip[t] /\ trip[t].phase = "none" /\ ~LastOn(p)
  BY <1>0, <1>3
<1>10. Parts(p, t, "answered", read[p], a, x)
  BY <1>2, <1>3, <1>4, <1>6, <1>8, <1>9 DEF Parts
<1> HIDE DEF SharingInv
<1> QED BY <1>4, <1>6, <1>10, PartKeeps

LEMMA LeaveKeeps == ASSUME SharingInv, NEW p \in Callers, Leave(p) PROVE SharingInv'
<1> USE DEF SharingInv
<1>1. at[p] = "waiting" /\ on[p] # None /\ on[p] \in Trips \cup {None}
  BY DEF Leave, ProbesFit, Typed
<1>2. PICK t \in Trips : on[p] = t
  BY <1>1
<1> DEFINE x == IF trip[t].phase = "none" /\ LastOn(p) THEN Nothing ELSE Left(t)
<1>3. /\ trip' = [trip EXCEPT ![t] = x]
      /\ at' = [at EXCEPT ![p] = "idle"] /\ read' = [read EXCEPT ![p] = Unread]
      /\ on' = [on EXCEPT ![p] = None]
      /\ flights' = [k \in Keys |-> IF flights[k] = t /\ trip[t].waiters = 1
                                       THEN None ELSE flights[k]]
      /\ UNCHANGED <<force, followed, answer, entry>>
  BY <1>2 DEF Leave, Typed
<1>4. trip[t] \in TripStates
  BY DEF Typed
<1>5. ASSUME NEW k \in Keys, flights[k] = t
      PROVE  ~Joinable(x) <=> trip[t].waiters = 1
  <2>1. t \in Going /\ ~trip[t].cancelled
    BY <1>5, InFlight, SharingAssumption
  <2>2. x = Left(t)
    BY <2>1 DEF Going
  <2>3. x.phase = trip[t].phase /\ x.cancelled = (trip[t].cancelled \/ trip[t].waiters = 1)
    BY <1>4, <2>2 DEF Left, TripStates
  <2> QED BY <2>1, <2>3 DEF Joinable, Going
<1>6. /\ flights' \in [Keys -> Trips \cup {None}]
      /\ \A k \in Keys : flights'[k] = IF flights[k] = t /\ ~Joinable(x) THEN None ELSE flights[k]
  <2>1. \A k \in Keys : flights'[k] = IF flights[k] = t /\ trip[t].waiters = 1
                                         THEN None ELSE flights[k]
    BY <1>3
  <2>2. flights' \in [Keys -> Trips \cup {None}]
    BY <1>3 DEF Typed
  <2> HIDE DEF x
  <2> QED BY <1>5, <2>1, <2>2
<1>7. /\ answer[p] \in Answers /\ answer' = [answer EXCEPT ![p] = answer[p]]
  BY <1>3 DEF Typed
<1>8. \/ x = Nothing /\ trip[t].phase = "none" /\ LastOn(p)
      \/ x = Left(t) /\ (trip[t].phase = "none" => ~LastOn(p))
  OBVIOUS
<1> HIDE DEF x
<1>9. Parts(p, t, "idle", Unread, answer[p], x)
  BY <1>2, <1>3, <1>6, <1>7, <1>8 DEF Parts
<1> HIDE DEF SharingInv
<1> QED BY <1>7, <1>9, Blanks, PartKeeps

-----------------------------------------------------------------------------

\* The probes that wait for a trip wait on while it comes to another state, and
\* what is cached may change with it.
LEMMA WaitsOn ==
  ASSUME SharingInv, NEW t \in Trips, NEW x \in TripStates, Changes(t, x), UNCHANGED probes,
         entry' \in [Definitions -> Entries \cup {None}], AskedOnce', NothingRetired'
  PROVE  SharingInv'
<1>1. /\ trip' \in [Trips -> TripStates]
      /\ TripsFit' /\ FlightsGoOn' /\ CancelledWhenAlone'
      /\ \A u \in Trips : WaitOn(u)' # {} =>
           trip'[u].def = trip[u].def /\ trip'[u].stay = trip[u].stay
  BY TripChanges
<1> USE DEF SharingInv
<1>2. UNCHANGED force /\ UNCHANGED followed /\ flights' \in [Keys -> Trips \cup {None}]
  BY DEF Changes
<1>3. Typed'
  BY <1>1, <1>2 DEF Typed, probes
<1>4. FollowedFits' /\ \A y : ReadRight(y)' <=> ReadRight(y)
  BY <1>2 DEF FollowedFits, FollowingTypeOK, ReadRight, stands
<1>5. ProbesFit'
  <2>1. ASSUME NEW q \in Callers, at[q] = "waiting"
        PROVE  trip'[on[q]].def = read[q].def /\ trip'[on[q]].stay = read[q].stay
    <3>1. on[q] \in Trips \cup {None} /\ on[q] # None
      BY <2>1 DEF Typed, ProbesFit
    <3>2. PICK u \in Trips : on[q] = u
      BY <3>1
    <3>3. q \in WaitOn(u)'
      BY <3>2 DEF WaitOn, probes
    <3> QED BY <1>1, <2>1, <3>2, <3>3 DEF ProbesFit
  <2> QED BY <1>4, <2>1 DEF ProbesFit, probes
<1>6. NeverOlder'
  BY DEF NeverOlder, probes
<1> QED BY <1>1, <1>3, <1>4, <1>5, <1>6

\* A trip with a goroutine comes to another phase of it.
Steps(t, phase, result) ==
  /\ trip[t].phase # "none" /\ AnswersFor(trip[t], result)
  /\ trip' = [trip EXCEPT ![t].phase = phase, ![t].result = result]
  /\ phase = "closing" \/ trip[t].phase \in {"started", "fetching", "failed", "ending"}
  /\ flights' \in [Keys -> Trips \cup {None}]
  /\ \A k \in Keys : flights'[k] = IF flights[k] = t /\ phase = "closing" THEN None ELSE flights[k]
  /\ UNCHANGED force /\ UNCHANGED followed /\ UNCHANGED probes
  /\ entry' \in [Definitions -> Entries \cup {None}]

LEMMA StepsKeep ==
  ASSUME SharingInv, NEW t \in Trips, NEW phase \in Phases \ {"none"}, NEW result \in Answers,
         Steps(t, phase, result), AskedOnce', NothingRetired'
  PROVE  SharingInv'
<1> USE DEF SharingInv, Steps
<1> DEFINE x == [trip[t] EXCEPT !.phase = phase, !.result = result]
<1>1. trip[t] \in TripStates /\ trip[t] # Nothing
  BY Blanks DEF Typed
<1>2. /\ x \in TripStates /\ x.phase = phase /\ x.result = result
      /\ x.def = trip[t].def /\ x.generation = trip[t].generation
      /\ x.stay = trip[t].stay /\ x.key = trip[t].key
      /\ x.waiters = trip[t].waiters /\ x.cancelled = trip[t].cancelled
  BY <1>1 DEF TripStates
<1>3. trip' = [trip EXCEPT ![t] = x]
  BY DEF Typed
<1> HIDE DEF x
<1>4. \A u \in Trips : WaitOn(u)' = WaitOn(u)
  BY DEF WaitOn, probes
<1>5. x # Nothing /\ x.phase # "none"
  BY <1>2, Blanks
<1>6. Cardinality(WaitOn(t)') <= x.waiters /\ x.waiters <= Cardinality(Callers)
      /\ AnswersFor(x, x.result)
  BY <1>1, <1>2, <1>4 DEF TripsFit, AnswersFor
<1>7. x.waiters = Cardinality(WaitOn(t)') /\ (x.cancelled <=> x.waiters = 0)
  BY <1>2, <1>4 DEF CancelledWhenAlone, WaitOn
<1>8. \A k \in Keys : flights'[k] = IF flights[k] = t /\ ~Joinable(x) THEN None ELSE flights[k]
  <2>1. ASSUME NEW k \in Keys, flights[k] = t PROVE Joinable(x) <=> phase # "closing"
    <3>1. t \in Going /\ ~trip[t].cancelled
      BY <2>1, InFlight, SharingAssumption
    <3> QED BY <1>2, <3>1 DEF Joinable, Phases
  <2> QED BY <2>1
<1>9. Joinable(x) => Joinable(trip[t])
  BY <1>2 DEF Joinable
<1>10. Changes(t, x)
  BY <1>1, <1>2, <1>3, <1>4, <1>5, <1>6, <1>7, <1>8, <1>9 DEF Changes
<1> HIDE DEF SharingInv, Steps
<1> QED BY <1>2, <1>10, WaitsOn DEF Steps

\* A trip that does not come to fetch what is cached, and leaves the cache.
LEMMA AloneKeeps ==
  ASSUME SharingInv, NEW t \in Trips, NEW phase \in Phases \ {"none"}, NEW result \in Answers,
         Steps(t, phase, result), UNCHANGED entry,
         phase = "fetching" => ~Fresh(trip[t].def)
  PROVE  SharingInv'
<1>1. \A u \in Trips :
        /\ u # t => trip'[u] = trip[u]
        /\ trip'[t].phase = phase /\ trip'[t].def = trip[t].def
  BY DEF Steps, SharingInv, Typed, TripStates
<1>2. AskedOnce'
  <2>1. ASSUME NEW u \in Trips, trip'[u].phase = "fetching", ~trip'[u].cancelled, Fresh(trip'[u].def)
        PROVE  entry[trip'[u].def].stay # trip'[u].stay \/ entry[trip'[u].def].unwatched
    BY <1>1, <2>1 DEF SharingInv, AskedOnce, Going
  <2> QED BY <2>1 DEF AskedOnce, Fresh, Going
<1>3. NothingRetired'
  BY DEF SharingInv, NothingRetired, Held, Steps
<1> QED BY <1>2, <1>3, StepsKeep

\* Only such trips take these steps, to which they move as Moves says.
LEMMA MovesStep ==
  ASSUME SharingInv, NEW t \in Trips, NEW phase \in Phases \ {"none", "closing"},
         NEW result \in Answers, AnswersFor(trip[t], result), Moves(t, phase, result),
         trip[t].phase \in {"started", "fetching", "failed", "ending"},
         entry' \in [Definitions -> Entries \cup {None}]
  PROVE  Steps(t, phase, result)
BY DEF Moves, Steps, SharingInv, Typed

LEMMA TripRight ==
  ASSUME SharingInv, NEW t \in Trips, trip[t].phase # "none"
  PROVE  /\ trip[t] \in TripStates /\ trip[t] # Nothing /\ ReadRight(trip[t])
         /\ AnswersFor(trip[t], trip[t].result) /\ trip[t].result \in Answers
         /\ Failure \in Answers /\ AnswersFor(trip[t], Failure)
         /\ Fetched(trip[t].def, trip[t].stay) \in Answers
         /\ AnswersFor(trip[t], Fetched(trip[t].def, trip[t].stay))
<1>1. trip[t] \in TripStates /\ trip[t] # Nothing
  BY Blanks DEF SharingInv, Typed
<1>2. ReadRight(trip[t]) /\ AnswersFor(trip[t], trip[t].result)
  BY <1>1 DEF SharingInv, TripsFit
<1>3. Fetched(trip[t].def, trip[t].stay) \in Answers
      /\ AnswersFor(trip[t], Fetched(trip[t].def, trip[t].stay))
  BY <1>1 DEF Fetched, Answers, AnswersFor, TripStates
<1> QED BY <1>1, <1>2, <1>3, Blanks DEF AnswersFor, TripStates

LEMMA TripLookKeeps == ASSUME SharingInv, NEW t \in Trips, TripLook(t) PROVE SharingInv'
<1> DEFINE d == trip[t].def
           cached == Fetched(d, entry[d].stay)
<1>1. /\ trip[t].phase = "started" /\ UNCHANGED entry
      /\ \/ Fresh(d) /\ Moves(t, "ending", cached)
         \/ ~Fresh(d) /\ Moves(t, "fetching", Failure)
  BY DEF TripLook
<1>2. /\ ReadRight(trip[t]) /\ Failure \in Answers /\ AnswersFor(trip[t], Failure)
      /\ entry' \in [Definitions -> Entries \cup {None}]
  BY <1>1, TripRight DEF SharingInv, Typed
<1>3. CASE Fresh(d) /\ Moves(t, "ending", cached)
  <2>1. cached \in Answers /\ AnswersFor(trip[t], cached)
    BY <1>2, <1>3, CachedIsLatest DEF Fresh, Held
  <2> HIDE DEF cached
  <2>2. Steps(t, "ending", cached)
    BY <1>1, <1>2, <1>3, <2>1, MovesStep DEF Phases
  <2> QED BY <1>1, <2>1, <2>2, AloneKeeps DEF Phases
<1>4. CASE ~Fresh(d) /\ Moves(t, "fetching", Failure)
  <2>1. Steps(t, "fetching", Failure)
    BY <1>1, <1>2, <1>4, MovesStep DEF Phases
  <2> QED BY <1>1, <1>2, <1>4, <2>1, AloneKeeps DEF Phases
<1> QED BY <1>1, <1>3, <1>4

LEMMA TripFailsKeeps == ASSUME SharingInv, NEW t \in Trips, TripFails(t) \/ TripEnds(t) PROVE SharingInv'
<1>1. /\ trip[t].phase = "fetching" /\ UNCHANGED entry
      /\ Moves(t, "failed", Failure) \/ Moves(t, "ending", Failure)
  BY DEF TripFails, TripEnds
<1>2. /\ Failure \in Answers /\ AnswersFor(trip[t], Failure)
      /\ entry' \in [Definitions -> Entries \cup {None}]
  BY <1>1, TripRight DEF SharingInv, Typed
<1>3. Steps(t, "failed", Failure) \/ Steps(t, "ending", Failure)
  BY <1>1, <1>2, MovesStep DEF Phases
<1> QED BY <1>1, <1>2, <1>3, AloneKeeps DEF Phases

LEMMA TripStaleKeeps == ASSUME SharingInv, NEW t \in Trips, TripStale(t) PROVE SharingInv'
<1> DEFINE d == trip[t].def
           result == IF Held(d) THEN Fetched(d, entry[d].stay) ELSE Failure
<1>1. trip[t].phase = "failed" /\ Moves(t, "ending", result) /\ UNCHANGED entry
  BY DEF TripStale
<1>2. result \in Answers /\ AnswersFor(trip[t], result)
  BY <1>1, TripRight, CachedIsLatest
<1>3. entry' \in [Definitions -> Entries \cup {None}]
  BY <1>1 DEF SharingInv, Typed
<1> HIDE DEF result
<1>4. Steps(t, "ending", result)
  BY <1>1, <1>2, <1>3, MovesStep DEF Phases
<1> QED BY <1>1, <1>2, <1>4, AloneKeeps DEF Phases

LEMMA UnmapKeeps == ASSUME SharingInv, NEW t \in Trips, Unmap(t) PROVE SharingInv'
<1> DEFINE result == trip[t].result
<1>1. /\ trip[t].phase = "ending" /\ trip' = [trip EXCEPT ![t].phase = "closing"]
      /\ flights' = [k \in Keys |-> IF flights[k] = t THEN None ELSE flights[k]]
      /\ UNCHANGED <<force, followed, probes, entry>>
  BY DEF Unmap
<1>2. result \in Answers /\ AnswersFor(trip[t], result) /\ trip[t] \in TripStates
  BY <1>1, TripRight
<1>3. trip' = [trip EXCEPT ![t].phase = "closing", ![t].result = result]
  <2>1. [trip[t] EXCEPT !.phase = "closing"]
           = [trip[t] EXCEPT !.phase = "closing", !.result = result]
    BY <1>2 DEF TripStates
  <2> QED BY <1>1, <2>1 DEF SharingInv, Typed
<1> HIDE DEF result
<1>4. Steps(t, "closing", result)
  BY <1>1, <1>2, <1>3 DEF Steps, SharingInv, Typed
<1> QED BY <1>1, <1>2, <1>4, AloneKeeps DEF Phases

\* What is cached as a trip succeeds was made as its collector stands, and no
\* other trip that probes may join asks for it.
LEMMA TripSucceedsKeeps == ASSUME SharingInv, NEW t \in Trips, TripSucceeds(t) PROVE SharingInv'
<1> DEFINE d == trip[t].def
           got == Fetched(d, trip[t].stay)
           new == [age |-> "fresh", stay |-> trip[t].stay, unwatched |-> trip[t].cancelled]
<1>1. trip[t].phase = "fetching" /\ Moves(t, "ending", got) /\ PutFor(t)
  BY DEF TripSucceeds
<1>2. /\ trip[t] \in TripStates /\ trip[t] # Nothing /\ ReadRight(trip[t])
      /\ got \in Answers /\ AnswersFor(trip[t], got)
  BY <1>1, TripRight
<1>3. d \in Definitions /\ new \in Entries
  BY <1>2 DEF ReadRight, Entries, TripStates
<1>4. entry' \in [Definitions -> Entries \cup {None}]
  <2> HIDE DEF new, d
  <2>1. UNCHANGED entry \/ entry' = [entry EXCEPT ![d] = new]
    BY <1>1 DEF PutFor, new, d
  <2> QED BY <1>3, <2>1 DEF SharingInv, Typed
<1> HIDE DEF got
<1>5. Steps(t, "ending", got)
  BY <1>1, <1>2, <1>4, MovesStep DEF Phases
<1>6. CASE ~stands(Collector, trip[t].generation)
  <2>1. UNCHANGED entry
    BY <1>1, <1>6 DEF PutFor
  <2> QED BY <1>2, <1>5, <2>1, AloneKeeps DEF Phases
<1>7. CASE stands(Collector, trip[t].generation)
  <2>1. entry' = [entry EXCEPT ![d] = new]
    BY <1>1, <1>7 DEF PutFor
  <2>2. /\ Collector \in Named(followed.config) /\ d = followed.config.defs[Collector]
        /\ trip[t].stay = followed.defined[Collector]
    BY <1>2, <1>7 DEF ReadRight, stands, SharingInv, FollowedFits, FollowingTypeOK
  <2>3. \A e \in Definitions : entry'[e] = IF e = d THEN new ELSE entry[e]
    BY <1>3, <2>1 DEF SharingInv, Typed
  <2>4. NothingRetired'
    BY <2>2, <2>3, <1>5 DEF SharingInv, NothingRetired, Held, Steps
  <2>5. trip'[t].phase = "ending" /\ \A u \in Trips : u # t => trip'[u] = trip[u]
    BY <1>5 DEF Steps, SharingInv, Typed
  <2>6. ASSUME NEW u \in Trips, u # t, trip[u].phase = "fetching", ~trip[u].cancelled,
               trip[u].def = d, trip[u].stay = trip[t].stay
        PROVE  trip[t].cancelled
    <3>1. ReadRight(trip[u]) /\ trip[u].key = <<d, trip[t].stay>> /\ u \in Going
      BY <2>6, TripRight DEF SharingInv, TripsFit, Going
    <3>2. trip[t].key = <<d, trip[t].stay>> /\ t \in Going
      BY <1>1, <1>2 DEF SharingInv, TripsFit, Going
    <3>3. trip[u].key = trip[t].key
      BY <3>1, <3>2
    <3> QED BY <2>6, <3>1, <3>2, <3>3, InFlight
  <2>7. AskedOnce'
    <3>1. ASSUME NEW u \in Trips, trip'[u].phase = "fetching", ~trip'[u].cancelled,
                 entry'[trip'[u].def] # None, entry'[trip'[u].def].age = "fresh"
          PROVE  entry'[trip'[u].def].stay # trip'[u].stay \/ entry'[trip'[u].def].unwatched
      <4>1. u # t /\ trip'[u] = trip[u]
        BY <2>5, <3>1
      <4>2. trip[u].def \in Definitions
        BY <3>1, <4>1, TripRight DEF ReadRight
      <4>3. CASE trip[u].def = d
        BY <2>3, <2>6, <3>1, <4>1, <4>2, <4>3
      <4>4. CASE trip[u].def # d
        <5>1. entry'[trip[u].def] = entry[trip[u].def]
          BY <2>3, <4>2, <4>4
        <5> QED BY <3>1, <4>1, <5>1 DEF SharingInv, AskedOnce, Fresh, Going
      <4> QED BY <4>3, <4>4
    <3> QED BY <3>1 DEF AskedOnce, Fresh, Going
  <2> QED BY <1>2, <1>5, <2>4, <2>7, StepsKeep DEF Phases
<1> QED BY <1>6, <1>7

LEMMA CloseKeeps == ASSUME SharingInv, NEW t \in Trips, Close(t) PROVE SharingInv'
<1> DEFINE over == [trip[t] EXCEPT !.phase = "none", !.cancelled = TRUE]
           x == IF trip[t].waiters = 0 THEN Nothing ELSE over
<1>1. /\ trip[t].phase = "closing" /\ trip' = [trip EXCEPT ![t] = x]
      /\ UNCHANGED <<force, followed, probes, flights, entry>>
  BY DEF Close
<1>2. /\ trip[t] \in TripStates /\ trip[t] # Nothing /\ AnswersFor(trip[t], trip[t].result)
  BY <1>1, TripRight
<1>3. /\ over \in TripStates /\ over.phase = "none" /\ over.result = trip[t].result
      /\ over.def = trip[t].def /\ over.generation = trip[t].generation
      /\ over.stay = trip[t].stay /\ over.key = trip[t].key /\ over.waiters = trip[t].waiters
  BY <1>2 DEF TripStates, Phases
<1>4. x = Nothing \/ x = over
  OBVIOUS
<1>5. trip[t].waiters = 0 => WaitOn(t) = {}
  <2>1. trip[t].waiters = Cardinality(WaitOn(t))
    BY <1>1 DEF SharingInv, CancelledWhenAlone, WaitOn
  <2>2. IsFiniteSet(WaitOn(t))
    BY SharingAssumption, FS_Subset DEF WaitOn
  <2> QED BY <2>1, <2>2, FS_EmptySet
<1>6. /\ x = Nothing => WaitOn(t) = {}
      /\ x # Nothing => x = over
  <2>1. over = Nothing => trip[t].waiters = 0
    BY <1>3 DEF Nothing
  <2> QED BY <1>5, <2>1
<1>7. x \in TripStates /\ x.phase = "none"
  BY <1>3, <1>4, Blanks
<1> HIDE DEF x, over
<1>8. \A u \in Trips : WaitOn(u)' = WaitOn(u)
  BY <1>1 DEF WaitOn, probes
<1>9. /\ flights' \in [Keys -> Trips \cup {None}]
      /\ \A k \in Keys : flights'[k] = IF flights[k] = t /\ ~Joinable(x) THEN None ELSE flights[k]
  <2>1. \A k \in Keys : flights[k] # t
    BY <1>1, InFlight, SharingAssumption DEF Going
  <2> QED BY <1>1, <2>1 DEF SharingInv, Typed
<1>10. ~Joinable(x)
  BY <1>7 DEF Joinable
<1>11. x # Nothing => /\ AnswersFor(x, x.result) /\ x.waiters <= Cardinality(Callers)
                      /\ Cardinality(WaitOn(t)') <= x.waiters
  BY <1>2, <1>3, <1>6, <1>8 DEF SharingInv, TripsFit, AnswersFor
<1>12. Changes(t, x)
  BY <1>1, <1>2, <1>3, <1>6, <1>7, <1>8, <1>9, <1>10, <1>11 DEF Changes
<1>13. AskedOnce' /\ NothingRetired'
  <2>1. ASSUME NEW u \in Trips, trip'[u].phase = "fetching" PROVE trip'[u] = trip[u]
    BY <1>1, <1>7, <2>1 DEF SharingInv, Typed
  <2>2. AskedOnce'
    BY <1>1, <2>1 DEF SharingInv, AskedOnce, Fresh, Going
  <2> QED BY <1>1, <2>2 DEF SharingInv, NothingRetired, Held
<1> QED BY <1>1, <1>7, <1>12, <1>13, WaitsOn DEF SharingInv, Typed

LEMMA AgeKeeps == ASSUME SharingInv, NEW d \in Definitions, Age(d) PROVE SharingInv'
<1> USE DEF SharingInv
<1> DEFINE old == [entry[d] EXCEPT !.age = "stale"]
<1>1. /\ entry[d] # None /\ entry[d] \in Entries
      /\ entry' = [entry EXCEPT ![d] = IF entry[d].age = "fresh" THEN old ELSE None]
      /\ UNCHANGED <<force, followed, probes, flights, trip>>
  BY DEF Age, Held, Typed
<1>2. old \in Entries /\ old.age = "stale" /\ old.stay = entry[d].stay
  BY <1>1 DEF Entries
<1> HIDE DEF old
<1>3. Typed'
  BY <1>1, <1>2 DEF Typed, probes
<1>4. FollowedFits' /\ \A y : ReadRight(y)' <=> ReadRight(y)
  BY <1>1 DEF FollowedFits, FollowingTypeOK, ReadRight, stands
<1>5. ProbesFit' /\ TripsFit'
  <2>1. \A t \in Trips : WaitOn(t)' = WaitOn(t)
    BY <1>1 DEF WaitOn, probes
  <2> QED BY <1>1, <1>4, <2>1 DEF ProbesFit, TripsFit, probes
<1>6. FlightsGoOn' /\ CancelledWhenAlone' /\ NeverOlder'
  BY <1>1 DEF FlightsGoOn, CancelledWhenAlone, Going, NeverOlder, probes
<1>7. \A e \in Definitions : e # d => entry'[e] = entry[e]
  BY <1>1 DEF Typed
<1>8. entry'[d] = IF entry[d].age = "fresh" THEN old ELSE None
  BY <1>1 DEF Typed
<1>9. AskedOnce'
  <2>1. ASSUME NEW u \in Trips, trip[u].phase = "fetching", ~trip[u].cancelled,
               entry'[trip[u].def] # None, entry'[trip[u].def].age = "fresh"
        PROVE  entry'[trip[u].def].stay # trip[u].stay \/ entry'[trip[u].def].unwatched
    <3>1. trip[u].def \in Definitions /\ trip[u].def # d
      BY <1>2, <1>8, <2>1, TripRight DEF ReadRight
    <3> QED BY <1>7, <2>1, <3>1 DEF AskedOnce, Fresh, Going
  <2> QED BY <1>1, <2>1 DEF AskedOnce, Fresh, Going
<1>10. NothingRetired'
  BY <1>1, <1>2, <1>7, <1>8 DEF NothingRetired, Held
<1> QED BY <1>3, <1>4, <1>5, <1>6, <1>9, <1>10

-----------------------------------------------------------------------------

LEMMA SharingStep == SharingInv /\ [Next]_vars => SharingInv'
<1> SUFFICES ASSUME SharingInv, [Next]_vars PROVE SharingInv'
  OBVIOUS
<1>1. ASSUME NEW defs \in [Names -> Definitions \cup {None}], Reload(defs) PROVE SharingInv'
  BY <1>1, ReloadKeeps
<1>2. ASSUME FollowReload PROVE SharingInv'
  BY <1>2, FollowKeeps
<1>3. ASSUME NEW p \in Callers, Begin(p) \/ Look(p) \/ Join(p) \/ Answer(p) \/ Leave(p) \/ Finish(p)
      PROVE  SharingInv'
  BY <1>3, BeginKeeps, LookKeeps, JoinKeeps, AnswerKeeps, LeaveKeeps, FinishKeeps
<1>4. ASSUME NEW t \in Trips, TripSteps(t) PROVE SharingInv'
  BY <1>4, TripLookKeeps, TripSucceedsKeeps, TripFailsKeeps, TripStaleKeeps, UnmapKeeps, CloseKeeps
     DEF TripSteps
<1>5. ASSUME NEW d \in Definitions, Age(d) PROVE SharingInv'
  BY <1>5, AgeKeeps
<1>6. ASSUME UNCHANGED vars PROVE SharingInv'
  <2> USE <1>6 DEF SharingInv, vars, probes
  <2>1. Typed' /\ FollowedFits' /\ (\A y : ReadRight(y)' <=> ReadRight(y))
    BY DEF Typed, FollowedFits, FollowingTypeOK, ReadRight, stands
  <2>2. \A t \in Trips : WaitOn(t)' = WaitOn(t)
    BY DEF WaitOn
  <2>3. ProbesFit' /\ TripsFit'
    BY <2>1, <2>2 DEF ProbesFit, TripsFit
  <2>4. FlightsGoOn' /\ CancelledWhenAlone' /\ NeverOlder'
    BY DEF FlightsGoOn, CancelledWhenAlone, Going, NeverOlder
  <2>5. AskedOnce' /\ NothingRetired'
    BY DEF AskedOnce, Fresh, Going, NothingRetired, Held
  <2> QED BY <2>1, <2>3, <2>4, <2>5
<1> QED BY <1>1, <1>2, <1>3, <1>4, <1>5, <1>6 DEF Next

LEMMA SharingInvariance == Spec => []SharingInv
BY InitialSharing, SharingStep, PTL DEF Spec

\* Every waiting probe waits for a trip that has still to tell it.
LEMMA SharingShows == SharingInv => TripsShared /\ NothingOlder
<1> SUFFICES ASSUME SharingInv PROVE TripsShared /\ NothingOlder
  OBVIOUS
<1> USE DEF SharingInv
<1>1. ASSUME NEW t \in Trips
      PROVE  /\ trip[t].phase \in {"none", "closing"} \/ t \in Going
             /\ trip[t].waiters \in 0 .. Cardinality(Callers)
             /\ trip[t].cancelled \in BOOLEAN
  <2>1. trip[t] \in TripStates
    BY DEF Typed
  <2>2. Nothing.waiters = 0 /\ Cardinality(Callers) \in Nat
    BY SharingAssumption, FS_CardinalityType DEF Nothing
  <2>3. trip[t].waiters \in 0 .. Cardinality(Callers)
    BY <2>1, <2>2 DEF TripsFit, TripStates
  <2> QED BY <2>1, <2>3 DEF TripStates, Phases, Going
<1>2. TypeOK
  BY <1>1 DEF TypeOK, Typed, FollowedFits, Held, Entries
<1>3. NoneStranded
  <2>1. ASSUME NEW p \in Callers, at[p] = "waiting" PROVE on[p] \in Trips
    BY <2>1 DEF ProbesFit, Typed
  <2> QED BY <1>1, <2>1 DEF NoneStranded
<1> QED BY <1>2, <1>3 DEF TripsShared, NothingOlder

\* Identical probes share a trip that goes on as long as one of them waits for
\* it, and for no longer; what is in flight is what goes on, so that none joins
\* a cancelled trip and a key has one; and the target is not asked again for
\* what the cache has meanwhile (probeflight.go).
THEOREM TripsAlwaysShared == Spec => []TripsShared
<1>1. SharingInv => TripsShared
  BY SharingShows
<1> QED BY <1>1, SharingInvariance, PTL

\* No probe is answered with what another definition of its collector made, or
\* made before its stay in the configuration, and nothing of such is cached,
\* however reloads fall between the steps of probes and trips (cache.go).
THEOREM NothingOlderAnswers == Spec => []NothingOlder
<1>1. SharingInv => NothingOlder
  BY SharingShows
<1> QED BY <1>1, SharingInvariance, PTL

-----------------------------------------------------------------------------
(* What is remembered of failing targets: the invariant. *)

ObjectStates == [key : CacheKeys \cup {None}, failures : 0 .. After,
                 wait : {"none", "passing", "passed"}, trial : BOOLEAN, read : Nat]

TurnsFit ==
  /\ going \in [Turns -> {"idle", "begun", "gone"}] /\ readAt \in [Turns -> Nat]
  /\ key \in [Turns -> CacheKeys \cup {None}] /\ trial \in [Turns -> Objects \cup {None}]
  /\ \A t \in Turns : going[t] # "idle" => key[t] \in CacheKeys
  /\ \A t \in Turns : trial[t] # None => going[t] = "gone"
  /\ \A t, u \in Turns : trial[t] = trial[u] /\ trial[t] # None => t = u

\* A target remembered has failed, and waits if it has failed often enough.
HasFailed(x) ==
  /\ x.key \in CacheKeys /\ x.failures > 0
  /\ x.wait = "none" <=> x.failures < After

\* Objects say what they are: those that trials tr of the targets ky point to,
\* and those remembered in order ord, each of a target of its own.
Says(objects, ord, tr, ky) ==
  /\ objects \in [Objects -> ObjectStates]
  /\ ord \in Seq(Objects) /\ IsInjective(ord) /\ Len(ord) <= Limit
  /\ \A o \in Objects : objects[o].trial = TRUE <=> \E t \in Turns : tr[t] = o
  /\ \A t \in Turns : tr[t] # None => objects[tr[t]].key = ky[t]
  /\ \A o \in ToSet(ord) : HasFailed(objects[o])
  /\ \A o, p \in ToSet(ord) : objects[o].key = objects[p].key => o = p

ObjectsSay == Says(object, order, trial, key)

Used(ord, tr) == {o \in Objects : o \in ToSet(ord) \/ \E t \in Turns : tr[t] = o}
UnusedBlank == \A o \in Objects \ Used(order, trial) : object[o] = Blank

BackoffInv ==
  /\ FollowingTypeOK /\ TurnsFit /\ ObjectsSay /\ UnusedBlank /\ NoneRetired

LEMMA BlankState == Blank \in ObjectStates /\ Blank.trial = FALSE /\ Blank.failures = 0
  BY BackoffAssumption DEF Blank, ObjectStates

LEMMA OrderSet ==
  ASSUME NEW ord \in Seq(Objects)
  PROVE  ToSet(ord) \subseteq Objects /\ DOMAIN ord = 1 .. Len(ord) /\ Len(ord) \in Nat
<1>1. Len(ord) \in Nat /\ ord \in [1 .. Len(ord) -> Objects] /\ DOMAIN ord = 1 .. Len(ord)
  BY LenProperties
<1> QED BY <1>1 DEF ToSet

\* What nobody remembers or points to may be anything.
LEMMA GivenUp ==
  ASSUME NEW objects, NEW ord, NEW tr, NEW ky, Says(objects, ord, tr, ky),
         NEW left, left = [o \in Objects |-> IF o \in ToSet(ord) \/ \E t \in Turns : tr[t] = o
                                              THEN objects[o] ELSE Blank],
         tr \in [Turns -> Objects \cup {None}]
  PROVE  Says(left, ord, tr, ky) /\ \A o \in Objects \ Used(ord, tr) : left[o] = Blank
<1>1. \A o \in Objects : left[o] = IF o \in Used(ord, tr) THEN objects[o] ELSE Blank
  BY DEF Used
<1>2. left \in [Objects -> ObjectStates]
  BY BlankState DEF Says
<1>3. \A o \in Objects : left[o].trial = TRUE <=> \E t \in Turns : tr[t] = o
  BY <1>1, BlankState DEF Says, Used
<1>4. \A t \in Turns : tr[t] # None => tr[t] \in Objects /\ tr[t] \in Used(ord, tr)
  BY DEF Used
<1>5. \A o \in ToSet(ord) : o \in Objects /\ left[o] = objects[o]
  BY OrderSet, <1>1 DEF Says, Used
<1>6. \A t \in Turns : tr[t] # None => left[tr[t]].key = ky[t]
  BY <1>1, <1>4 DEF Says
<1> QED BY <1>1, <1>2, <1>3, <1>5, <1>6 DEF Says

\* There is always a state for one more target.
LEMMA OneIsBlank ==
  ASSUME BackoffInv
  PROVE  \E o \in Objects : object[o] = Blank
<1> DEFINE R == ToSet(order)
           T == {trial[t] : t \in Turns}
<1>1. order \in Seq(Objects) /\ Len(order) \in Nat /\ DOMAIN order = 1 .. Len(order) /\ Len(order) <= Limit
  BY OrderSet DEF BackoffInv, ObjectsSay, Says
<1>2. IsFiniteSet(DOMAIN order) /\ Cardinality(DOMAIN order) = Len(order)
  BY <1>1, FS_Interval
<1>3. R = {order[i] : i \in DOMAIN order}
  BY DEF ToSet
<1>4. IsFiniteSet(R) /\ Cardinality(R) <= Len(order) /\ Cardinality(R) \in Nat
  BY <1>2, <1>3, LedTo
<1>5. IsFiniteSet(Turns) /\ DOMAIN trial = Turns
  BY BackoffAssumption DEF BackoffInv, TurnsFit
<1>6. IsFiniteSet(T) /\ Cardinality(T) <= Cardinality(Turns) /\ Cardinality(T) \in Nat /\ Cardinality(Turns) \in Nat
  BY <1>5, LedTo
<1>7. \A o \in Objects : object[o] # Blank => o \in R \cup T
  BY DEF BackoffInv, UnusedBlank, Used
<1> HIDE DEF R, T
<1>8. IsFiniteSet(R \cup T) /\ Cardinality(R \cup T) <= Cardinality(R) + Cardinality(T)
  <2>1. Cardinality(R \cap T) \in Nat
    BY <1>4, FS_Intersection, FS_CardinalityType
  <2>2. IsFiniteSet(R \cup T) /\ Cardinality(R \cup T) = Cardinality(R) + Cardinality(T) - Cardinality(R \cap T)
    BY <1>4, <1>6, FS_Union
  <2> QED BY <1>4, <1>6, <2>1, <2>2
<1>9. SUFFICES ASSUME Objects \in SUBSET (R \cup T) PROVE FALSE
  BY <1>7
<1>10. Cardinality(Objects) <= Cardinality(R \cup T) /\ Cardinality(Objects) \in Nat /\ Cardinality(R \cup T) \in Nat
  BY <1>8, <1>9, FS_Subset, FS_CardinalityType
<1>11. Cardinality(Objects) > Limit + Cardinality(Turns) /\ Limit \in Nat
  BY BackoffAssumption DEF BackoffInv
<1> QED BY <1>1, <1>4, <1>6, <1>8, <1>10, <1>11

LEMMA InitialBackoff == BackoffInit => BackoffInv
<1> SUFFICES ASSUME BackoffInit PROVE BackoffInv
  OBVIOUS
<1>1. PICK d \in [Names -> Definitions \cup {None}] : force = [n |-> 0, defs |-> d]
  BY DEF BackoffInit, FollowingInit
<1>2. /\ followed.config = force /\ followed.generation = 1
      /\ followed.defined = [c \in Named(force) |-> 1]
  BY DEF BackoffInit, FollowingInit
<1>3. force \in Config
  BY <1>1, FollowingAssumption DEF Config
<1>4. FollowingTypeOK
  BY <1>2, <1>3 DEF FollowingTypeOK
<1>5. TurnsFit
  BY DEF BackoffInit, TurnsFit
<1>6. ToSet(<<>>) = {} /\ <<>> \in Seq(Objects) /\ IsInjective(<<>>) /\ Len(<<>>) = 0
  BY EmptySeq DEF ToSet, IsInjective
<1>7. \A t \in Turns : trial[t] = None
  BY DEF BackoffInit
<1>8. \A o \in Objects : object[o] = Blank /\ o # None
  BY BackoffAssumption DEF BackoffInit
<1>9. object \in [Objects -> ObjectStates]
  BY BlankState DEF BackoffInit
<1>10. \A o \in Objects : object[o].trial = TRUE <=> \E t \in Turns : trial[t] = o
  BY <1>7, <1>8, BlankState
<1>11. order = <<>> /\ Len(order) <= Limit
  BY <1>6, BackoffAssumption DEF BackoffInit
<1>12. ObjectsSay
  BY <1>6, <1>7, <1>9, <1>10, <1>11 DEF ObjectsSay, Says
<1>13. UnusedBlank /\ NoneRetired
  BY <1>6, <1>8, <1>11 DEF UnusedBlank, NoneRetired, Remembered
<1> QED BY <1>4, <1>5, <1>12, <1>13 DEF BackoffInv

\* What reloads leave as it is.
LEMMA InstallKeeps ==
  ASSUME BackoffInv, NEW d \in [Names -> Definitions \cup {None}], reloads(d)
  PROVE  BackoffInv'
<1>1. FollowingTypeOK'
  BY FollowingAssumption DEF BackoffInv, FollowingTypeOK, reloads, Install, Config
<1>2. UNCHANGED <<followed, going, readAt, key, trial, object, order>>
  BY DEF reloads, Install, trips
<1> QED BY <1>1, <1>2, BackoffAssumption DEF BackoffInv, TurnsFit, ObjectsSay, UnusedBlank, NoneRetired, Remembered, stands

\* A collector that is not retired has had its definition as long as before.
LEMMA FollowStands ==
  ASSUME FollowingTypeOK, Follow
  PROVE  /\ FollowingTypeOK'
         /\ \A c \in Named(followed.config) \ stale(followed, followed') :
              c \in Named(followed'.config) /\ followed'.defined[c] = followed.defined[c]
<1>1. /\ followed' = planFollowing(followed, force) /\ force' = force
      /\ force \in Config /\ followed.config \in Config
      /\ followed.generation \in Nat \ {0}
      /\ followed.defined \in [Named(followed.config) -> 1 .. followed.generation]
  BY DEF FollowingTypeOK, Follow
<1>2. /\ followed'.config = force /\ followed'.generation = followed.generation + 1
      /\ followed'.defined = definedFrom(followed, force, followed.generation + 1)
  BY <1>1 DEF planFollowing
<1>3. \A c \in Named(force) :
        /\ followed'.defined[c] = IF followed.config.defs[c] = force.defs[c]
                                    THEN followed.defined[c] ELSE followed.generation + 1
        /\ followed.config.defs[c] = force.defs[c] => c \in Named(followed.config)
  BY <1>2 DEF definedFrom, Named
<1>4. \A c \in Named(force) : followed'.defined[c] \in 1 .. followed'.generation
  BY <1>1, <1>2, <1>3
<1>5. DOMAIN followed'.defined = Named(force) /\ followed'.defined = [c \in Named(force) |-> followed'.defined[c]]
  BY <1>2 DEF definedFrom
<1>6. followed'.defined \in [Named(force) -> 1 .. followed'.generation]
  BY <1>4, <1>5
<1>7. FollowingTypeOK'
  BY <1>1, <1>2, <1>6 DEF FollowingTypeOK
<1>8. ASSUME NEW c \in Named(followed.config) \ stale(followed, followed')
      PROVE  c \in Named(followed'.config) /\ followed'.defined[c] = followed.defined[c]
  <2>1. force.defs[c] = followed.config.defs[c] /\ c \in Names /\ followed.config.defs[c] # None
    BY <1>2 DEF stale, Named
  <2>2. c \in Named(force)
    BY <2>1 DEF Named
  <2> QED BY <1>2, <1>3, <2>1, <2>2
<1> QED BY <1>7, <1>8

LEMMA ForgetKeeps == BackoffInv /\ forgetLocked => BackoffInv'
<1> SUFFICES ASSUME BackoffInv, forgetLocked PROVE BackoffInv'
  OBVIOUS
<1>1. Follow /\ UNCHANGED trips /\ Keeps(object)
  BY DEF forgetLocked
<1>2. UNCHANGED <<going, readAt, key, trial>>
  BY <1>1 DEF trips
<1>3. TurnsFit' /\ trial' \in [Turns -> Objects \cup {None}]
  BY <1>2, BackoffAssumption DEF BackoffInv, TurnsFit
<1>4. Says(object, order', trial', key')
  <2>1. CASE order' = <<>>
    <3>1. ToSet(<<>>) = {} /\ <<>> \in Seq(Objects) /\ IsInjective(<<>>) /\ Len(<<>>) = 0
      BY EmptySeq DEF ToSet, IsInjective
    <3> QED BY <1>2, <2>1, <3>1, BackoffAssumption DEF BackoffInv, ObjectsSay, Says
  <2>2. CASE order' = order
    BY <1>2, <2>2 DEF BackoffInv, ObjectsSay
  <2> QED BY <2>1, <2>2 DEF forgetLocked
<1>5. Says(object', order', trial', key') /\ \A o \in Objects \ Used(order', trial') : object'[o] = Blank
  BY <1>1, <1>3, <1>4, GivenUp DEF Keeps, BackoffInv
<1>6. \A o \in ToSet(order') : o \in Objects /\ object'[o] = object[o]
  BY <1>1, <1>4, OrderSet DEF Keeps, Says
<1>7. FollowingTypeOK'
  BY <1>1, FollowStands DEF BackoffInv
<1>8. NoneRetired'
  <2>1. CASE BackoffCollector \in stale(followed, followed')
    <3>1. ToSet(order') = {}
      BY <2>1 DEF forgetLocked, ToSet
    <3> QED BY <3>1 DEF NoneRetired, Remembered
  <2>2. CASE BackoffCollector \notin stale(followed, followed')
    <3>1. order' = order
      BY <2>2 DEF forgetLocked
    <3>2. SUFFICES ASSUME NEW o \in ToSet(order) PROVE stands(BackoffCollector, object[o].read)'
      BY <3>1 DEF NoneRetired, Remembered
    <3>3. stands(BackoffCollector, object[o].read) /\ object'[o] = object[o]
      BY <1>6, <3>1 DEF BackoffInv, NoneRetired, Remembered
    <3>4. BackoffCollector \in Named(followed.config)
      BY <3>3 DEF stands, BackoffInv, FollowingTypeOK
    <3>5. BackoffCollector \in DOMAIN followed'.defined /\ followed'.defined[BackoffCollector] = followed.defined[BackoffCollector]
      BY <1>1, <1>7, <2>2, <3>4, FollowStands DEF BackoffInv, FollowingTypeOK
    <3> QED BY <3>3, <3>5 DEF stands
  <2> QED BY <2>1, <2>2
<1> QED BY <1>3, <1>5, <1>7, <1>8 DEF BackoffInv, ObjectsSay, UnusedBlank

-----------------------------------------------------------------------------
(* Trips. *)

LEMMA OneChanged ==
  ASSUME NEW x \in ObjectStates, NEW b \in BOOLEAN, NEW w \in {"none", "passing", "passed"},
         NEW k \in CacheKeys
  PROVE  /\ [x EXCEPT !.trial = b] \in ObjectStates /\ [x EXCEPT !.wait = w] \in ObjectStates
         /\ [x EXCEPT !.key = k] \in ObjectStates
         /\ [x EXCEPT !.trial = b].trial = b /\ [x EXCEPT !.wait = w].trial = x.trial
         /\ [x EXCEPT !.trial = b].key = x.key /\ [x EXCEPT !.wait = w].key = x.key
         /\ [x EXCEPT !.trial = b].failures = x.failures /\ [x EXCEPT !.wait = w].failures = x.failures
         /\ [x EXCEPT !.trial = b].wait = x.wait /\ [x EXCEPT !.wait = w].wait = w
         /\ [x EXCEPT !.trial = b].read = x.read /\ [x EXCEPT !.wait = w].read = x.read
         /\ [x EXCEPT !.key = k].key = k /\ [x EXCEPT !.key = k].trial = x.trial
         /\ [x EXCEPT !.key = k].failures = x.failures
BY DEF ObjectStates

\* A failure is counted, and says since when.
LEMMA OneFailed ==
  ASSUME NEW x \in ObjectStates, x.key \in CacheKeys, NEW r \in Nat
  PROVE  /\ Failed(x, r) \in ObjectStates /\ HasFailed(Failed(x, r))
         /\ Failed(x, r).key = x.key /\ Failed(x, r).trial = x.trial /\ Failed(x, r).read = r
<1> DEFINE n == IF x.failures < After THEN x.failures + 1 ELSE After
           w == IF n < After THEN "none" ELSE "passing"
<1>1. x.failures \in 0 .. After /\ After \in Nat \ {0}
  BY BackoffAssumption DEF ObjectStates
<1>2. n \in 0 .. After /\ n > 0 /\ w \in {"none", "passing", "passed"} /\ (w = "none" <=> n < After)
  BY <1>1
<1> HIDE DEF n, w
<1>3. Failed(x, r) = [x EXCEPT !.failures = n, !.read = r, !.wait = w]
  BY DEF Failed, n, w
<1>4. Failed(x, r) \in ObjectStates
  BY <1>2, <1>3 DEF ObjectStates
<1>5. /\ Failed(x, r).key = x.key /\ Failed(x, r).trial = x.trial /\ Failed(x, r).read = r
      /\ Failed(x, r).failures = n /\ Failed(x, r).wait = w
  BY <1>3 DEF ObjectStates
<1> QED BY <1>2, <1>4, <1>5 DEF HasFailed

\* A trip that begins, or is refused, changes nothing that is remembered.
LEMMA TurnKeeps ==
  ASSUME BackoffInv, NEW t \in Turns,
         (\E k \in CacheKeys : begins(t, k)) \/ refuse(t)
  PROVE  BackoffInv'
<1>1. /\ UNCHANGED <<force, followed, trial, object, order>> /\ trial[t] = None
      /\ TurnsFit /\ ObjectsSay /\ FollowingTypeOK
  BY DEF BackoffInv, TurnsFit, begins, refuse
<1>2. /\ going' \in [Turns -> {"idle", "begun", "gone"}] /\ readAt' \in [Turns -> Nat]
      /\ key' \in [Turns -> CacheKeys \cup {None}]
      /\ going'[t] # "idle" => key'[t] \in CacheKeys
      /\ \A u \in Turns : u # t => going'[u] = going[u] /\ key'[u] = key[u]
  BY <1>1 DEF begins, refuse, TurnsFit, FollowingTypeOK
<1>3. TurnsFit'
  BY <1>1, <1>2 DEF TurnsFit
<1>4. \A u \in Turns : trial[u] # None => key'[u] = key[u]
  BY <1>1, <1>2
<1>5. ObjectsSay'
  BY <1>1, <1>4 DEF ObjectsSay, Says
<1> QED BY <1>1, <1>3, <1>5 DEF BackoffInv, FollowingTypeOK, UnusedBlank, NoneRetired, Remembered, stands

\* A trip that is let through takes the trial there is to take.
LEMMA AdmitKeeps == ASSUME BackoffInv, NEW t \in Turns, admit(t) PROVE BackoffInv'
<1> DEFINE tried == {o \in StateOf(key[t]) : object[o].wait # "none"}
<1>1. /\ TurnsFit /\ ObjectsSay /\ FollowingTypeOK /\ going[t] = "begun"
      /\ UNCHANGED <<force, followed, readAt, key, order>> /\ going' = [going EXCEPT ![t] = "gone"]
  BY DEF BackoffInv, admit
<1>2. /\ object \in [Objects -> ObjectStates] /\ order \in Seq(Objects) /\ trial[t] = None
      /\ ToSet(order) \subseteq Objects
  BY <1>1, OrderSet DEF ObjectsSay, Says, TurnsFit
<1>3. key[t] \in CacheKeys
  BY <1>1 DEF TurnsFit
<1>4. \A o, p \in tried : o = p
  BY <1>1 DEF StateOf, Remembered, ObjectsSay, Says
<1>5. CASE tried = {}
  <2>1. object' = object
    BY <1>2, <1>5 DEF admit
  <2>2. trial' = trial
    BY <1>1, <1>2, <1>5 DEF admit, TurnsFit
  <2>3. TurnsFit'
    BY <1>1, <1>3, <2>2 DEF TurnsFit
  <2> QED BY <1>1, <2>1, <2>2, <2>3 DEF BackoffInv, FollowingTypeOK, ObjectsSay, UnusedBlank, NoneRetired, Remembered, stands
<1>6. CASE tried # {}
  <2>1. PICK o \in tried : TRUE
    BY <1>6
  <2>2. (CHOOSE p \in tried : TRUE) = o /\ \A p : p \in tried <=> p = o
    BY <1>4, <2>1
  <2>3. o \in Objects /\ o # None /\ o \in ToSet(order) /\ object[o].key = key[t] /\ object[o].wait # "none"
    BY <1>1, <1>2, <2>1, BackoffAssumption DEF StateOf, Remembered
  <2>4. Lets(o)
    BY <2>1 DEF admit, StateOf
  <2>5. ~(object[o].trial = TRUE)
    BY <2>3, <2>4 DEF Lets
  <2>6. \A u \in Turns : trial[u] # o
    BY <1>1, <2>3, <2>5 DEF ObjectsSay, Says
  <2>7. trial' = [trial EXCEPT ![t] = o]
    BY <1>6, <2>2 DEF admit
  <2>8. object' = [p \in Objects |-> IF p = o THEN [object[o] EXCEPT !.trial = TRUE] ELSE object[p]]
    BY <2>2 DEF admit
  <2> HIDE DEF tried
  <2>9. /\ [object[o] EXCEPT !.trial = TRUE] \in ObjectStates
        /\ object'[o].trial = TRUE /\ object'[o].key = object[o].key /\ object'[o].failures = object[o].failures
        /\ object'[o].wait = object[o].wait /\ object'[o].read = object[o].read
    BY <1>2, <1>3, <2>3, <2>8, OneChanged
  <2>10. object' \in [Objects -> ObjectStates] /\ \A p \in Objects : p # o => object'[p] = object[p]
    BY <1>2, <2>8, <2>9
  <2>11. trial' \in [Turns -> Objects \cup {None}] /\ trial'[t] = o /\ \A u \in Turns : u # t => trial'[u] = trial[u]
    BY <1>1, <2>3, <2>7 DEF TurnsFit
  <2>12. TurnsFit'
    BY <1>1, <1>3, <2>6, <2>11 DEF TurnsFit
  <2>13. \A p \in Objects : object'[p].key = object[p].key /\ object'[p].failures = object[p].failures
                         /\ object'[p].wait = object[p].wait /\ object'[p].read = object[p].read
    BY <2>9, <2>10
  <2>14. \A p \in Objects : object'[p].trial = TRUE <=> \E u \in Turns : trial'[u] = p
    <3> TAKE p \in Objects
    <3>1. CASE p = o
      BY <2>9, <2>11, <3>1
    <3>2. CASE p # o
      BY <1>1, <1>2, <2>3, <2>10, <2>11, <3>2, BackoffAssumption DEF ObjectsSay, Says
    <3> QED BY <3>1, <3>2
  <2>15. \A u \in Turns : trial'[u] # None => object'[trial'[u]].key = key[u]
    <3> TAKE u \in Turns
    <3>1. CASE u = t
      BY <2>3, <2>9, <2>11, <3>1
    <3>2. CASE u # t
      <4>1. trial'[u] = trial[u] /\ (trial[u] # None => trial[u] \in Objects)
        BY <1>1, <2>11, <3>2 DEF TurnsFit
      <4>2. trial[u] # None => object[trial[u]].key = key[u]
        BY <1>1 DEF ObjectsSay, Says
      <4> QED BY <2>13, <4>1, <4>2
    <3> QED BY <3>1, <3>2
  <2>16. \A p \in ToSet(order) : HasFailed(object'[p])
    BY <1>1, <1>2, <2>13 DEF ObjectsSay, Says, HasFailed
  <2>17. ObjectsSay'
    BY <1>1, <1>2, <2>10, <2>13, <2>14, <2>15, <2>16 DEF ObjectsSay, Says
  <2>18. UnusedBlank'
    <3>1. SUFFICES ASSUME NEW p \in Objects, p \notin ToSet(order), \A u \in Turns : trial'[u] # p
                   PROVE  object'[p] = Blank
      BY <1>1 DEF UnusedBlank, Used
    <3>2. p # o /\ p # None
      BY <1>1, <2>3, <3>1, BackoffAssumption
    <3>3. \A u \in Turns : trial[u] # p
      BY <1>2, <2>11, <3>1, <3>2
    <3> QED BY <2>10, <3>1, <3>2, <3>3 DEF BackoffInv, UnusedBlank, Used
  <2>19. NoneRetired'
    BY <1>1, <1>2, <2>13 DEF BackoffInv, NoneRetired, Remembered, stands
  <2> QED BY <1>1, <2>12, <2>17, <2>18, <2>19 DEF BackoffInv, FollowingTypeOK
<1> QED BY <1>5, <1>6

LEMMA WaitKeeps == ASSUME BackoffInv, NEW o \in Objects, WaitPasses(o) PROVE BackoffInv'
<1>1. /\ TurnsFit /\ ObjectsSay /\ o \in ToSet(order) /\ object[o].wait = "passing"
      /\ object' = [object EXCEPT ![o].wait = "passed"]
      /\ UNCHANGED <<force, followed, going, readAt, key, trial, order>>
  BY DEF BackoffInv, WaitPasses, trips, Remembered
<1>2. object \in [Objects -> ObjectStates] /\ order \in Seq(Objects) /\ ToSet(order) \subseteq Objects
  BY <1>1, OrderSet DEF ObjectsSay, Says
<1>3. object[o].key \in CacheKeys /\ object[o] \in ObjectStates
  BY <1>1, <1>2 DEF ObjectsSay, Says, HasFailed
<1>4. /\ object' \in [Objects -> ObjectStates] /\ \A p \in Objects : p # o => object'[p] = object[p]
      /\ object'[o] = [object[o] EXCEPT !.wait = "passed"]
  <2>1. [object[o] EXCEPT !.wait = "passed"] \in ObjectStates
    BY <1>3, OneChanged
  <2> QED BY <1>1, <1>2, <2>1
<1>5. /\ object'[o].trial = object[o].trial /\ object'[o].key = object[o].key
      /\ object'[o].failures = object[o].failures /\ object'[o].wait = "passed" /\ object'[o].read = object[o].read
  BY <1>3, <1>4, OneChanged
<1>6. \A p \in Objects : object'[p].key = object[p].key /\ object'[p].failures = object[p].failures
                       /\ object'[p].read = object[p].read /\ object'[p].trial = object[p].trial
  BY <1>4, <1>5
<1>7. \A p \in ToSet(order) : HasFailed(object'[p])
  BY <1>1, <1>2, <1>4, <1>5 DEF ObjectsSay, Says, HasFailed
<1>8. \A u \in Turns : trial[u] # None => trial[u] \in Objects
  BY <1>1 DEF TurnsFit
<1>9. ObjectsSay'
  BY <1>1, <1>2, <1>4, <1>6, <1>7, <1>8 DEF ObjectsSay, Says
<1>10. UnusedBlank' /\ NoneRetired' /\ TurnsFit'
  BY <1>1, <1>2, <1>4, <1>6 DEF BackoffInv, UnusedBlank, Used, NoneRetired, Remembered, stands, TurnsFit
<1> QED BY <1>1, <1>9, <1>10 DEF BackoffInv, FollowingTypeOK

-----------------------------------------------------------------------------
(* The end of a trip. *)

\* What a trip leaves of its trial.
LEMMA TrialIsOver ==
  ASSUME BackoffInv, NEW t \in Turns, going[t] = "gone",
         trial' = [trial EXCEPT ![t] = None], key' = [key EXCEPT ![t] = None],
         NEW outcome
  PROVE  /\ Says(TrialOver(t, outcome), order, trial', key')
         /\ \A o \in Objects : TrialOver(t, outcome)[o].read = object[o].read
                            /\ TrialOver(t, outcome)[o].key = object[o].key
         /\ \A o \in Objects : object[o] = Blank => TrialOver(t, outcome)[o] = Blank
         /\ trial' \in [Turns -> Objects \cup {None}]
<1> DEFINE objects == TrialOver(t, outcome)
<1>1. /\ TurnsFit /\ ObjectsSay /\ key[t] \in CacheKeys
      /\ object \in [Objects -> ObjectStates] /\ order \in Seq(Objects) /\ ToSet(order) \subseteq Objects
  BY OrderSet DEF BackoffInv, ObjectsSay, Says, TurnsFit
<1>2. \A o \in Objects : objects[o] = IF o = trial[t] THEN [object[o] EXCEPT !.trial = FALSE] ELSE object[o]
  BY DEF TrialOver
<1>3. objects \in [Objects -> ObjectStates]
  <2>1. \A o \in Objects : /\ object[o] \in ObjectStates
                           /\ [object[o] EXCEPT !.trial = FALSE] \in ObjectStates
    BY <1>1 DEF ObjectStates
  <2>2. \A o \in Objects : objects[o] \in ObjectStates
    BY <1>2, <2>1
  <2> QED BY <2>2 DEF TrialOver
<1>4. \A o \in Objects : /\ objects[o].key = object[o].key /\ objects[o].failures = object[o].failures
                        /\ objects[o].wait = object[o].wait /\ objects[o].read = object[o].read
                        /\ objects[o].trial = IF o = trial[t] THEN FALSE ELSE object[o].trial
  <2> TAKE o \in Objects
  <2>1. CASE o = trial[t]
    <3>1. object[o] \in ObjectStates /\ FALSE \in BOOLEAN
      BY <1>1
    <3> DEFINE y == [object[o] EXCEPT !.trial = FALSE]
    <3>2. /\ y.key = object[o].key /\ y.failures = object[o].failures /\ y.wait = object[o].wait
          /\ y.read = object[o].read /\ y.trial = FALSE
      BY <1>1, <3>1, OneChanged
    <3>3. objects[o] = y
      BY <1>2, <2>1
    <3> HIDE DEF y, objects
    <3> QED BY <2>1, <3>2, <3>3
  <2>2. CASE o # trial[t]
    BY <1>2, <2>2
  <2> QED BY <2>1, <2>2
<1>5. /\ trial' \in [Turns -> Objects \cup {None}] /\ trial'[t] = None
      /\ \A u \in Turns : u # t => trial'[u] = trial[u] /\ key'[u] = key[u]
  BY <1>1 DEF TurnsFit
<1> HIDE DEF objects
<1>6. \A o \in Objects : objects[o].trial = TRUE <=> \E u \in Turns : trial'[u] = o
  <2> TAKE o \in Objects
  <2>1. o # None
    BY <1>1, BackoffAssumption
  <2>2. CASE o = trial[t]
    <3>1. \A u \in Turns : u # t => trial[u] # o
      BY <1>1, <2>1, <2>2 DEF TurnsFit
    <3> QED BY <1>4, <1>5, <2>1, <2>2, <3>1
  <2>3. CASE o # trial[t]
    <3>1. objects[o] = object[o]
      BY <1>2, <2>3 DEF objects
    <3>2. object[o].trial = TRUE <=> \E u \in Turns : trial[u] = o
      BY <1>1 DEF ObjectsSay, Says
    <3>3. (\E u \in Turns : trial[u] = o) <=> \E u \in Turns : trial'[u] = o
      BY <1>5, <2>1, <2>3
    <3> QED BY <3>1, <3>2, <3>3
  <2> QED BY <2>2, <2>3
<1>7. \A u \in Turns : trial'[u] # None => objects[trial'[u]].key = key'[u]
  <2> TAKE u \in Turns
  <2> HAVE trial'[u] # None
  <2>1. u # t /\ trial'[u] = trial[u] /\ key'[u] = key[u] /\ trial[u] \in Objects
    BY <1>1, <1>5 DEF TurnsFit
  <2>2. object[trial[u]].key = key[u]
    BY <1>1, <2>1, BackoffAssumption DEF ObjectsSay, Says
  <2> QED BY <1>4, <2>1, <2>2
<1>8. \A o \in ToSet(order) : HasFailed(objects[o])
  BY <1>1, <1>4 DEF ObjectsSay, Says, HasFailed
<1>9. \A o, p \in ToSet(order) : objects[o].key = objects[p].key => o = p
  BY <1>1, <1>4 DEF ObjectsSay, Says
<1>10. Says(objects, order, trial', key')
  BY <1>1, <1>3, <1>6, <1>7, <1>8, <1>9 DEF ObjectsSay, Says
<1>11. \A o \in Objects : object[o] = Blank => objects[o] = Blank
  <2> TAKE o \in Objects
  <2> HAVE object[o] = Blank
  <2>1. o # trial[t]
    <3>1. ~(object[o].trial = TRUE)
      BY BlankState, <1>1
    <3> QED BY <1>1, <3>1 DEF ObjectsSay, Says
  <2> QED BY <1>2, <2>1 DEF objects
<1> QED BY <1>4, <1>5, <1>10, <1>11 DEF objects

\* A trip that tells nothing of its target, or that it did not fail, leaves
\* the others that are remembered.
LEMMA SaysLess ==
  ASSUME BackoffInv, NEW objects, NEW tr, NEW ky, Says(objects, order, tr, ky),
         NEW ord \in Seq(Objects), IsInjective(ord), Len(ord) <= Limit, ToSet(ord) \subseteq ToSet(order)
  PROVE  Says(objects, ord, tr, ky)
BY DEF Says

LEMMA OneForgotten ==
  ASSUME BackoffInv, NEW o \in ToSet(order)
  PROVE  /\ Without(o) \in Seq(Objects) /\ IsInjective(Without(o)) /\ Len(Without(o)) < Len(order)
         /\ Len(Without(o)) + 1 = Len(order) /\ ToSet(Without(o)) = ToSet(order) \ {o}
<1>1. order \in Seq(Objects) /\ IsInjective(order)
  BY DEF BackoffInv, ObjectsSay, Says
<1> DEFINE i == CHOOSE j \in DOMAIN order : order[j] = o
<1>2. i \in DOMAIN order /\ order[i] = o
  BY DEF ToSet
<1>3. Without(o) = RemoveAt(order, i)
  BY DEF Without
<1> HIDE DEF i
<1>4. Len(Without(o)) = Len(order) - 1 /\ Len(order) \in Nat
  BY <1>1, <1>2, <1>3, OneTakenOut
<1> QED BY <1>1, <1>2, <1>3, <1>4, OneTakenOut

\* What a failure is remembered by is of the trip's target, and its only one.
LEMMA FailureSays ==
  ASSUME BackoffInv, NEW t \in Turns, going[t] = "gone", NEW outcome,
         trial' = [trial EXCEPT ![t] = None], key' = [key EXCEPT ![t] = None],
         UNCHANGED followed, stands(BackoffCollector, readAt[t]),
         remember(t, TrialOver(t, outcome))
  PROVE  \E objects : /\ Says(objects, order', trial', key') /\ Keeps(objects)
                      /\ \A o \in ToSet(order') : stands(BackoffCollector, objects[o].read)
<1> DEFINE over == TrialOver(t, outcome)
           known == StateOf(key[t])
           o == IF known = {} THEN CHOOSE x \in Objects : object[x] = Blank
                              ELSE CHOOSE x \in known : TRUE
           failing == [over[o] EXCEPT !.key = key[t]]
           failed == Failed(failing, readAt[t])
           objects == [over EXCEPT ![o] = failed]
           rest == IF known = {} THEN Evicted ELSE Without(o)
<1>1. /\ TurnsFit /\ ObjectsSay /\ key[t] \in CacheKeys /\ readAt[t] \in Nat
      /\ object \in [Objects -> ObjectStates] /\ order \in Seq(Objects) /\ ToSet(order) \subseteq Objects
      /\ IsInjective(order) /\ Len(order) \in Nat /\ Len(order) <= Limit /\ Limit \in Nat \ {0}
  BY OrderSet, BackoffAssumption DEF BackoffInv, ObjectsSay, Says, TurnsFit
<1>2. /\ Says(over, order, trial', key') /\ trial' \in [Turns -> Objects \cup {None}]
      /\ \A x \in Objects : over[x].read = object[x].read /\ over[x].key = object[x].key
      /\ \A x \in Objects : object[x] = Blank => over[x] = Blank
  BY TrialIsOver
<1>3. order' = Append(rest, o) /\ Keeps(objects)
  BY DEF remember
<1>4. known = {x \in ToSet(order) : object[x].key = key[t]}
  BY DEF StateOf, Remembered
<1>5. /\ o \in Objects /\ o \notin ToSet(rest) /\ rest \in Seq(Objects) /\ IsInjective(rest)
      /\ Len(rest) + 1 <= Limit /\ Len(rest) \in Nat /\ ToSet(rest) \subseteq ToSet(order)
      /\ \A x \in ToSet(rest) : object[x].key # key[t]
      /\ (over[o].key = key[t] \/ over[o] = Blank)
  <2>1. CASE known = {}
    <3>1. o \in Objects /\ object[o] = Blank
      BY <2>1, OneIsBlank
    <3>2. o \notin ToSet(order)
      BY <1>1, <3>1, BlankState DEF ObjectsSay, Says, HasFailed
    <3>3. rest = IF Len(order) >= Limit THEN Tail(order) ELSE order
      BY <2>1 DEF Evicted
    <3> HIDE DEF o, rest, known, over
    <3>4. CASE Len(order) >= Limit
      <4>1. order # <<>> /\ rest = Tail(order)
        <5>1. Len(order) # 0
          BY <1>1, <3>4
        <5> QED BY <3>3, <3>4, <5>1, EmptySeq
      <4>2. /\ Tail(order) \in Seq(Objects) /\ IsInjective(Tail(order))
            /\ Len(Tail(order)) = Len(order) - 1 /\ ToSet(Tail(order)) \subseteq ToSet(order)
        BY <1>1, <4>1, FirstTakenOut
      <4>3. Len(Tail(order)) \in Nat
        BY <4>2, LenProperties
      <4> QED BY <1>1, <1>2, <1>4, <2>1, <3>1, <3>2, <4>1, <4>2, <4>3
    <3>5. CASE ~(Len(order) >= Limit)
      BY <1>1, <1>2, <1>4, <2>1, <3>1, <3>2, <3>3, <3>5
    <3> QED BY <3>4, <3>5
  <2>2. CASE known # {}
    <3>1. o \in known
      BY <2>2
    <3>2. o \in ToSet(order) /\ object[o].key = key[t] /\ rest = Without(o)
      BY <1>4, <2>2, <3>1
    <3> HIDE DEF o, rest, known, over
    <3>3. /\ rest \in Seq(Objects) /\ IsInjective(rest) /\ Len(rest) + 1 = Len(order)
          /\ ToSet(rest) = ToSet(order) \ {o}
      BY <3>2, OneForgotten
    <3>4. \A x \in ToSet(rest) : object[x].key # key[t]
      BY <1>1, <3>2, <3>3 DEF ObjectsSay, Says
    <3>5. Len(rest) \in Nat
      BY <3>3, LenProperties
    <3> QED BY <1>1, <1>2, <3>2, <3>3, <3>4, <3>5
  <2> QED BY <2>1, <2>2
<1>6. over \in [Objects -> ObjectStates]
  BY <1>2 DEF Says
<1> HIDE DEF over, known, o, rest
<1>7. /\ failing \in ObjectStates /\ failing.key = key[t] /\ failing.trial = over[o].trial
  <2>1. over[o] \in ObjectStates
    BY <1>5, <1>6
  <2> QED BY <1>1, <2>1 DEF ObjectStates
<1> HIDE DEF failing
<1>8. /\ failed \in ObjectStates /\ HasFailed(failed) /\ failed.key = key[t]
      /\ failed.trial = over[o].trial /\ failed.read = readAt[t]
  BY <1>1, <1>7, OneFailed
<1> HIDE DEF failed
<1>9. /\ objects \in [Objects -> ObjectStates] /\ objects[o] = failed
      /\ \A x \in Objects : x # o => objects[x] = over[x]
  BY <1>5, <1>6, <1>8
<1> HIDE DEF objects
<1>10. /\ order' \in Seq(Objects) /\ IsInjective(order') /\ Len(order') <= Limit
       /\ ToSet(order') = ToSet(rest) \cup {o}
  BY <1>1, <1>3, <1>5, OnePutLast
<1>11. \A x \in Objects : objects[x].trial = TRUE <=> \E u \in Turns : trial'[u] = x
  <2> TAKE x \in Objects
  <2>1. objects[x].trial = over[x].trial
    BY <1>8, <1>9
  <2> QED BY <1>2, <2>1 DEF Says
<1>12. \A u \in Turns : trial'[u] # None => objects[trial'[u]].key = key'[u]
  <2> TAKE u \in Turns
  <2> HAVE trial'[u] # None
  <2>1. trial'[u] \in Objects /\ over[trial'[u]].key = key'[u]
    BY <1>2 DEF Says
  <2>2. CASE trial'[u] # o
    BY <1>9, <2>1, <2>2
  <2>3. CASE trial'[u] = o
    <3>1. over[o] # Blank
      <4>1. over[o].trial = TRUE
        BY <1>2, <1>5, <2>3 DEF Says
      <4> QED BY <1>1, <4>1, BlankState
    <3> QED BY <1>5, <1>8, <1>9, <2>1, <2>3, <3>1
  <2> QED BY <2>2, <2>3
<1>13. \A x \in ToSet(rest) : x \in Objects /\ x # o /\ objects[x] = over[x] /\ HasFailed(over[x]) /\ over[x].key # key[t]
  BY <1>1, <1>2, <1>5, <1>9 DEF Says
<1>14. \A x \in ToSet(order') : HasFailed(objects[x])
  BY <1>8, <1>9, <1>10, <1>13
<1>15. \A x, y \in ToSet(order') : objects[x].key = objects[y].key => x = y
  <2>1. \A x, y \in ToSet(rest) : over[x].key = over[y].key => x = y
    BY <1>2, <1>5 DEF Says
  <2> QED BY <1>8, <1>9, <1>10, <1>13, <2>1
<1>16. Says(objects, order', trial', key')
  BY <1>9, <1>10, <1>11, <1>12, <1>14, <1>15 DEF Says
<1>17. \A x \in ToSet(order') : stands(BackoffCollector, objects[x].read)
  <2> TAKE x \in ToSet(order')
  <2>1. CASE x = o
    BY <1>8, <1>9, <2>1
  <2>2. CASE x # o
    <3>1. x \in ToSet(rest) /\ objects[x].read = object[x].read
      BY <1>2, <1>10, <1>13, <2>2
    <3>2. stands(BackoffCollector, object[x].read)
      BY <1>5, <3>1 DEF BackoffInv, NoneRetired, Remembered
    <3> QED BY <3>1, <3>2
  <2> QED BY <2>1, <2>2
<1> QED BY <1>3, <1>16, <1>17

LEMMA SettleKeeps ==
  ASSUME BackoffInv, NEW t \in Turns, NEW outcome, settle(t, outcome)
  PROVE  BackoffInv'
<1> DEFINE over == TrialOver(t, outcome)
<1>1. /\ going[t] = "gone" /\ going' = [going EXCEPT ![t] = "idle"] /\ readAt' = [readAt EXCEPT ![t] = 0]
      /\ key' = [key EXCEPT ![t] = None] /\ trial' = [trial EXCEPT ![t] = None]
      /\ UNCHANGED <<force, followed>>
  BY DEF settle
<1>2. TurnsFit'
  BY <1>1 DEF BackoffInv, TurnsFit
<1>3. /\ Says(over, order, trial', key') /\ trial' \in [Turns -> Objects \cup {None}]
      /\ \A o \in Objects : over[o].read = object[o].read
  <2>1. going[t] = "gone" /\ trial' = [trial EXCEPT ![t] = None] /\ key' = [key EXCEPT ![t] = None]
    BY <1>1
  <2>2. /\ Says(over, order, trial', key')
        /\ \A o \in Objects : over[o].read = object[o].read /\ over[o].key = object[o].key
        /\ \A o \in Objects : object[o] = Blank => over[o] = Blank
        /\ trial' \in [Turns -> Objects \cup {None}]
    BY <2>1, TrialIsOver
  <2> HIDE DEF over
  <2> QED BY <2>2
<1>4. order \in Seq(Objects) /\ IsInjective(order) /\ Len(order) <= Limit /\ ToSet(order) \subseteq Objects
      /\ Len(order) \in Nat /\ Limit \in Nat
  BY OrderSet, BackoffAssumption DEF BackoffInv, ObjectsSay, Says
<1>5. \A o \in ToSet(order) : stands(BackoffCollector, object[o].read)
  BY DEF BackoffInv, NoneRetired, Remembered
<1>6. \E objects : /\ Says(objects, order', trial', key') /\ Keeps(objects)
                   /\ \A o \in ToSet(order') : stands(BackoffCollector, objects[o].read)
  <2>1. CASE Counts(t, outcome) /\ outcome = "failed" /\ remember(t, over)
    <3>1. stands(BackoffCollector, readAt[t])
      BY <2>1 DEF Counts
    <3> QED BY <1>1, <2>1, <3>1, FailureSays
  <2>2. CASE /\ order' = IF StateOf(key[t]) = {} THEN order
                         ELSE Without(CHOOSE o \in StateOf(key[t]) : TRUE)
             /\ Keeps(over)
    <3>1. /\ order' \in Seq(Objects) /\ IsInjective(order') /\ Len(order') <= Limit
          /\ ToSet(order') \subseteq ToSet(order)
      <4>1. CASE StateOf(key[t]) = {}
        BY <1>4, <2>2, <4>1
      <4>2. CASE StateOf(key[t]) # {}
        <5>1. PICK o \in ToSet(order) : order' = Without(o)
          BY <2>2, <4>2 DEF StateOf, Remembered
        <5>2. Len(Without(o)) < Len(order) /\ Len(Without(o)) + 1 = Len(order) /\ Without(o) \in Seq(Objects)
              /\ IsInjective(Without(o)) /\ ToSet(Without(o)) = ToSet(order) \ {o}
          BY OneForgotten
        <5>3. Len(Without(o)) \in Nat
          BY <5>2, LenProperties
        <5> QED BY <1>4, <5>1, <5>2, <5>3
      <4> QED BY <4>1, <4>2
    <3>2. Says(over, order', trial', key')
      BY <1>3, <3>1, SaysLess
    <3>3. \A o \in ToSet(order') : stands(BackoffCollector, over[o].read)
      BY <1>3, <1>4, <1>5, <3>1
    <3> QED BY <2>2, <3>2, <3>3
  <2>3. CASE UNCHANGED order /\ Keeps(over)
    <3>1. \A o \in ToSet(order') : stands(BackoffCollector, over[o].read)
      BY <1>3, <1>4, <1>5, <2>3
    <3> QED BY <1>3, <2>3, <3>1
  <2> QED BY <2>1, <2>2, <2>3 DEF settle
<1>7. PICK objects : /\ Says(objects, order', trial', key') /\ Keeps(objects)
                     /\ \A o \in ToSet(order') : stands(BackoffCollector, objects[o].read)
  BY <1>6
<1>8. Says(object', order', trial', key') /\ \A o \in Objects \ Used(order', trial') : object'[o] = Blank
  BY <1>3, <1>7, GivenUp DEF Keeps, BackoffInv
<1>9. \A o \in ToSet(order') : o \in Objects /\ object'[o] = objects[o]
  BY <1>7, <1>8, OrderSet DEF Keeps, Says
<1>10. NoneRetired'
  BY <1>1, <1>7, <1>9 DEF NoneRetired, Remembered, stands
<1> QED BY <1>1, <1>2, <1>8, <1>10 DEF BackoffInv, FollowingTypeOK, ObjectsSay, UnusedBlank

-----------------------------------------------------------------------------

LEMMA BackoffStep == BackoffInv /\ [BackoffNext]_bvars => BackoffInv'
<1> SUFFICES ASSUME BackoffInv, [BackoffNext]_bvars PROVE BackoffInv'
  OBVIOUS
<1>1. CASE UNCHANGED bvars
  <2>1. UNCHANGED <<force, followed, going, readAt, key, trial, object, order>>
    BY <1>1 DEF bvars
  <2> QED BY <2>1 DEF BackoffInv, FollowingTypeOK, TurnsFit, ObjectsSay, UnusedBlank, NoneRetired, Remembered, stands
<1>2. ASSUME NEW d \in [Names -> Definitions \cup {None}], reloads(d) PROVE BackoffInv'
  BY <1>2, InstallKeeps
<1>3. CASE forgetLocked
  BY <1>3, ForgetKeeps
<1>4. ASSUME NEW t \in Turns, (\E k \in CacheKeys : begins(t, k)) \/ refuse(t) PROVE BackoffInv'
  BY <1>4, TurnKeeps
<1>5. ASSUME NEW t \in Turns, admit(t) PROVE BackoffInv'
  BY <1>5, AdmitKeeps
<1>6. ASSUME NEW t \in Turns, NEW outcome \in Outcomes, settle(t, outcome) PROVE BackoffInv'
  BY <1>6, SettleKeeps
<1>7. ASSUME NEW o \in Objects, WaitPasses(o) PROVE BackoffInv'
  BY <1>7, WaitKeeps
<1> QED BY <1>1, <1>2, <1>3, <1>4, <1>5, <1>6, <1>7 DEF BackoffNext

\* What is known of a state that is used.
LEMMA StateFields ==
  ASSUME NEW x \in ObjectStates
  PROVE  /\ x.key \in CacheKeys \cup {None} /\ x.failures \in 0 .. After
         /\ x.wait \in {"none", "passing", "passed"} /\ x.trial \in BOOLEAN /\ x.read \in Nat
BY DEF ObjectStates

\* The invariant says what is promised.
LEMMA BackoffKept == BackoffInv => BackoffHeld
<1> SUFFICES ASSUME BackoffInv PROVE BackoffHeld
  OBVIOUS
<1>1. /\ TurnsFit /\ FollowingTypeOK /\ NoneRetired
      /\ object \in [Objects -> ObjectStates] /\ order \in Seq(Objects) /\ ToSet(order) \subseteq Objects
      /\ IsInjective(order) /\ Len(order) <= Limit
  BY OrderSet DEF BackoffInv, ObjectsSay, Says
<1>2. BackoffTypeOK
  <2>1. \A o \in Objects :
          /\ object[o].key \in CacheKeys \cup {None} /\ object[o].failures \in 0 .. After
          /\ object[o].wait \in {"none", "passing", "passed"}
          /\ object[o].trial \in BOOLEAN /\ object[o].read \in Nat
    BY <1>1, StateFields
  <2>2. \A t \in Turns : trial[t] # None => object[trial[t]].key = key[t]
    BY DEF BackoffInv, ObjectsSay, Says
  <2> QED BY <1>1, <2>1, <2>2 DEF BackoffTypeOK, TurnsFit
<1>3. ASSUME NEW o \in Objects
      PROVE  /\ Cardinality({t \in Turns : trial[t] = o}) = IF object[o].trial THEN 1 ELSE 0
             /\ \A t \in Turns : trial[t] = o => going[t] = "gone"
  <2>1. o # None /\ object[o].trial \in BOOLEAN
    BY <1>1, StateFields, BackoffAssumption
  <2>2. object[o].trial = TRUE <=> \E t \in Turns : trial[t] = o
    BY DEF BackoffInv, ObjectsSay, Says
  <2>3. CASE object[o].trial = TRUE
    <3>1. PICK t \in Turns : trial[t] = o
      BY <2>2, <2>3
    <3>2. {u \in Turns : trial[u] = o} = {t}
      BY <1>1, <2>1, <3>1 DEF TurnsFit
    <3> QED BY <1>1, <2>1, <2>3, <3>2, FS_Singleton DEF TurnsFit
  <2>4. CASE object[o].trial = FALSE
    <3>1. {t \in Turns : trial[t] = o} = {}
      BY <2>2, <2>4
    <3> QED BY <2>4, <3>1, FS_EmptySet
  <2> QED BY <2>1, <2>3, <2>4
<1>4. TrialHeld
  BY <1>2, <1>3 DEF TrialHeld
<1>5. \A k \in CacheKeys : Cardinality(StateOf(k)) <= 1
  <2> TAKE k \in CacheKeys
  <2>1. \A o, p \in StateOf(k) : o = p
    BY DEF StateOf, Remembered, BackoffInv, ObjectsSay, Says
  <2>2. CASE StateOf(k) = {}
    BY <2>2, FS_EmptySet
  <2>3. CASE StateOf(k) # {}
    <3>1. PICK o : StateOf(k) = {o}
      BY <2>1, <2>3
    <3>2. Cardinality({o}) = 1
      BY FS_Singleton
    <3> QED BY <3>1, <3>2
  <2> QED BY <2>2, <2>3
<1>6. \A o \in Remembered : HasFailed(object[o])
  BY DEF Remembered, BackoffInv, ObjectsSay, Says
<1>7. RememberedOnce
  BY <1>1, <1>5, <1>6 DEF RememberedOnce, HasFailed
<1> QED BY <1>1, <1>4, <1>7 DEF Remembering, BackoffHeld

\* A target whose trial is in progress has the one trip that ends it, and is
\* never kept from by one that is over, whatever forgets it and remembers it
\* again; and what is remembered is of the definition in force, one state for
\* a target and no more than may be: for any trips, targets, reloads, number
\* of failures and of targets remembered.
THEOREM BackoffAlwaysHeld == BackoffSpec => []BackoffHeld
<1>1. BackoffInit => BackoffInv
  BY InitialBackoff
<1>2. BackoffInv /\ [BackoffNext]_bvars => BackoffInv'
  BY BackoffStep
<1>3. BackoffInv => BackoffHeld
  BY BackoffKept
<1> QED BY <1>1, <1>2, <1>3, PTL DEF BackoffSpec

=============================================================================
