------------------------------ MODULE Reconcile ------------------------------
(***************************************************************************)
(* Following a reload, step by step (internal/exporter/reconcile.go): any  *)
(* number of goroutines, the reload's and the probes' that come meanwhile, *)
(* work out the same following with no lock held, one of them makes it     *)
(* under the statistics lock, and each that made one then tells the        *)
(* request types of it (applyFollowed), in whatever order they get there.  *)
(*                                                                         *)
(* `kept' stands for what trips write under a collector's name at their    *)
(* end: cached results, failures, backoffs, recent probes.  Each is        *)
(* written, and dropped by a following, under a lock of its own that also  *)
(* covers the test of whether the collector stands.                        *)
(***************************************************************************)
EXTENDS Following

CONSTANTS
  Readers,    \* goroutines of probes
  Reloader    \* the goroutine that reloads, one at a time (reloadMu), not a reader

Goroutines == Readers \cup {Reloader}

VARIABLES
  doing,      \* where each goroutine is
  asked,      \* the number of the configuration in force when it asked
  cfg,        \* the configuration it read in force
  mine,       \* the one it read followed, and in the end goes on with
  since,      \* Server.since: from when each collector has been there
  stats,      \* Server.stats: the stay the statistics kept are of, by name
  kept,       \* what trips left, as [collector, generation read]
  applied     \* appliedGeneration

rvars == <<force, followed, doing, asked, cfg, mine, since, stats, kept, applied>>

-----------------------------------------------------------------------------

\* A reload puts a configuration in force, then follows it.
install(defs) ==
  /\ doing[Reloader] = "idle"
  /\ force.n < MaxReloads
  /\ force' = [n |-> force.n + 1, defs |-> defs]
  /\ doing' = [doing EXCEPT ![Reloader] = "asks"]
  /\ UNCHANGED <<followed, asked, cfg, mine, since, stats, kept, applied>>

\* reconcile: a probe, or the reload, reads the configuration in force ...
ReadForce(g) ==
  /\ doing[g] = IF g = Reloader THEN "asks" ELSE "idle"
  /\ doing' = [doing EXCEPT ![g] = "reads"]
  /\ asked' = [asked EXCEPT ![g] = force.n]
  /\ cfg' = [cfg EXCEPT ![g] = force]
  /\ UNCHANGED <<force, followed, mine, since, stats, kept, applied>>

\* Where a goroutine goes that has read configuration c in force and f
\* followed.
Goes(c, f) == IF f.config = c THEN "has" ELSE "plans"

\* ... and the one followed, and is done when they are the same.
ReadFollowed(g) ==
  /\ doing[g] = "reads"
  /\ mine' = [mine EXCEPT ![g] = followed]
  /\ doing' = [doing EXCEPT ![g] = Goes(cfg[g], followed)]
  /\ UNCHANGED <<force, followed, asked, cfg, since, stats, kept, applied>>

\* Makes a following: the statistics of the collectors gone go with them, and
\* what is kept of them and of the changed ones.
followLocked(next) ==
  /\ followed' = next
  /\ since' = [c \in Named(next.config) |->
                 IF c \in DOMAIN since THEN since[c] ELSE next.generation]
  /\ stats' = [c \in Names |-> IF c \in DOMAIN since' THEN stats[c] ELSE 0]
  /\ kept' = {k \in kept : k[1] \notin stale(followed, next)}

\* StillTo, but for what came between.
StillTo_Planned(g) == cfg[g].n > 0

\* The following worked out is still the one to make.
StillTo(g) == followed = mine[g] /\ force = cfg[g]

\* Under the statistics lock, the following worked out is made if it still is
\* the one to make, and otherwise worked out again from what is read there.
Make(g) ==
  /\ doing[g] = "plans"
  /\ \/ /\ StillTo(g)
        /\ followLocked(planFollowing(mine[g], cfg[g]))
        /\ mine' = [mine EXCEPT ![g] = followed']
        /\ doing' = [doing EXCEPT ![g] = "made"]
        /\ UNCHANGED cfg
     \/ /\ ~StillTo(g)
        /\ mine' = [mine EXCEPT ![g] = followed]
        /\ cfg' = [cfg EXCEPT ![g] = force]
        /\ doing' = [doing EXCEPT ![g] = Goes(force, followed)]
        /\ UNCHANGED <<followed, since, stats, kept>>
  /\ UNCHANGED <<force, asked, applied>>

\* Later, but for the order.
Later_Any(generation) == TRUE

Later(generation) == generation > applied

\* applyFollowed: the connections and rate limits follow, unless those of a
\* later generation have.
applyFollowed(g) ==
  /\ doing[g] = "made"
  /\ doing' = [doing EXCEPT ![g] = "has"]
  /\ applied' = IF Later(mine[g].generation) THEN mine[g].generation ELSE applied
  /\ UNCHANGED <<force, followed, asked, cfg, mine, since, stats, kept>>

\* A probe finds its collector's statistics (statsSince): those kept, if they
\* are of the stay it read the collector in, or kept from now on if it read
\* that stay and none are; otherwise some of its own, which go nowhere.
statsSince(g, c) ==
  /\ g \in Readers /\ doing[g] = "has" /\ c \in Named(mine[g].config)
  /\ stats[c] = 0 /\ c \in DOMAIN since /\ since[c] <= mine[g].generation
  /\ stats' = [stats EXCEPT ![c] = since[c]]
  /\ UNCHANGED <<force, followed, doing, asked, cfg, mine, since, kept, applied>>

\* write, but for whether its collector stands.
write_Anyway(g, c) ==
  /\ g \in Readers /\ doing[g] = "has" /\ c \in Named(mine[g].config)
  /\ doing' = [doing EXCEPT ![g] = "idle"]
  /\ kept' = kept \cup {<<c, mine[g].generation>>}
  /\ UNCHANGED <<force, followed, asked, cfg, mine, since, stats, applied>>

\* Its trip ends, and what it leaves is kept if its collector stands.
write(g, c) ==
  /\ g \in Readers /\ doing[g] = "has" /\ c \in Named(mine[g].config)
  /\ doing' = [doing EXCEPT ![g] = "idle"]
  /\ kept' = kept \cup (IF stands(c, mine[g].generation)
                          THEN {<<c, mine[g].generation>>} ELSE {})
  /\ UNCHANGED <<force, followed, asked, cfg, mine, since, stats, applied>>

\* A goroutine is done, with nothing left to write.
Done(g) ==
  /\ doing[g] = "has"
  /\ doing' = [doing EXCEPT ![g] = "idle"]
  /\ UNCHANGED <<force, followed, asked, cfg, mine, since, stats, kept, applied>>

-----------------------------------------------------------------------------

ReconcileInit ==
  /\ FollowingInit
  /\ doing = [g \in Goroutines |-> "idle"]
  /\ asked = [g \in Goroutines |-> 0]
  /\ cfg = [g \in Goroutines |-> force]
  /\ mine = [g \in Goroutines |-> followed]
  /\ since = followed.defined
  /\ stats = [c \in Names |-> 0]
  /\ kept = {} /\ applied = 1

ReconcileNext ==
  \/ \E d \in [Names -> Definitions \cup {None}] : install(d)
  \/ \E g \in Goroutines :
       \/ ReadForce(g) \/ ReadFollowed(g) \/ Make(g) \/ applyFollowed(g) \/ Done(g)
       \/ \E c \in Names : statsSince(g, c) \/ write(g, c)

ReconcileSpec == ReconcileInit /\ [][ReconcileNext]_rvars

-----------------------------------------------------------------------------
(* Properties.  That the steps above follow a reload in one step, as       *)
(* Following has it, is the property FollowingSpec.                        *)

\* Part of RetiredLeavesNothing: every variable has its type.
ReconcileTypeOK ==
  /\ FollowingTypeOK
  /\ doing \in [Goroutines -> {"idle", "asks", "reads", "plans", "made", "has"}]
  /\ asked \in [Goroutines -> 0 .. MaxReloads]
  /\ cfg \in [Goroutines -> Config]
  /\ \A g \in Goroutines : mine[g].config \in Config /\ mine[g].generation \in Nat
  /\ since \in [Named(followed.config) -> 1 .. followed.generation]
  /\ stats \in [Names -> Nat] /\ applied \in Nat
  /\ \A k \in kept : k[1] \in Names /\ k[2] \in Nat

\* Whoever asks after a reload goes on with its configuration or a later one,
\* whoever follows it.
NotBeforeAsked ==
  \A g \in Goroutines : doing[g] \in {"made", "has"} => mine[g].config.n >= asked[g]

\* The connections and rate limits are those of the latest following as soon
\* as those that made one have told of it, and never go back to an older one.
LatestApplied ==
  /\ applied <= followed.generation
  /\ (\A g \in Goroutines : doing[g] # "made") => applied = followed.generation

\* Nothing goes on with what is older than the reload it comes after.
FollowsTheLatest == NotBeforeAsked /\ LatestApplied

\* Part of RetiredLeavesNothing: the statistics kept for a collector are of
\* the stay it is in: one that is brought back under its name does not go on
\* with those of the one removed.
StatsOfStay == \A c \in Names : stats[c] # 0 => c \in DOMAIN since /\ stats[c] = since[c]

\* Nothing is kept that a trip of a definition no longer in force wrote, be
\* its definition in force again by now: it was dropped, or came too late.
RetiredLeavesNothing ==
  /\ ReconcileTypeOK
  /\ \A k \in kept : stands(k[1], k[2])
  /\ StatsOfStay

=============================================================================
