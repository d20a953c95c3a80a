----------------------------- MODULE BundleCache -----------------------------
(***************************************************************************)
(* The cache directory of a replica in allocator mode                      *)
(* (internal/allocclient/cache.go) and the configuration manager that      *)
(* reads it: a bundle received is written into a directory of its own,     *)
(* checked, put in place by links that change one by one, and reloaded     *)
(* under the reload lock; a signal or the watch reloads meanwhile, the     *)
(* process is killed, the power fails, and calls of the file system fail,  *)
(* with an error that is returned, or unseen, when a link or a list that   *)
(* cannot be read is taken for none.                                       *)
(*                                                                         *)
(* An entry of the directory is ..data, the link of a top-level name       *)
(* through it, or the directory of a generation, there when it is whole.   *)
(* `view' is what processes see of an entry.  `disk' holds what it has     *)
(* been since the directory was last synced: a loss of power leaves any of *)
(* that, each entry for itself.                                            *)
(***************************************************************************)
EXTENDS Naturals

CONSTANTS
  Generations,   \* generations of bundles
  Names,         \* top-level names of their files
  Config,        \* allocapi.ConfigFile, which every bundle has
  Targets,       \* allocapi.StaticTargetsFile
  NamesOf(_),    \* the top-level names of a generation
  None,
  CachedLoads,   \* whether a bundle found at the start always loads
  MaxKills,      \* bound: kills
  MaxLosses,     \* bound: losses of power
  MaxFailures,   \* bound: calls of the file system that fail
  MaxMisreads    \* bound: steps in which a failed read is taken for an empty one

ASSUME BundleAssumption ==
  /\ {Config, Targets} \subseteq Names /\ Config # Targets
  /\ \A g \in Generations : Config \in NamesOf(g) /\ NamesOf(g) \subseteq Names
  /\ None \notin Generations /\ "..data" \notin Names \cup Generations
  /\ Names \cap Generations = {} /\ CachedLoads \in BOOLEAN
  /\ {MaxKills, MaxLosses, MaxFailures, MaxMisreads} \subseteq Nat

VARIABLES
  view, disk,   \* the entries of the cache directory
  at,           \* where the client is with a bundle
  bundle,       \* the last one it went about
  links,        \* the relink under way, as [data, names, stage]
  before,       \* what its restore puts back, as [data, names]
  inForce,      \* Client.inForce
  seen,         \* Client.seen
  manager,      \* in force in the manager, as [config, targets, generation]
  next,         \* Manager.generation: the label of what it installs
  lock,         \* who holds reloadMu
  reader,       \* where a reload of a signal or the watch is
  read,         \* what it has read, as [config, targets]
  kills, losses, failures, misreads,
  misled        \* history: see Misled

client == <<at, bundle, links, before, inForce, seen>>
loaded == <<manager, next>>
reads  == <<reader, read>>
faults == <<kills, losses, failures, misreads, misled>>
vars   == <<view, disk, client, loaded, lock, reads, faults>>

Data    == "..data"
Entries == {Data} \cup Names \cup Generations

Linked(v) == {n \in Names : v[n]}

\* What linkedGeneration takes ..data to name: nothing, when it cannot be read.
linkedGeneration == {view[Data], None}

\* CachedGeneration: what a start finds.
Cached(v) ==
  LET g == v[Data]
  IN  IF g # None /\ v[g] /\ NamesOf(g) \subseteq Linked(v) THEN g ELSE None

\* What a loss of power may leave.
Possible ==
  {[e \in Entries |-> IF e = Data THEN d
                      ELSE IF disk[e] = BOOLEAN THEN e \in kept ELSE view[e]] :
     d \in disk[Data], kept \in SUBSET {e \in Names \cup Generations : disk[e] = BOOLEAN}}

-----------------------------------------------------------------------------
(* Changing the directory. *)

\* A step in which a failed read is taken for an empty one, if `missed'.
Misses(missed) ==
  IF missed THEN misreads < MaxMisreads /\ misreads' = misreads + 1
  ELSE UNCHANGED misreads

\* One that may cost what is in force its links or its directory, until a bundle
\* gets in force or is put back by repair.
Misled(missed) == Misses(missed) /\ misled' = (misled \/ missed)

\* Entries change to those of v, and are not on disk yet.
Become(v) ==
  /\ view' = v
  /\ disk' = [e \in Entries |-> disk[e] \cup {v[e]}]

Set(e, value) == Become([view EXCEPT ![e] = value])

\* Synced, but for the call.
Synced_No == disk

\* syncDir has what is seen on disk.
Synced == [e \in Entries |-> {view[e]}]

Sync == disk' = Synced /\ UNCHANGED view

\* discard, but for what ..data names.
discard_Any == Set(bundle, FALSE) /\ Misled(FALSE)

\* discard removes the bundle's directory, unless it reads that ..data names it.
discard ==
  \/ view[Data] = bundle /\ UNCHANGED <<view, disk>> /\ Misled(FALSE)
  \/ Set(bundle, FALSE) /\ Misled(view[Data] = bundle)

\* A relink to generation g and its names begins.
Begin(g, names) == links' = [data |-> g, names |-> names, stage |-> "links"]

Stage(s) == links' = [links EXCEPT !.stage = s]

\* One call of a relink: the links missing are made, the directory is synced,
\* ..data is replaced, the links of other names removed, and it is synced again.
\* Of names it did not see linked it makes links that are there, and removes none.
relink ==
  LET missing == links.names \ Linked(view)
      others  == Linked(view) \ links.names
  IN  \/ /\ links.stage = "links"
         /\ \E n \in missing : Set(n, TRUE)
         /\ Misses(FALSE) /\ UNCHANGED links
      \/ /\ links.stage = "links" /\ missing = {}
         /\ Misses(FALSE) /\ Sync /\ Stage("data")
      \/ links.stage = "data" /\ Misses(FALSE) /\ Set(Data, links.data) /\ Stage("unlinks")
      \/ /\ links.stage = "unlinks"
         /\ \E n \in others : Set(n, FALSE)
         /\ Misses(FALSE) /\ UNCHANGED links
      \/ links.stage = "unlinks" /\ Misses(others # {}) /\ Sync /\ Stage("done")

-----------------------------------------------------------------------------
(* Reloading what the directory names. *)

ConfigRead(v) == IF v[Config] /\ v[Data] # None /\ v[v[Data]] THEN v[Data] ELSE None

\* None for a file that is absent, which has no targets.
TargetsRead(v) ==
  IF v[Targets] /\ v[Data] # None /\ v[v[Data]] /\ Targets \in NamesOf(v[Data])
  THEN v[Data] ELSE None

\* apply: of the files read, both are put in force, or one, or none, and what
\* is not is refused.  The configuration takes the label along.
Parts == {"config", "targets"}

apply(parts, config, targets, label) ==
  /\ "config" \in parts => config # None
  /\ manager' = [config     |-> IF "config" \in parts THEN config ELSE manager.config,
                 targets    |-> IF "targets" \in parts THEN targets ELSE manager.targets,
                 generation |-> IF "config" \in parts THEN label ELSE manager.generation]

Reload(parts, label) == apply(parts, ConfigRead(view), TargetsRead(view), label)

\* ClientLocks, but for the lock.
ClientLocks_No == UNCHANGED lock

\* The client takes the reload lock.
ClientLocks == lock = "free" /\ lock' = "client"

Release == lock' = IF lock = "client" THEN "free" ELSE lock

-----------------------------------------------------------------------------
(* The client. *)

inUseUnchanged(b) == inForce = None /\ view[Data] = b /\ view[b]

\* A bundle is new to the client: it puts back what is in force if it does not
\* read that ..data names that, under the reload lock if there is any, and then
\* writes it.
Receive(b) ==
  /\ at = "idle" /\ b \notin {seen, inForce}
  /\ bundle' = b
  /\ \/ /\ inUseUnchanged(b) /\ Misses(FALSE)
        /\ at' = "checking" /\ UNCHANGED <<links, lock>>
     \/ \E g \in linkedGeneration :
          /\ Misses(inUseUnchanged(b) \/ g # view[Data])
          /\ \/ g = inForce /\ at' = "writing" /\ UNCHANGED <<links, lock>>
             \/ /\ g # inForce /\ at' = "repairing"
                /\ Begin(inForce, IF inForce = None THEN {} ELSE NamesOf(inForce))
                /\ IF inForce = None THEN UNCHANGED lock ELSE ClientLocks
  /\ UNCHANGED <<view, disk, before, inForce, seen, loaded, reads, kills, losses,
                 failures, misled>>

\* A bundle whose files are not its generation is refused as it is.
checkBundleRefuses(b) ==
  /\ at = "idle" /\ b \notin {seen, inForce}
  /\ seen' = b
  /\ UNCHANGED <<view, disk, at, bundle, links, before, inForce, loaded, lock,
                 reads, faults>>

repaired ==
  /\ at = "repairing" /\ links.stage = "done"
  /\ at' = "writing"
  /\ \/ inForce = None /\ UNCHANGED loaded
     \/ /\ inForce # None /\ next' = inForce
        /\ \E parts \in SUBSET Parts : Reload(parts, inForce)
  /\ Release /\ misled' = FALSE
  /\ UNCHANGED <<view, disk, bundle, links, before, inForce, seen, reads, kills, losses,
                 failures, misreads>>

\* What was left of the bundle's directory is removed, and it is written.
writeTree ==
  /\ \/ at = "writing" /\ Set(bundle, FALSE) /\ at' = "filling"
     \/ at = "filling" /\ Set(bundle, TRUE) /\ at' = "checking"
  /\ UNCHANGED <<bundle, links, before, inForce, seen, loaded, lock, reads, faults>>

\* CheckReplacement refuses the bundle, ...
CheckRefuses ==
  /\ at = "checking"
  /\ discard
  /\ seen' = bundle /\ at' = "idle"
  /\ UNCHANGED <<bundle, links, before, inForce, loaded, lock, reads, kills, losses,
                 failures>>

\* ... or takes it, and the client begins to put it in place, after it read what is:
\* no links when it cannot list the directory, and not those it cannot read.
swap ==
  /\ at = "checking"
  /\ ClientLocks
  /\ \E g \in linkedGeneration, names \in SUBSET Linked(view) :
       /\ before' = [data |-> g, names |-> names]
       /\ Misled(g # view[Data] \/ names # Linked(view))
  /\ Begin(bundle, NamesOf(bundle))
  /\ at' = "swapping"
  /\ UNCHANGED <<view, disk, bundle, inForce, seen, loaded, reads, kills, losses, failures>>

Relinking == {"repairing", "swapping", "restoring", "undoing"}

RelinkStep ==
  /\ at \in Relinking
  /\ relink
  /\ UNCHANGED <<at, bundle, before, inForce, seen, loaded, lock, reads, kills, losses,
                 failures, misled>>

\* The reload takes the bundle: it is in force, and the directories of others
\* are removed, those that removeOtherGenerations sees.
Installs ==
  /\ at = "swapping" /\ links.stage = "done"
  /\ Reload(Parts, bundle) /\ next' = bundle
  /\ inForce' = bundle /\ seen' = bundle
  /\ \/ /\ Become([e \in Entries |->
                     IF e \in Generations THEN e = bundle /\ view[e] ELSE view[e]])
        /\ Misses(FALSE)
     \/ Become(view) /\ Misses(TRUE)
  /\ misled' = FALSE
  /\ Release /\ at' = "idle"
  /\ UNCHANGED <<bundle, links, before, reads, kills, losses, failures>>

\* Previous, but for putting it back.
Previous_New == bundle

\* The label a refused reload puts back.
Previous == next

\* It refuses the bundle, of which a part may be in force, and the client begins
\* to put back what was in place.
ReloadRefuses ==
  /\ at = "swapping" /\ links.stage = "done"
  /\ \E parts \in SUBSET Parts : parts # Parts /\ Reload(parts, bundle)
  /\ next' = Previous
  /\ Begin(before.data, before.names)
  /\ at' = "undoing"
  /\ UNCHANGED <<view, disk, bundle, before, inForce, seen, lock, reads, faults>>

\* Back in place, it is reloaded.
undone ==
  /\ at = "undoing" /\ links.stage = "done"
  /\ \E parts \in SUBSET Parts : Reload(parts, next)
  /\ discard
  /\ seen' = bundle /\ at' = "idle" /\ Release
  /\ UNCHANGED <<bundle, links, before, inForce, next, reads, kills, losses, failures>>

\* A swap that failed has been put back.
restored ==
  /\ at = "restoring" /\ links.stage = "done"
  /\ discard
  /\ at' = "idle" /\ Release
  /\ UNCHANGED <<bundle, links, before, inForce, seen, loaded, reads, kills, losses,
                 failures>>

\* A call of the file system fails: writing the bundle, or a relink, of which a
\* swap is put back and the others are left as they are.
Fails ==
  /\ failures < MaxFailures /\ failures' = failures + 1
  /\ \/ /\ at \in {"writing", "filling"}
        /\ discard
        /\ at' = "idle" /\ UNCHANGED <<links, lock>>
     \/ /\ at = "swapping" /\ links.stage # "done"
        /\ Begin(before.data, before.names)
        /\ at' = "restoring" /\ Misled(FALSE) /\ UNCHANGED <<view, disk, lock>>
     \/ /\ at \in {"restoring", "undoing"} /\ links.stage # "done"
        /\ discard
        /\ at' = "idle" /\ Release /\ UNCHANGED links
     \/ /\ at = "repairing" /\ links.stage # "done"
        /\ at' = "idle" /\ Release /\ Misled(FALSE) /\ UNCHANGED <<view, disk, links>>
  /\ UNCHANGED <<bundle, before, inForce, seen, loaded, reads, kills, losses>>

-----------------------------------------------------------------------------
(* A reload of a signal, a request or the watch: it reads one file, then the *)
(* other, and puts in force what it may.                                     *)

NothingRead == [config |-> None, targets |-> None]

ReadConfig ==
  /\ reader = "idle" /\ lock = "free"
  /\ lock' = "reader" /\ reader' = "config"
  /\ read' = [NothingRead EXCEPT !.config = ConfigRead(view)]
  /\ UNCHANGED <<view, disk, client, loaded, faults>>

ReadTargets ==
  /\ reader = "config"
  /\ reader' = "both"
  /\ read' = [read EXCEPT !.targets = TargetsRead(view)]
  /\ UNCHANGED <<view, disk, client, loaded, lock, faults>>

Install ==
  /\ reader = "both"
  /\ \E parts \in SUBSET Parts : apply(parts, read.config, read.targets, next)
  /\ reader' = "idle" /\ read' = NothingRead
  /\ lock' = IF lock = "reader" THEN "free" ELSE lock
  /\ UNCHANGED <<view, disk, client, next, faults>>

-----------------------------------------------------------------------------
(* The start of the process. *)

\* Tidy: what is not g, the bundle found, is removed.
Tidied(v, g) ==
  [e \in Entries |-> IF e = Data THEN g
                     ELSE IF e \in Generations THEN e = g
                     ELSE g # None /\ v[e]]

\* startManager, in a directory of which v is seen and d was: with a bundle that
\* loads it is in force, and otherwise nothing is.  None is found when one cannot
\* be read, and nothing is removed when the directory cannot be listed.
Start(v, d) ==
  \E found \in {Cached(v), None} : \E tidied \in {Tidied(v, found), v} :
    /\ Misses(tidied # Tidied(v, Cached(v)))
    /\ view' = tidied
    /\ disk' = [e \in Entries |-> d[e] \cup {tidied[e]}]
    /\ \E g \in {found} \cup (IF CachedLoads THEN {} ELSE {None}) :
         /\ inForce' = g /\ seen' = g /\ next' = g
         /\ manager' = [config |-> g, generation |-> g,
                        targets |-> IF g = None THEN None ELSE TargetsRead(tidied)]
    /\ at' = "idle" /\ bundle' = None
    /\ links' = [data |-> None, names |-> {}, stage |-> "done"]
    /\ before' = [data |-> None, names |-> {}]
    /\ lock' = "free" /\ reader' = "idle" /\ read' = NothingRead
    /\ misled' = FALSE

Kill ==
  /\ kills < MaxKills /\ kills' = kills + 1
  /\ Start(view, disk)
  /\ UNCHANGED <<losses, failures>>

LosePower ==
  /\ losses < MaxLosses /\ losses' = losses + 1
  /\ \E v \in Possible : Start(v, [e \in Entries |-> {v[e]}])
  /\ UNCHANGED <<kills, failures>>

Init ==
  /\ view = [e \in Entries |-> IF e = Data THEN None ELSE FALSE]
  /\ disk = [e \in Entries |-> {view[e]}]
  /\ at = "idle" /\ bundle = None /\ inForce = None /\ seen = None
  /\ links = [data |-> None, names |-> {}, stage |-> "done"]
  /\ before = [data |-> None, names |-> {}]
  /\ manager = [config |-> None, targets |-> None, generation |-> None]
  /\ next = None /\ lock = "free" /\ reader = "idle" /\ read = NothingRead
  /\ kills = 0 /\ losses = 0 /\ failures = 0 /\ misreads = 0 /\ misled = FALSE

Next ==
  \/ \E b \in Generations : Receive(b) \/ checkBundleRefuses(b)
  \/ repaired \/ writeTree \/ CheckRefuses \/ swap \/ RelinkStep
  \/ Installs \/ ReloadRefuses \/ undone \/ restored \/ Fails
  \/ ReadConfig \/ ReadTargets \/ Install
  \/ Kill \/ LosePower

Spec == Init /\ [][Next]_vars

-----------------------------------------------------------------------------
(* Properties. *)

Some == Generations \cup {None}

\* Every variable has its type, what is seen may be what is on disk, and the
\* client holds the reload lock just while it relinks what a reload may read.
TypeOK ==
  /\ \A e \in Entries : /\ view[e] \in IF e = Data THEN Some ELSE BOOLEAN
                        /\ view[e] \in disk[e]
  /\ at \in Relinking \cup {"idle", "writing", "filling", "checking"}
  /\ {bundle, inForce, seen, next} \subseteq Some
  /\ links.data \in Some /\ links.names \subseteq Names
  /\ links.stage \in {"links", "data", "unlinks", "done"}
  /\ before.data \in Some /\ before.names \subseteq Names
  /\ {manager.config, manager.targets, manager.generation} \subseteq Some
  /\ lock \in {"free", "client", "reader"}
  /\ lock = "client" <=> \/ at \in {"swapping", "restoring", "undoing"}
                         \/ at = "repairing" /\ inForce # None
  /\ lock = "reader" <=> reader # "idle"

\* No call of the file system failed, seen or unseen.
Unfailing == failures = 0 /\ misreads = 0

\* Once a bundle is in force a start after a kill finds a whole bundle in the
\* directory, whatever call that changes it failed, unless swap or discard took
\* what they could not read for nothing since it was last put in place; when no
\* call failed, it is the one in force or the one going about to be, and between
\* bundles the one in force.
KillSafe ==
  /\ TypeOK
  /\ inForce # None =>
       /\ ~misled => Cached(view) # None
       /\ Unfailing => Cached(view) \in {inForce, bundle}
       /\ Unfailing /\ at = "idle" => Cached(view) = inForce

\* What is put in force survives a loss of power: a start finds the generation
\* before or the whole new one, whichever changes of the directory are on disk.
PowerSafe ==
  inForce # None => \A v \in Possible : Cached(v) \in {inForce, bundle}

\* Nothing cut the client short before, which may leave changes not synced.
Undisturbed == kills = 0 /\ Unfailing

\* PowerSafe, of a bundle that takes no name of the one in force away, and, once
\* it is taken back, has none that goes away with it.
PowerSafeOfNames ==
  Undisturbed /\ inForce # None /\ bundle # None =>
    ((IF at = "undoing" THEN NamesOf(bundle) \subseteq NamesOf(inForce)
      ELSE NamesOf(inForce) \subseteq NamesOf(bundle))
     => PowerSafe)

\* A reload reads the files of one generation, never some of each, and the
\* generation the manager names is that of the configuration in force.
OneGeneration ==
  Undisturbed =>
    /\ reader = "both" /\ read.config # None =>
         read.targets = IF Targets \in NamesOf(read.config) THEN read.config ELSE None
    /\ manager.generation = manager.config

=============================================================================
