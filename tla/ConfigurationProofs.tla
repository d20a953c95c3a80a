------------------------- MODULE ConfigurationProofs -------------------------
(***************************************************************************)
(* What BundleCache promises for any generations and names of bundles, and *)
(* any number of kills, losses of power and failures; and ConfigWatch, for *)
(* any files, changed any number of times.                                 *)
(***************************************************************************)
EXTENDS BundleCache, ConfigWatch, TLAPS

Views ==
  {v \in [Entries -> Some \cup BOOLEAN] :
     v[Data] \in Some /\ \A e \in Names \cup Generations : v[e] \in BOOLEAN}

DirectoryTyped ==
  /\ view \in Views
  /\ disk \in [Entries -> SUBSET (Some \cup BOOLEAN)]
  /\ disk[Data] \subseteq Some
  /\ \A e \in Names \cup Generations : disk[e] \subseteq BOOLEAN
  /\ \A e \in Entries : view[e] \in disk[e]

Links == [data : Some, names : SUBSET Names, stage : {"links", "data", "unlinks", "done"}]

ClientTyped ==
  /\ at \in Relinking \cup {"idle", "writing", "filling", "checking"}
  /\ bundle \in Some /\ inForce \in Some /\ seen \in Some /\ next \in Some
  /\ links \in Links
  /\ before \in [data : Some, names : SUBSET Names]
  /\ manager \in [config : Some, targets : Some, generation : Some]
  /\ read \in [config : Some, targets : Some]
  /\ reader \in {"idle", "config", "both"}
  /\ failures \in Nat /\ misreads \in Nat
  /\ misled \in BOOLEAN /\ (misled => misreads # 0)

\* The reload lock is whose it is said to be.
LockHeld ==
  /\ lock \in {"free", "client", "reader"}
  /\ lock = "client" <=> \/ at \in {"swapping", "restoring", "undoing"}
                         \/ at = "repairing" /\ inForce # None
  /\ lock = "reader" <=> reader # "idle"

\* What a start would find there.
Whole(v) == v[Data] # None /\ v[v[Data]] = TRUE /\ \A n \in NamesOf(v[Data]) : v[n] = TRUE

\* A relink has made its links before it replaces ..data, and removes no other.
LinkedSoFar ==
  /\ links.stage \in {"data", "unlinks", "done"} => \A n \in links.names : view[n] = TRUE
  /\ links.stage \in {"unlinks", "done"} => view[Data] = links.data

LEMMA EntriesApart ==
  /\ Data \in Entries /\ Names \subseteq Entries /\ Generations \subseteq Entries
  /\ Data \notin Names /\ Data \notin Generations /\ None \notin Generations
  /\ \A g \in Generations : g \in Entries /\ g \notin Names /\ g # Data /\ g # None
  /\ \A n \in Names : n \in Entries /\ n \notin Generations /\ n # Data
  /\ Generations \subseteq Some /\ None \in Some
  /\ \A e \in Entries : e = Data \/ e \in Names \cup Generations
BY BundleAssumption DEF Entries, Data, Some

LEMMA ViewSet ==
  ASSUME NEW v \in Views
  PROVE  /\ \A e \in Names \cup Generations, b \in BOOLEAN : [v EXCEPT ![e] = b] \in Views
         /\ \A g \in Some : [v EXCEPT ![Data] = g] \in Views
<1> USE EntriesApart DEF Views
<1>1. ASSUME NEW e \in Names \cup Generations, NEW b \in BOOLEAN
      PROVE  [v EXCEPT ![e] = b] \in Views
  BY <1>1
<1>2. ASSUME NEW g \in Some
      PROVE  [v EXCEPT ![Data] = g] \in Views
  BY <1>2
<1> QED BY <1>1, <1>2

LEMMA BecomesTyped ==
  ASSUME DirectoryTyped, NEW v \in Views, Become(v)
  PROVE  DirectoryTyped'
<1> USE EntriesApart DEF DirectoryTyped
<1>1. view' = v /\ disk' = [e \in Entries |-> disk[e] \cup {v[e]}]
  BY DEF Become
<1>2. \A e \in Entries : v[e] \in Some \cup BOOLEAN
  BY DEF Views
<1>3. v[Data] \in Some /\ \A e \in Names \cup Generations : v[e] \in BOOLEAN
  BY DEF Views
<1>4. disk' \in [Entries -> SUBSET (Some \cup BOOLEAN)]
  BY <1>1, <1>2
<1>5. \A e \in Entries : disk'[e] = disk[e] \cup {v[e]}
  BY <1>1
<1> QED BY <1>1, <1>3, <1>4, <1>5

LEMMA SyncedTyped ==
  ASSUME DirectoryTyped, Sync
  PROVE  DirectoryTyped'
<1> USE EntriesApart DEF DirectoryTyped
<1>1. view' = view /\ disk' = [e \in Entries |-> {view[e]}]
  BY DEF Sync, Synced
<1>2. \A e \in Entries : view[e] \in Some \cup BOOLEAN
  BY DEF Views
<1>3. view[Data] \in Some /\ \A e \in Names \cup Generations : view[e] \in BOOLEAN
  BY DEF Views
<1>4. disk' \in [Entries -> SUBSET (Some \cup BOOLEAN)]
  BY <1>1, <1>2
<1>5. \A e \in Entries : disk'[e] = {view[e]}
  BY <1>1
<1> QED BY <1>1, <1>3, <1>4, <1>5

LEMMA CachedWhole ==
  ASSUME NEW v \in Views
  PROVE  /\ Whole(v) => Cached(v) = v[Data]
         /\ ~Whole(v) => Cached(v) = None
         /\ Cached(v) \in Some
<1>1. v[Data] \in Some
  BY DEF Views
<1>2. v[Data] # None => v[Data] \in Generations
  BY <1>1 DEF Some
<1>3. v[Data] # None => /\ v[v[Data]] \in BOOLEAN
                        /\ NamesOf(v[Data]) \subseteq Names
                        /\ \A n \in NamesOf(v[Data]) : v[n] \in BOOLEAN
  BY <1>2, BundleAssumption DEF Views
<1>4. v[Data] # None => (NamesOf(v[Data]) \subseteq Linked(v)
                           <=> \A n \in NamesOf(v[Data]) : v[n] = TRUE)
  BY <1>3 DEF Linked
<1> QED BY <1>1, <1>3, <1>4 DEF Cached, Whole, Some

\* What reads that fail are counted as.
LEMMA MissesIs ==
  ASSUME misreads \in Nat, NEW missed, Misses(missed)
  PROVE  misreads' \in Nat /\ (misreads' = misreads \/ misreads' # 0)
         /\ (misreads # 0 => misreads' # 0)
         /\ (missed => misreads' # 0) /\ (~missed => misreads' = misreads)
BY DEF Misses

LEMMA MisledIs ==
  ASSUME misreads \in Nat, misled \in BOOLEAN, misled => misreads # 0,
         NEW missed \in BOOLEAN, Misled(missed)
  PROVE  /\ misreads' \in Nat /\ misled' \in BOOLEAN /\ (misled' => misreads' # 0)
         /\ misreads # 0 => misreads' # 0
         /\ missed => misled' = TRUE /\ misreads' # 0
         /\ ~missed => misled' = misled /\ misreads' = misreads
         /\ misled => misled' = TRUE
BY MissesIs DEF Misled

-----------------------------------------------------------------------------
(* A call of a relink, each of its kinds. *)

RelinkTo(g, names) == /\ g # None /\ view[g] = TRUE
                      /\ g \in Generations /\ NamesOf(g) \subseteq names

\* A link is made.
LinkMade(n) ==
  links.stage = "links" /\ n \in links.names /\ Set(n, TRUE) /\ links' = links

\* All are, and on disk.
LinksOnDisk ==
  /\ links.stage = "links" /\ \A n \in links.names : view[n] = TRUE
  /\ Sync /\ Stage("data")

Replaced == links.stage = "data" /\ Set(Data, links.data) /\ Stage("unlinks")

\* The link of another name is removed.
LinkRemoved(n) ==
  /\ links.stage = "unlinks" /\ n \in Names \ links.names
  /\ Set(n, FALSE) /\ links' = links

RelinkDone == links.stage = "unlinks" /\ Sync /\ Stage("done")

LEMMA RelinkKinds ==
  ASSUME DirectoryTyped, links \in Links, relink
  PROVE  \/ \E n \in Names : LinkMade(n) /\ view[n] # TRUE
         \/ LinksOnDisk \/ Replaced
         \/ \E n \in Names : LinkRemoved(n)
         \/ RelinkDone
<1>1. links.names \subseteq Names
  BY DEF Links
<1>2. Linked(view) = {n \in Names : view[n]}
  BY DEF Linked
<1>3. \A n \in Names : view[n] \in BOOLEAN
  BY DEF DirectoryTyped, Views
<1>4. CASE links.stage = "links" /\ \E n \in links.names \ Linked(view) : Set(n, TRUE)
             /\ links' = links
  <2>1. PICK n \in links.names \ Linked(view) : Set(n, TRUE)
    BY <1>4
  <2>2. n \in Names /\ view[n] # TRUE
    BY <1>1, <1>2, <1>3, <2>1
  <2> QED BY <1>4, <2>1, <2>2 DEF LinkMade
<1>5. CASE links.stage = "links" /\ links.names \ Linked(view) = {} /\ Sync /\ Stage("data")
  <2>1. \A n \in links.names : n \in Linked(view)
    BY <1>5
  <2>2. \A n \in links.names : view[n] = TRUE
    BY <2>1, <1>2, <1>3
  <2> QED BY <1>5, <2>2 DEF LinksOnDisk
<1>6. CASE links.stage = "unlinks" /\ \E n \in Linked(view) \ links.names : Set(n, FALSE)
             /\ links' = links
  BY <1>2, <1>6 DEF LinkRemoved
<1> QED BY <1>4, <1>5, <1>6 DEF relink, Replaced, RelinkDone

LEMMA StageIs ==
  ASSUME links \in Links, NEW s \in {"links", "data", "unlinks", "done"}, Stage(s)
  PROVE  /\ links' \in Links /\ links'.stage = s
         /\ links'.data = links.data /\ links'.names = links.names
BY DEF Stage, Links

LEMMA SetIs ==
  ASSUME DirectoryTyped, NEW e \in Entries, NEW value, Set(e, value)
  PROVE  /\ view' = [view EXCEPT ![e] = value]
         /\ view'[e] = value
         /\ \A f \in Entries : f # e => view'[f] = view[f]
<1>1. view' = [view EXCEPT ![e] = value]
  BY DEF Set, Become
<1> QED BY <1>1 DEF DirectoryTyped, Views

LEMMA SetTyped ==
  ASSUME DirectoryTyped
  PROVE  /\ \A e \in Names \cup Generations, b \in BOOLEAN : Set(e, b) => DirectoryTyped'
         /\ \A g \in Some : Set(Data, g) => DirectoryTyped'
<1>1. view \in Views
  BY DEF DirectoryTyped
<1>2. ASSUME NEW e \in Names \cup Generations, NEW b \in BOOLEAN, Set(e, b)
      PROVE  DirectoryTyped'
  <2>1. [view EXCEPT ![e] = b] \in Views
    BY <1>1, ViewSet
  <2> QED BY <1>2, <2>1, BecomesTyped DEF Set
<1>3. ASSUME NEW g \in Some, Set(Data, g)
      PROVE  DirectoryTyped'
  <2>1. [view EXCEPT ![Data] = g] \in Views
    BY <1>1, ViewSet
  <2> QED BY <1>3, <2>1, BecomesTyped DEF Set
<1> QED BY <1>2, <1>3

LEMMA RelinkDoes ==
  ASSUME DirectoryTyped, links \in Links, LinkedSoFar, relink
  PROVE  /\ DirectoryTyped' /\ links' \in Links /\ LinkedSoFar'
         /\ links'.data = links.data /\ links'.names = links.names
         /\ \A g \in Generations : view'[g] = view[g]
         /\ view'[Data] \in {view[Data], links.data}
         /\ Whole(view) /\ RelinkTo(links.data, links.names) => Whole(view')
<1>1. links.data \in Some /\ links.names \subseteq Names
  BY DEF Links
<1>2. ASSUME NEW n \in Names, LinkMade(n)
      PROVE  /\ DirectoryTyped' /\ links' = links /\ LinkedSoFar'
             /\ \A g \in Generations : view'[g] = view[g]
             /\ view'[Data] = view[Data]
             /\ Whole(view) => Whole(view')
  <2>1. DirectoryTyped' /\ links' = links /\ links.stage = "links"
    BY <1>2, SetTyped DEF LinkMade
  <2>2. view'[n] = TRUE /\ \A f \in Entries : f # n => view'[f] = view[f]
    BY <1>2, SetIs, EntriesApart DEF LinkMade
  <2>3. LinkedSoFar'
    BY <2>1 DEF LinkedSoFar
  <2>4. view'[Data] = view[Data] /\ \A g \in Generations : view'[g] = view[g]
    BY <2>2, EntriesApart
  <2>5. view[Data] \in Some
    BY DEF DirectoryTyped, Views
  <2>6. Whole(view) => Whole(view')
    BY <2>2, <2>4, <2>5, EntriesApart, BundleAssumption DEF Whole, Some
  <2> QED BY <2>1, <2>3, <2>4, <2>6
<1>3. ASSUME Sync, \E s \in {"data", "done"} : Stage(s),
             LinksOnDisk \/ RelinkDone
      PROVE  /\ DirectoryTyped' /\ links' \in Links /\ LinkedSoFar' /\ view' = view
             /\ links'.data = links.data /\ links'.names = links.names
  <2>1. DirectoryTyped' /\ view' = view
    BY <1>3, SyncedTyped DEF Sync
  <2>2. /\ links' \in Links /\ links'.data = links.data /\ links'.names = links.names
        /\ LinksOnDisk => links'.stage = "data"
        /\ RelinkDone => links'.stage = "done"
    BY <1>3, StageIs DEF LinksOnDisk, RelinkDone
  <2>3. LinkedSoFar'
    BY <1>3, <2>1, <2>2 DEF LinksOnDisk, RelinkDone, LinkedSoFar
  <2> QED BY <2>1, <2>2, <2>3
<1>4. ASSUME Replaced
      PROVE  /\ DirectoryTyped' /\ links' \in Links /\ LinkedSoFar'
             /\ links'.data = links.data /\ links'.names = links.names
             /\ \A g \in Generations : view'[g] = view[g]
             /\ view'[Data] = links.data
             /\ RelinkTo(links.data, links.names) => Whole(view')
  <2>1. DirectoryTyped'
    BY <1>1, <1>4, SetTyped DEF Replaced
  <2>2. /\ links' \in Links /\ links'.data = links.data /\ links'.names = links.names
        /\ links'.stage = "unlinks"
    BY <1>4, StageIs DEF Replaced
  <2>3. view'[Data] = links.data /\ \A f \in Entries : f # Data => view'[f] = view[f]
    BY <1>4, SetIs, EntriesApart DEF Replaced
  <2>4. \A n \in links.names : view'[n] = TRUE
    BY <1>1, <1>4, <2>3, EntriesApart DEF Replaced, LinkedSoFar
  <2>5. LinkedSoFar'
    BY <2>2, <2>3, <2>4 DEF LinkedSoFar
  <2>6. \A g \in Generations : view'[g] = view[g]
    BY <2>3, EntriesApart
  <2>7. RelinkTo(links.data, links.names) => Whole(view')
    BY <2>3, <2>4, <2>6 DEF RelinkTo, Whole
  <2> QED BY <2>1, <2>2, <2>3, <2>5, <2>6, <2>7
<1>5. ASSUME NEW n \in Names, LinkRemoved(n)
      PROVE  /\ DirectoryTyped' /\ links' = links /\ LinkedSoFar'
             /\ \A g \in Generations : view'[g] = view[g]
             /\ view'[Data] = view[Data]
             /\ RelinkTo(links.data, links.names) => Whole(view')
  <2>1. DirectoryTyped' /\ links' = links /\ links.stage = "unlinks" /\ n \notin links.names
    BY <1>5, SetTyped DEF LinkRemoved
  <2>2. \A f \in Entries : f # n => view'[f] = view[f]
    BY <1>5, SetIs, EntriesApart DEF LinkRemoved
  <2>3. view'[Data] = view[Data] /\ \A g \in Generations : view'[g] = view[g]
    BY <2>2, EntriesApart
  <2>4. view[Data] = links.data /\ \A m \in links.names : view[m] = TRUE
    BY <2>1 DEF LinkedSoFar
  <2>5. \A m \in links.names : view'[m] = TRUE
    BY <1>1, <2>1, <2>2, <2>4, EntriesApart
  <2>6. LinkedSoFar'
    BY <2>1, <2>3, <2>4, <2>5 DEF LinkedSoFar
  <2>7. RelinkTo(links.data, links.names) => Whole(view')
    BY <2>3, <2>4, <2>5 DEF RelinkTo, Whole
  <2> QED BY <2>1, <2>3, <2>6, <2>7
<1>6. CASE LinksOnDisk \/ RelinkDone
  <2>1. Sync /\ \E s \in {"data", "done"} : Stage(s)
    BY <1>6 DEF LinksOnDisk, RelinkDone
  <2> QED BY <1>3, <1>6, <2>1
<1>7. CASE \E n \in Names : LinkMade(n)
  BY <1>2, <1>7
<1>8. CASE \E n \in Names : LinkRemoved(n)
  BY <1>5, <1>8
<1> QED BY <1>4, <1>6, <1>7, <1>8, RelinkKinds

-----------------------------------------------------------------------------
(* A start finds a bundle. *)

\* Where ..data is, and what a relink that may be cut short goes back to.
Going ==
  /\ at # "idle" => bundle \in Generations /\ bundle # inForce
  /\ at \in {"writing", "filling", "checking"} /\ inForce # None => view[Data] = inForce
  /\ at = "checking" => view[bundle] = TRUE

InPlace ==
  /\ at = "repairing" =>
       links.data = inForce /\ (inForce # None => NamesOf(inForce) \subseteq links.names)
  /\ at = "swapping" =>
       links.data = bundle /\ NamesOf(bundle) \subseteq links.names /\ view[bundle] = TRUE
  /\ at \in {"swapping", "restoring", "undoing"} /\ inForce # None /\ ~misled =>
       /\ before.data = inForce /\ NamesOf(inForce) \subseteq before.names
       /\ view[Data] \in {inForce, bundle}
  /\ at \in {"restoring", "undoing"} =>
       links.data = before.data /\ links.names = before.names
  /\ at \in Relinking => LinkedSoFar

\* The directory of what is in force stays; a bundle is whole unless a read misled,
\* and what is in force is in place but after a failure.
Found ==
  inForce # None =>
    /\ view[inForce] = TRUE
    /\ ~misled => Whole(view)
    /\ Unfailing => at # "repairing" /\ (at = "idle" => view[Data] = inForce)

BundleInv == DirectoryTyped /\ ClientTyped /\ LockHeld /\ Going /\ InPlace /\ Found

LEMMA KillSafeFollows == BundleInv => KillSafe
<1> SUFFICES ASSUME BundleInv PROVE KillSafe
  OBVIOUS
<1> USE EntriesApart DEF BundleInv
<1>1. \A e \in Entries : view[e] \in IF e = Data THEN Some ELSE BOOLEAN
  BY DEF DirectoryTyped, Views
<1>2. \A e \in Entries : view[e] \in disk[e]
  BY DEF DirectoryTyped
<1>3. TypeOK
  <2>1. {bundle, inForce, seen, next} \subseteq Some
    BY DEF ClientTyped
  <2>2. /\ links.data \in Some /\ links.names \subseteq Names
        /\ links.stage \in {"links", "data", "unlinks", "done"}
    BY DEF ClientTyped, Links
  <2>3. before.data \in Some /\ before.names \subseteq Names
    BY DEF ClientTyped
  <2>4. {manager.config, manager.targets, manager.generation} \subseteq Some
    BY DEF ClientTyped
  <2>5. at \in Relinking \cup {"idle", "writing", "filling", "checking"}
    BY DEF ClientTyped
  <2> QED BY <1>1, <1>2, <2>1, <2>2, <2>3, <2>4, <2>5 DEF TypeOK, LockHeld
<1>4. view \in Views
  BY DEF DirectoryTyped
<1>5. inForce # None /\ ~misled => Cached(view) = view[Data] /\ view[Data] # None
  BY <1>4, CachedWhole DEF Found, Whole
<1>0. Unfailing => ~misled
  BY DEF ClientTyped, Unfailing
<1>6. inForce # None /\ Unfailing => view[Data] \in {inForce, bundle}
  BY <1>0 DEF Found, Going, InPlace, ClientTyped, Relinking
<1>7. inForce # None /\ Unfailing /\ at = "idle" => view[Data] = inForce
  BY DEF Found
<1> QED BY <1>0, <1>3, <1>5, <1>6, <1>7 DEF KillSafe

LEMMA DiscardDoes ==
  ASSUME DirectoryTyped, ClientTyped, bundle \in Generations, discard
  PROVE  /\ DirectoryTyped'
         /\ \A e \in Entries : e # bundle => view'[e] = view[e]
         /\ Whole(view) /\ ~misled' => Whole(view')
         /\ misreads' \in Nat /\ misled' \in BOOLEAN /\ (misled' => misreads' # 0)
         /\ (misreads # 0 => misreads' # 0) /\ (misled => misled' = TRUE)
         /\ disk' = disk \/ Set(bundle, FALSE)
<1>0. misreads \in Nat /\ misled \in BOOLEAN /\ (misled => misreads # 0)
  BY DEF ClientTyped
<1>1. CASE view[Data] = bundle /\ UNCHANGED <<view, disk>> /\ Misled(FALSE)
  <2>1. view' = view /\ disk' = disk
    BY <1>1
  <2> QED BY <1>0, <1>1, <2>1, MisledIs DEF DirectoryTyped, Whole
<1>2. CASE Set(bundle, FALSE) /\ Misled(view[Data] = bundle)
  <2>2. \A e \in Entries : e # bundle => view'[e] = view[e]
    BY <1>2, SetIs, EntriesApart
  <2>3. DirectoryTyped'
    BY <1>2, SetTyped
  <2>4. view'[Data] = view[Data] /\ \A n \in Names : view'[n] = view[n]
    BY <2>2, EntriesApart
  <2>5. view[Data] \in Some
    BY DEF DirectoryTyped, Views
  <2>7. PICK missed \in BOOLEAN : missed = (view[Data] = bundle)
    OBVIOUS
  <2>8. /\ misreads' \in Nat /\ misled' \in BOOLEAN /\ (misled' => misreads' # 0)
        /\ (misreads # 0 => misreads' # 0) /\ (misled => misled' = TRUE)
        /\ missed => misled' = TRUE
    BY <1>0, <1>2, <2>7, MisledIs
  <2>6. Whole(view) /\ ~misled' => Whole(view')
    BY <2>2, <2>4, <2>5, <2>7, <2>8, EntriesApart, BundleAssumption DEF Whole, Some
  <2> QED BY <1>2, <2>2, <2>3, <2>6, <2>8
<1> QED BY <1>1, <1>2 DEF discard

LEMMA ReloadTyped ==
  ASSUME ClientTyped, DirectoryTyped, NEW parts \in SUBSET Parts, NEW label \in Some,
         Reload(parts, label) \/ apply(parts, read.config, read.targets, label)
  PROVE  manager' \in [config : Some, targets : Some, generation : Some]
<1>1. ConfigRead(view) \in Some /\ TargetsRead(view) \in Some
  BY EntriesApart DEF ConfigRead, TargetsRead, DirectoryTyped, Views
<1>2. read.config \in Some /\ read.targets \in Some
  BY DEF ClientTyped
<1>3. /\ manager.config \in Some /\ manager.targets \in Some
      /\ manager.generation \in Some
  BY DEF ClientTyped
<1> QED BY <1>1, <1>2, <1>3 DEF Reload, apply

LEMMA ReceiveKeepsBundle ==
  ASSUME BundleInv, NEW b \in Generations, Receive(b)
  PROVE  BundleInv'
<1> USE EntriesApart DEF BundleInv
<1>1. /\ view' = view /\ disk' = disk /\ inForce' = inForce /\ bundle' = b
      /\ b # inForce /\ at = "idle" /\ before' = before /\ failures' = failures
      /\ seen' = seen /\ next' = next /\ manager' = manager /\ read' = read
      /\ reader' = reader /\ misled' = misled
  BY DEF Receive, loaded, reads
<1>2. DirectoryTyped'
  BY <1>1 DEF DirectoryTyped
<1>3. CASE /\ inUseUnchanged(b) /\ Misses(FALSE)
           /\ at' = "checking" /\ UNCHANGED <<links, lock>>
  <2>0. misreads' = misreads
    BY <1>3 DEF Misses
  <2>1. ClientTyped' /\ LockHeld'
    BY <1>1, <1>3, <2>0 DEF ClientTyped, Relinking, LockHeld
  <2>2. view[b] = TRUE
    BY <1>3 DEF inUseUnchanged, DirectoryTyped, Views
  <2> QED BY <1>1, <1>2, <1>3, <2>1, <2>2
          DEF Going, InPlace, Found, inUseUnchanged, Relinking
<1>4. ASSUME NEW g \in linkedGeneration, NEW missed \in BOOLEAN, Misses(missed),
             g # view[Data] => missed,
             \/ g = inForce /\ at' = "writing" /\ UNCHANGED <<links, lock>>
             \/ /\ g # inForce /\ at' = "repairing"
                /\ Begin(inForce, IF inForce = None THEN {} ELSE NamesOf(inForce))
                /\ IF inForce = None THEN UNCHANGED lock ELSE ClientLocks
      PROVE  BundleInv'
  <2>1. /\ misreads' \in Nat /\ (misled => misreads' # 0)
        /\ Unfailing' => Unfailing /\ ~missed
    <3>1. misreads \in Nat
      BY DEF ClientTyped
    <3> QED BY <1>1, <1>4, <3>1, MissesIs DEF ClientTyped, Unfailing
  <2>2. g \in {view[Data], None}
    BY <1>4 DEF linkedGeneration
  <2>3. CASE g = inForce /\ at' = "writing" /\ UNCHANGED <<links, lock>>
    <3>1. ClientTyped' /\ LockHeld'
      BY <1>1, <2>1, <2>3 DEF ClientTyped, Relinking, LockHeld
    <3>2. Found'
      BY <1>1, <2>1, <2>3 DEF Found, Whole
    <3>3. Going' /\ InPlace'
      BY <1>1, <2>2, <2>3 DEF Going, InPlace, Relinking
    <3> QED BY <1>2, <3>1, <3>2, <3>3
  <2>4. CASE /\ g # inForce /\ at' = "repairing"
             /\ Begin(inForce, IF inForce = None THEN {} ELSE NamesOf(inForce))
             /\ IF inForce = None THEN UNCHANGED lock ELSE ClientLocks
    <3>1. /\ links' \in Links /\ links'.data = inForce /\ links'.stage = "links"
          /\ inForce # None => links'.names = NamesOf(inForce)
      <4>1. inForce \in Some
        BY DEF ClientTyped
      <4>2. (IF inForce = None THEN {} ELSE NamesOf(inForce)) \in SUBSET Names
        BY <4>1, BundleAssumption DEF Some
      <4> QED BY <2>4, <4>1, <4>2 DEF Begin, Links
    <3>2. ClientTyped'
      BY <1>1, <2>1, <2>4, <3>1 DEF ClientTyped, Relinking
    <3>3. LockHeld'
      BY <1>1, <2>4 DEF LockHeld, ClientLocks
    <3>4. inForce # None => ~Unfailing'
      BY <1>1, <1>4, <2>1, <2>4 DEF Found
    <3>5. Found'
      BY <1>1, <3>4 DEF Found, Whole
    <3>6. Going' /\ InPlace'
      BY <1>1, <2>4, <3>1 DEF Going, InPlace, LinkedSoFar
    <3> QED BY <1>2, <3>2, <3>3, <3>5, <3>6
  <2> QED BY <1>4, <2>3, <2>4
<1>5. ASSUME ~(inUseUnchanged(b) /\ Misses(FALSE)
               /\ at' = "checking" /\ UNCHANGED <<links, lock>>)
      PROVE  BundleInv'
  <2>1. PICK g \in linkedGeneration :
          /\ Misses(inUseUnchanged(b) \/ g # view[Data])
          /\ \/ g = inForce /\ at' = "writing" /\ UNCHANGED <<links, lock>>
             \/ /\ g # inForce /\ at' = "repairing"
                /\ Begin(inForce, IF inForce = None THEN {} ELSE NamesOf(inForce))
                /\ IF inForce = None THEN UNCHANGED lock ELSE ClientLocks
    BY <1>5 DEF Receive
  <2>2. PICK missed \in BOOLEAN : missed = (inUseUnchanged(b) \/ g # view[Data])
    BY Zenon
  <2>3. Misses(missed) /\ (g # view[Data] => missed)
    BY <2>1, <2>2
  <2> QED BY <1>4, <2>1, <2>3
<1> QED BY <1>3, <1>5

LEMMA RefusedKeepsBundle ==
  ASSUME BundleInv, NEW b \in Generations, checkBundleRefuses(b)
  PROVE  BundleInv'
<1> USE EntriesApart DEF BundleInv
<1>1. /\ view' = view /\ disk' = disk /\ inForce' = inForce /\ bundle' = bundle
      /\ at' = at /\ before' = before /\ failures' = failures /\ links' = links
      /\ seen' = b /\ next' = next /\ manager' = manager /\ read' = read
      /\ reader' = reader /\ lock' = lock /\ misreads' = misreads /\ misled' = misled
  BY DEF checkBundleRefuses, loaded, reads, faults
<1>2. DirectoryTyped' /\ ClientTyped' /\ LockHeld'
  BY <1>1 DEF DirectoryTyped, ClientTyped, LockHeld
<1>3. Going' /\ InPlace'
  BY <1>1 DEF Going, InPlace, LinkedSoFar
<1>4. Found'
  BY <1>1 DEF Found, Whole, Unfailing
<1> QED BY <1>2, <1>3, <1>4

LEMMA RepairedKeepsBundle ==
  ASSUME BundleInv, repaired
  PROVE  BundleInv'
<1> USE EntriesApart DEF BundleInv
<1>1. /\ at = "repairing" /\ links.stage = "done" /\ at' = "writing"
      /\ view' = view /\ disk' = disk /\ inForce' = inForce /\ bundle' = bundle
      /\ before' = before /\ failures' = failures /\ links' = links
      /\ seen' = seen /\ read' = read /\ reader' = reader
      /\ misreads' = misreads /\ misled' = FALSE
  BY DEF repaired, reads
<1>2. inForce \in Some /\ next' \in Some
  BY DEF repaired, loaded, ClientTyped
<1>3. manager' \in [config : Some, targets : Some, generation : Some]
  <2>1. CASE inForce = None
    BY <2>1 DEF repaired, loaded, ClientTyped
  <2>2. CASE inForce # None
    BY <1>2, <2>2, ReloadTyped DEF repaired
  <2> QED BY <2>1, <2>2
<1>4. DirectoryTyped' /\ ClientTyped'
  BY <1>1, <1>2, <1>3 DEF DirectoryTyped, ClientTyped
<1>5. LockHeld'
  BY <1>1 DEF LockHeld, repaired, Release
<1>6. /\ view[Data] = inForce
      /\ inForce # None => \A n \in NamesOf(inForce) : view[n] = TRUE
  BY <1>1 DEF InPlace, LinkedSoFar, Relinking
<1>7. Going' /\ InPlace'
  BY <1>1, <1>6 DEF Going, InPlace, Relinking
<1>8. Found'
  BY <1>1, <1>6 DEF Found, Whole, Unfailing
<1> QED BY <1>4, <1>5, <1>7, <1>8

LEMMA WriteKeepsBundle ==
  ASSUME BundleInv, writeTree
  PROVE  BundleInv'
<1> USE EntriesApart DEF BundleInv
<1>1. /\ inForce' = inForce /\ bundle' = bundle /\ before' = before
      /\ failures' = failures /\ links' = links /\ next' = next /\ manager' = manager
      /\ seen' = seen /\ read' = read /\ reader' = reader /\ lock' = lock
      /\ misreads' = misreads /\ misled' = misled
  BY DEF writeTree, loaded, reads, faults
<1>2. PICK there \in BOOLEAN :
        /\ Set(bundle, there)
        /\ \/ at = "writing" /\ at' = "filling"
           \/ at = "filling" /\ at' = "checking" /\ there = TRUE
  BY DEF writeTree
<1>3. bundle \in Generations /\ bundle # inForce /\ (inForce # None => view[Data] = inForce)
  BY <1>2 DEF Going
<1>4. /\ DirectoryTyped' /\ view'[bundle] = there
      /\ \A e \in Entries : e # bundle => view'[e] = view[e]
  BY <1>2, <1>3, SetIs, SetTyped
<1>5. ClientTyped' /\ LockHeld'
  BY <1>1, <1>2 DEF ClientTyped, Relinking, LockHeld
<1>6. inForce # None => view'[Data] = inForce
  BY <1>3, <1>4
<1>7. Found'
  <2> SUFFICES ASSUME inForce # None PROVE Found'
    BY <1>1 DEF Found
  <2>1. inForce \in Generations
    BY DEF ClientTyped, Some
  <2>2. view[inForce] = TRUE /\ (~misled => \A n \in NamesOf(inForce) : view[n] = TRUE)
    BY <1>3 DEF Found, Whole
  <2>3. view'[inForce] = TRUE /\ (~misled => \A n \in NamesOf(inForce) : view'[n] = TRUE)
    BY <1>3, <1>4, <2>1, <2>2, BundleAssumption
  <2> QED BY <1>1, <1>2, <1>6, <2>3 DEF Found, Whole, Unfailing
<1>8. Going' /\ InPlace'
  BY <1>1, <1>2, <1>3, <1>4, <1>6 DEF Going, InPlace, Relinking
<1> QED BY <1>4, <1>5, <1>7, <1>8

\* The bundle is discarded, and the client is done with it.
LEMMA DiscardKeepsFound ==
  ASSUME BundleInv, at # "idle", discard, inForce' = inForce, at' = "idle",
         failures' \in Nat, failures' = 0 => failures = 0,
         failures' = 0 => misled \/ inForce = None \/ view[Data] = inForce
  PROVE  /\ DirectoryTyped' /\ Going' /\ InPlace' /\ Found'
         /\ misreads' \in Nat /\ misled' \in BOOLEAN /\ (misled' => misreads' # 0)
<1> USE EntriesApart DEF BundleInv
<1>1. bundle \in Generations /\ bundle # inForce /\ inForce \in Some
  BY DEF Going, ClientTyped
<1>2. /\ DirectoryTyped'
      /\ Whole(view) /\ ~misled' => Whole(view')
      /\ \A e \in Entries : e # bundle => view'[e] = view[e]
      /\ misreads' \in Nat /\ misled' \in BOOLEAN /\ (misled' => misreads' # 0)
      /\ (misreads # 0 => misreads' # 0) /\ (misled => misled' = TRUE)
  BY <1>1, DiscardDoes
<1>3. view'[Data] = view[Data] /\ (inForce # None => view'[inForce] = view[inForce])
  BY <1>1, <1>2 DEF Some
<1>4. Found'
  BY <1>2, <1>3 DEF Found, Unfailing
<1>5. Going' /\ InPlace'
  BY DEF Going, InPlace, Relinking
<1> QED BY <1>2, <1>4, <1>5

LEMMA CheckRefusesKeepsBundle ==
  ASSUME BundleInv, CheckRefuses
  PROVE  BundleInv'
<1> USE DEF BundleInv
<1>1. /\ at = "checking" /\ at' = "idle" /\ discard /\ seen' = bundle
      /\ inForce' = inForce /\ bundle' = bundle /\ before' = before
      /\ failures' = failures /\ links' = links /\ next' = next /\ manager' = manager
      /\ read' = read /\ reader' = reader /\ lock' = lock
  BY DEF CheckRefuses, loaded, reads
<1>2. failures' \in Nat /\ (inForce = None \/ view[Data] = inForce)
  BY <1>1 DEF ClientTyped, Going
<1>3. /\ DirectoryTyped' /\ Going' /\ InPlace' /\ Found'
      /\ misreads' \in Nat /\ misled' \in BOOLEAN /\ (misled' => misreads' # 0)
  BY <1>1, <1>2, DiscardKeepsFound
<1>4. ClientTyped' /\ LockHeld'
  BY <1>1, <1>3 DEF ClientTyped, Relinking, LockHeld
<1> QED BY <1>3, <1>4

LEMMA SwapKeepsBundle ==
  ASSUME BundleInv, swap
  PROVE  BundleInv'
<1> USE EntriesApart DEF BundleInv
<1>1. /\ at = "checking" /\ at' = "swapping" /\ view' = view /\ disk' = disk
      /\ inForce' = inForce /\ bundle' = bundle /\ seen' = seen
      /\ failures' = failures /\ next' = next /\ manager' = manager
      /\ read' = read /\ reader' = reader
      /\ links' = [data |-> bundle, names |-> NamesOf(bundle), stage |-> "links"]
  BY DEF swap, Begin, loaded, reads
<1>0. PICK g \in linkedGeneration, names \in SUBSET Linked(view) :
        /\ before' = [data |-> g, names |-> names]
        /\ Misled(g # view[Data] \/ names # Linked(view))
  BY DEF swap
<1>a. PICK missed \in BOOLEAN : missed = (g # view[Data] \/ names # Linked(view))
  BY Zenon
<1>b. /\ misreads' \in Nat /\ misled' \in BOOLEAN /\ (misled' => misreads' # 0)
      /\ (misreads # 0 => misreads' # 0) /\ (misled => misled' = TRUE)
      /\ ~misled' => g = view[Data] /\ names = Linked(view)
  <2>1. Misled(missed)
    BY <1>0, <1>a
  <2>2. misreads \in Nat /\ misled \in BOOLEAN /\ (misled => misreads # 0)
    BY DEF ClientTyped
  <2> QED BY <1>a, <2>1, <2>2, MisledIs
<1>2. /\ bundle \in Generations /\ bundle # inForce /\ view[bundle] = TRUE
      /\ inForce # None => view[Data] = inForce
  BY <1>1 DEF Going
<1>3. links' \in Links
  BY <1>1, <1>2, BundleAssumption DEF Links
<1>4. view[Data] \in Some /\ Linked(view) \in SUBSET Names
  BY DEF DirectoryTyped, Views, Linked
<1>5. before' \in [data : Some, names : SUBSET Names]
  BY <1>0, <1>4 DEF linkedGeneration
<1>6. DirectoryTyped' /\ ClientTyped'
  BY <1>1, <1>3, <1>5, <1>b DEF DirectoryTyped, ClientTyped, Relinking
<1>7. LockHeld'
  BY <1>1 DEF LockHeld, swap, ClientLocks
<1>8. Going' /\ Found'
  BY <1>1, <1>2, <1>b DEF Going, Found, Whole, Unfailing
<1>9. inForce # None /\ ~misled => NamesOf(inForce) \subseteq Linked(view)
  <2>1. inForce # None => inForce \in Generations
    BY DEF ClientTyped, Some
  <2>2. inForce # None /\ ~misled => \A n \in NamesOf(inForce) : n \in Names /\ view[n] = TRUE
    BY <1>2, <2>1, BundleAssumption DEF Found, Whole
  <2> QED BY <2>2 DEF Linked
<1>10. InPlace'
  <2>1. LinkedSoFar'
    BY <1>1 DEF LinkedSoFar
  <2> QED BY <1>0, <1>1, <1>2, <1>9, <1>b, <2>1 DEF InPlace
<1> QED BY <1>6, <1>7, <1>8, <1>10

LEMMA RelinkStepKeepsBundle ==
  ASSUME BundleInv, RelinkStep
  PROVE  BundleInv'
<1> USE EntriesApart DEF BundleInv
<1>1. /\ at \in Relinking /\ at' = at /\ relink
      /\ inForce' = inForce /\ bundle' = bundle /\ seen' = seen /\ before' = before
      /\ failures' = failures /\ next' = next /\ manager' = manager
      /\ read' = read /\ reader' = reader /\ lock' = lock /\ misled' = misled
  BY DEF RelinkStep, loaded, reads
<1>0. misreads' \in Nat /\ (misreads # 0 => misreads' # 0)
  <2>1. misreads \in Nat
    BY DEF ClientTyped
  <2>2. PICK missed : Misses(missed)
    BY <1>1 DEF relink
  <2> QED BY <2>1, <2>2, MissesIs
<1>2. links \in Links /\ LinkedSoFar
  BY <1>1 DEF ClientTyped, InPlace
<1>3. /\ DirectoryTyped' /\ links' \in Links /\ LinkedSoFar'
      /\ links'.data = links.data /\ links'.names = links.names
      /\ \A g \in Generations : view'[g] = view[g]
      /\ view'[Data] \in {view[Data], links.data}
      /\ Whole(view) /\ RelinkTo(links.data, links.names) => Whole(view')
  BY <1>1, <1>2, RelinkDoes
<1>4. ClientTyped' /\ LockHeld'
  BY <1>0, <1>1, <1>3 DEF ClientTyped, LockHeld
<1>5. bundle \in Generations /\ bundle # inForce /\ inForce \in Some
  BY <1>1 DEF Going, ClientTyped, Relinking
<1>6. view'[bundle] = view[bundle] /\ (inForce # None => view'[inForce] = view[inForce])
  BY <1>3, <1>5 DEF Some
<1>7. Going'
  BY <1>1, <1>5 DEF Going, Relinking
<1>8. inForce # None /\ ~misled => RelinkTo(links.data, links.names)
  <2> SUFFICES ASSUME inForce # None, ~misled PROVE RelinkTo(links.data, links.names)
    OBVIOUS
  <2>1. inForce \in Generations /\ view[inForce] = TRUE
    BY <1>5 DEF Some, Found
  <2>2. CASE links.data = inForce /\ NamesOf(inForce) \subseteq links.names
    BY <2>1, <2>2 DEF RelinkTo
  <2>3. CASE links.data = bundle /\ NamesOf(bundle) \subseteq links.names /\ view[bundle] = TRUE
    BY <1>5, <2>3 DEF RelinkTo
  <2>4. \/ links.data = inForce /\ NamesOf(inForce) \subseteq links.names
        \/ links.data = bundle /\ NamesOf(bundle) \subseteq links.names /\ view[bundle] = TRUE
    BY <1>1 DEF InPlace, Relinking
  <2> QED BY <2>2, <2>3, <2>4
<1>9. Found'
  BY <1>0, <1>1, <1>3, <1>6, <1>8 DEF Found, Relinking, Unfailing
<1>10. at \in {"swapping", "restoring", "undoing"} /\ inForce # None /\ ~misled =>
         links.data \in {inForce, bundle}
  BY DEF InPlace
<1>11. InPlace'
  BY <1>1, <1>3, <1>6, <1>10 DEF InPlace
<1> QED BY <1>3, <1>4, <1>7, <1>9, <1>11

LEMMA InstallsKeepsBundle ==
  ASSUME BundleInv, Installs
  PROVE  BundleInv'
<1> USE EntriesApart DEF BundleInv
<1>0. PICK v, missed :
        /\ Become(v) /\ Misses(missed)
        /\ v = view \/ v = [e \in Entries |->
                             IF e \in Generations THEN e = bundle /\ view[e] ELSE view[e]]
  BY DEF Installs
<1>1. /\ at = "swapping" /\ links.stage = "done" /\ at' = "idle"
      /\ inForce' = bundle /\ seen' = bundle /\ next' = bundle /\ bundle' = bundle
      /\ failures' = failures /\ links' = links /\ before' = before
      /\ read' = read /\ reader' = reader /\ misled' = FALSE /\ misreads' \in Nat
  BY <1>0, MissesIs DEF Installs, reads, ClientTyped
<1>2. bundle \in Generations /\ bundle # inForce
  BY <1>1 DEF Going
<1>3. /\ links.data = bundle /\ NamesOf(bundle) \subseteq links.names /\ view[bundle] = TRUE
      /\ \A n \in links.names : view[n] = TRUE
      /\ view[Data] = bundle
  BY <1>1 DEF InPlace, LinkedSoFar, Relinking
<1>4. /\ v \in Views /\ v[Data] = view[Data] /\ v[bundle] = view[bundle]
      /\ \A n \in Names : v[n] = view[n]
  <2>1. CASE v = view
    BY <2>1 DEF DirectoryTyped
  <2>2. CASE v = [e \in Entries |->
                    IF e \in Generations THEN e = bundle /\ view[e] ELSE view[e]]
    <3>1. \A e \in Generations : v[e] \in BOOLEAN
      BY <2>2 DEF DirectoryTyped, Views
    <3>2. v[Data] \in Some /\ \A e \in Names : v[e] \in BOOLEAN
      BY <2>2 DEF DirectoryTyped, Views
    <3>3. \A e \in Entries : v[e] \in Some \cup BOOLEAN
      BY <3>1, <3>2
    <3>4. v \in Views
      BY <2>2, <3>1, <3>2, <3>3 DEF Views
    <3> QED BY <1>2, <1>3, <2>2, <3>4
  <2> QED BY <1>0, <2>1, <2>2
<1>5. view' = v
  BY <1>0 DEF Become
<1>6. view'[Data] = bundle /\ view'[bundle] = TRUE /\ \A n \in Names : view'[n] = view[n]
  BY <1>3, <1>4, <1>5
<1>7. DirectoryTyped'
  BY <1>0, <1>4, BecomesTyped
<1>8. manager' \in [config : Some, targets : Some, generation : Some]
  <2>1. Reload(Parts, bundle)
    BY DEF Installs
  <2> QED BY <1>2, <2>1, ReloadTyped
<1>9. ClientTyped' /\ LockHeld'
  <2>1. lock' = "free" /\ reader = "idle"
    BY <1>1 DEF LockHeld, Installs, Release
  <2> QED BY <1>1, <1>2, <1>8, <2>1 DEF ClientTyped, LockHeld
<1>10. Going' /\ InPlace'
  BY <1>1 DEF Going, InPlace, Relinking
<1>11. \A n \in NamesOf(bundle) : view'[n] = TRUE
  BY <1>2, <1>3, <1>6, BundleAssumption
<1>12. Found'
  BY <1>1, <1>2, <1>6, <1>11 DEF Found, Whole
<1> QED BY <1>7, <1>9, <1>10, <1>12

LEMMA ReloadRefusesKeepsBundle ==
  ASSUME BundleInv, ReloadRefuses
  PROVE  BundleInv'
<1> USE EntriesApart DEF BundleInv
<1>1. /\ at = "swapping" /\ links.stage = "done" /\ at' = "undoing"
      /\ links' = [data |-> before.data, names |-> before.names, stage |-> "links"]
      /\ inForce' = inForce /\ seen' = seen /\ next' = next /\ bundle' = bundle
      /\ failures' = failures /\ before' = before /\ view' = view /\ disk' = disk
      /\ read' = read /\ reader' = reader /\ lock' = lock
      /\ misreads' = misreads /\ misled' = misled
  BY DEF ReloadRefuses, Previous, Begin, reads, faults
<1>2. bundle \in Generations /\ bundle # inForce
  BY <1>1 DEF Going
<1>3. links' \in Links
  BY <1>1 DEF Links, ClientTyped
<1>4. manager' \in [config : Some, targets : Some, generation : Some]
  <2>1. PICK parts \in SUBSET Parts : Reload(parts, bundle)
    BY DEF ReloadRefuses
  <2> QED BY <1>2, <2>1, ReloadTyped
<1>5. DirectoryTyped' /\ ClientTyped' /\ LockHeld'
  BY <1>1, <1>3, <1>4 DEF DirectoryTyped, ClientTyped, Relinking, LockHeld
<1>6. Going' /\ Found'
  BY <1>1, <1>2 DEF Going, Found, Whole, Unfailing
<1>7. InPlace'
  BY <1>1, <1>2 DEF InPlace, LinkedSoFar
<1> QED BY <1>5, <1>6, <1>7

\* Whichever way the client goes idle, the reload lock is given back.
LEMMA Released ==
  ASSUME LockHeld, Release, at' = "idle", reader' = reader, inForce' = inForce
  PROVE  LockHeld'
BY DEF LockHeld, Release

LEMMA UndoneKeepsBundle ==
  ASSUME BundleInv, undone
  PROVE  BundleInv'
<1> USE EntriesApart DEF BundleInv
<1>1. /\ at = "undoing" /\ links.stage = "done" /\ at' = "idle" /\ discard /\ Release
      /\ inForce' = inForce /\ seen' = bundle /\ next' = next /\ bundle' = bundle
      /\ failures' = failures /\ before' = before /\ links' = links
      /\ read' = read /\ reader' = reader
  BY DEF undone, reads
<1>2. manager' \in [config : Some, targets : Some, generation : Some]
  <2>1. PICK parts \in SUBSET Parts : Reload(parts, next)
    BY DEF undone
  <2> QED BY <2>1, ReloadTyped DEF ClientTyped
<1>3. failures' \in Nat /\ (misled \/ inForce = None \/ view[Data] = inForce)
  BY <1>1 DEF ClientTyped, InPlace, LinkedSoFar, Relinking
<1>4. /\ DirectoryTyped' /\ Going' /\ InPlace' /\ Found'
      /\ misreads' \in Nat /\ misled' \in BOOLEAN /\ (misled' => misreads' # 0)
  BY <1>1, <1>3, DiscardKeepsFound
<1>5. ClientTyped' /\ LockHeld'
  BY <1>1, <1>2, <1>4, Released DEF ClientTyped
<1> QED BY <1>4, <1>5

LEMMA RestoredKeepsBundle ==
  ASSUME BundleInv, restored
  PROVE  BundleInv'
<1> USE EntriesApart DEF BundleInv
<1>1. /\ at = "restoring" /\ links.stage = "done" /\ at' = "idle" /\ discard /\ Release
      /\ inForce' = inForce /\ seen' = seen /\ next' = next /\ bundle' = bundle
      /\ failures' = failures /\ before' = before /\ links' = links
      /\ read' = read /\ reader' = reader /\ manager' = manager
  BY DEF restored, reads, loaded
<1>2. failures' \in Nat /\ (misled \/ inForce = None \/ view[Data] = inForce)
  BY <1>1 DEF ClientTyped, InPlace, LinkedSoFar, Relinking
<1>3. /\ DirectoryTyped' /\ Going' /\ InPlace' /\ Found'
      /\ misreads' \in Nat /\ misled' \in BOOLEAN /\ (misled' => misreads' # 0)
  BY <1>1, <1>2, DiscardKeepsFound
<1>4. ClientTyped' /\ LockHeld'
  BY <1>1, <1>3, Released DEF ClientTyped
<1> QED BY <1>3, <1>4

LEMMA FailsKeepsBundle ==
  ASSUME BundleInv, Fails
  PROVE  BundleInv'
<1> USE EntriesApart DEF BundleInv
<1>1. /\ failures' = failures + 1 /\ failures \in Nat
      /\ inForce' = inForce /\ seen' = seen /\ next' = next /\ bundle' = bundle
      /\ before' = before /\ read' = read /\ reader' = reader /\ manager' = manager
  BY DEF Fails, reads, loaded, ClientTyped
<1>0. failures' \in Nat /\ failures' # 0
  BY <1>1
<1>a. Misled(FALSE) => misreads' = misreads /\ misled' = misled
  BY DEF Misled, Misses, ClientTyped
<1>2. CASE at \in {"writing", "filling"} /\ discard /\ at' = "idle" /\ UNCHANGED <<links, lock>>
  <2>1. /\ DirectoryTyped' /\ Going' /\ InPlace' /\ Found'
        /\ misreads' \in Nat /\ misled' \in BOOLEAN /\ (misled' => misreads' # 0)
    BY <1>0, <1>1, <1>2, DiscardKeepsFound
  <2>2. ClientTyped' /\ LockHeld'
    BY <1>0, <1>1, <1>2, <2>1 DEF ClientTyped, Relinking, LockHeld
  <2> QED BY <2>1, <2>2
<1>3. CASE /\ at = "swapping" /\ links.stage # "done" /\ Begin(before.data, before.names)
           /\ at' = "restoring" /\ Misled(FALSE) /\ UNCHANGED <<view, disk, lock>>
  <2>1. links' = [data |-> before.data, names |-> before.names, stage |-> "links"]
    BY <1>3 DEF Begin
  <2>2. links' \in Links
    BY <2>1 DEF Links, ClientTyped
  <2>3. DirectoryTyped' /\ ClientTyped' /\ LockHeld'
    BY <1>0, <1>1, <1>a, <1>3, <2>2 DEF DirectoryTyped, ClientTyped, Relinking, LockHeld
  <2>4. bundle \in Generations /\ bundle # inForce
    BY <1>3 DEF Going
  <2>5. Going' /\ Found'
    BY <1>0, <1>1, <1>a, <1>3, <2>4 DEF Going, Found, Whole, Unfailing
  <2>6. InPlace'
    BY <1>1, <1>a, <1>3, <2>1 DEF InPlace, LinkedSoFar
  <2> QED BY <2>3, <2>5, <2>6
<1>4. CASE /\ at \in {"restoring", "undoing"} /\ links.stage # "done"
           /\ discard /\ at' = "idle" /\ Release /\ UNCHANGED links
  <2>1. /\ DirectoryTyped' /\ Going' /\ InPlace' /\ Found'
        /\ misreads' \in Nat /\ misled' \in BOOLEAN /\ (misled' => misreads' # 0)
    BY <1>0, <1>1, <1>4, DiscardKeepsFound
  <2>2. ClientTyped' /\ LockHeld'
    BY <1>0, <1>1, <1>4, <2>1, Released DEF ClientTyped
  <2> QED BY <2>1, <2>2
<1>5. CASE /\ at = "repairing" /\ links.stage # "done" /\ at' = "idle" /\ Release
           /\ Misled(FALSE) /\ UNCHANGED <<view, disk, links>>
  <2>1. DirectoryTyped' /\ ClientTyped' /\ LockHeld'
    BY <1>0, <1>1, <1>a, <1>5, Released DEF DirectoryTyped, ClientTyped
  <2>2. Going' /\ InPlace' /\ Found'
    BY <1>0, <1>1, <1>a, <1>5 DEF Going, InPlace, Found, Whole, Relinking, Unfailing
  <2> QED BY <2>1, <2>2
<1> QED BY <1>2, <1>3, <1>4, <1>5 DEF Fails

LEMMA ReadsKeepBundle ==
  ASSUME BundleInv, ReadConfig \/ ReadTargets \/ Install
  PROVE  BundleInv'
<1> USE EntriesApart DEF BundleInv
<1>1. /\ view' = view /\ disk' = disk /\ at' = at /\ bundle' = bundle /\ links' = links
      /\ before' = before /\ inForce' = inForce /\ seen' = seen /\ next' = next
      /\ failures' = failures /\ misreads' = misreads /\ misled' = misled
  BY DEF ReadConfig, ReadTargets, Install, client, loaded, faults
<1>2. ConfigRead(view) \in Some /\ TargetsRead(view) \in Some
  BY DEF ConfigRead, TargetsRead, DirectoryTyped, Views
<1>3. manager' \in [config : Some, targets : Some, generation : Some]
  <2>1. CASE ReadConfig \/ ReadTargets
    BY <2>1 DEF ReadConfig, ReadTargets, loaded, ClientTyped
  <2>2. CASE Install
    <3>1. PICK parts \in SUBSET Parts : apply(parts, read.config, read.targets, next)
      BY <2>2 DEF Install
    <3> QED BY <3>1, ReloadTyped DEF ClientTyped
  <2> QED BY <2>1, <2>2
<1>4. read' \in [config : Some, targets : Some]
  BY <1>2 DEF ReadConfig, ReadTargets, Install, NothingRead, ClientTyped
<1>5. reader' \in {"idle", "config", "both"}
  BY DEF ReadConfig, ReadTargets, Install
<1>6. DirectoryTyped' /\ ClientTyped'
  BY <1>1, <1>3, <1>4, <1>5 DEF DirectoryTyped, ClientTyped
<1>7. LockHeld'
  BY <1>1 DEF LockHeld, ReadConfig, ReadTargets, Install
<1>8. Going' /\ InPlace' /\ Found'
  BY <1>1 DEF Going, InPlace, LinkedSoFar, Found, Whole, Unfailing
<1> QED BY <1>6, <1>7, <1>8

\* What a start makes of a directory that is seen as v.
LEMMA TidiedIs ==
  ASSUME NEW v \in Views, NEW g \in {Cached(v), None}
  PROVE  /\ Tidied(v, g) \in Views
         /\ Tidied(v, g)[Data] = g
         /\ g # None => Tidied(v, g)[g] = TRUE /\ Whole(Tidied(v, g))
<1> USE EntriesApart
<1> DEFINE t == [e \in Entries |-> IF e = Data THEN g
                                   ELSE IF e \in Generations THEN e = g
                                   ELSE g # None /\ v[e]]
<1>1. Tidied(v, g) = t
  BY DEF Tidied
<1>2. g \in Some
  BY CachedWhole DEF Some
<1>3. \A n \in Names : v[n] \in BOOLEAN
  BY DEF Views
<1>4. g # None => g \in Generations /\ \A n \in NamesOf(g) : n \in Names /\ v[n] = TRUE
  <2>1. g # None => Whole(v) /\ g = v[Data]
    BY CachedWhole
  <2> QED BY <1>2, <2>1, BundleAssumption DEF Whole, Some
<1>5. t[Data] = g /\ \A e \in Generations : t[e] \in BOOLEAN
  OBVIOUS
<1>6. \A n \in Names : t[n] \in BOOLEAN
  BY <1>3
<1>7. t \in Views
  <2>1. \A e \in Entries : t[e] \in Some \cup BOOLEAN
    BY <1>2, <1>5, <1>6
  <2> QED BY <1>2, <1>5, <1>6, <2>1 DEF Views
<1>8. g # None => t[g] = TRUE /\ \A n \in NamesOf(g) : t[n] = TRUE
  BY <1>4
<1>9. g # None => Whole(t)
  BY <1>5, <1>8 DEF Whole
<1> QED BY <1>1, <1>5, <1>7, <1>8, <1>9

LEMMA StartKeepsBundle ==
  ASSUME NEW v \in Views, NEW d \in [Entries -> SUBSET (Some \cup BOOLEAN)],
         d[Data] \subseteq Some, \A e \in Names \cup Generations : d[e] \subseteq BOOLEAN,
         Start(v, d), failures' \in Nat, misreads \in Nat
  PROVE  BundleInv'
<1> USE EntriesApart
<1>9. PICK found \in {Cached(v), None} : \E t \in {Tidied(v, found), v} :
        /\ Misses(t # Tidied(v, Cached(v)))
        /\ view' = t /\ disk' = [e \in Entries |-> d[e] \cup {t[e]}]
        /\ \E g \in {found} \cup (IF CachedLoads THEN {} ELSE {None}) :
             /\ inForce' = g /\ seen' = g /\ next' = g
             /\ manager' = [config |-> g, generation |-> g,
                            targets |-> IF g = None THEN None ELSE TargetsRead(t)]
  BY DEF Start
<1>0. PICK t \in {Tidied(v, found), v} :
        /\ Misses(t # Tidied(v, Cached(v)))
        /\ view' = t /\ disk' = [e \in Entries |-> d[e] \cup {t[e]}]
        /\ \E g \in {found} \cup (IF CachedLoads THEN {} ELSE {None}) :
             /\ inForce' = g /\ seen' = g /\ next' = g
             /\ manager' = [config |-> g, generation |-> g,
                            targets |-> IF g = None THEN None ELSE TargetsRead(t)]
  BY <1>9
<1>1. /\ view' = t /\ disk' = [e \in Entries |-> d[e] \cup {t[e]}]
      /\ at' = "idle" /\ bundle' = None /\ lock' = "free" /\ reader' = "idle"
      /\ links' = [data |-> None, names |-> {}, stage |-> "done"]
      /\ before' = [data |-> None, names |-> {}]
      /\ read' = [config |-> None, targets |-> None]
  BY <1>0 DEF Start, NothingRead
<1>2. PICK g \in {found, None} :
        /\ inForce' = g /\ seen' = g /\ next' = g
        /\ manager' = [config |-> g, generation |-> g,
                       targets |-> IF g = None THEN None ELSE TargetsRead(t)]
  BY <1>0
<1>3. /\ t \in Views /\ found \in Some
      /\ found # None => t[Data] = found /\ t[found] = TRUE /\ Whole(t)
  <2>1. found \in Some
    BY CachedWhole DEF Some
  <2>2. CASE t = Tidied(v, found)
    BY <2>1, <2>2, TidiedIs
  <2>3. CASE t = v
    BY <2>1, <2>3, CachedWhole DEF Whole
  <2> QED BY <2>1, <2>2, <2>3
<1>4. DirectoryTyped'
  <2>1. \A e \in Entries : t[e] \in Some \cup BOOLEAN
    BY <1>3 DEF Views
  <2>2. t[Data] \in Some /\ \A e \in Names \cup Generations : t[e] \in BOOLEAN
    BY <1>3 DEF Views
  <2>3. disk' \in [Entries -> SUBSET (Some \cup BOOLEAN)]
    BY <1>1, <2>1
  <2>4. \A e \in Entries : disk'[e] = d[e] \cup {t[e]}
    BY <1>1
  <2> QED BY <1>1, <1>3, <2>2, <2>3, <2>4 DEF DirectoryTyped
<1>5. TargetsRead(t) \in Some
  BY <1>3 DEF TargetsRead, Views
<1>6. ClientTyped'
  <2>1. manager' \in [config : Some, targets : Some, generation : Some]
    BY <1>2, <1>3, <1>5
  <2>2. misreads' \in Nat /\ misled' = FALSE
    BY <1>0, MissesIs DEF Start
  <2> QED BY <1>1, <1>2, <1>3, <2>1, <2>2 DEF ClientTyped, Links
<1>7. LockHeld' /\ Going' /\ InPlace'
  BY <1>1 DEF LockHeld, Going, InPlace, Relinking
<1>8. Found'
  BY <1>1, <1>2, <1>3 DEF Found
<1> QED BY <1>4, <1>6, <1>7, <1>8 DEF BundleInv

LEMMA KillKeepsBundle ==
  ASSUME BundleInv, Kill
  PROVE  BundleInv'
<1>1. Start(view, disk) /\ failures' = failures
  BY DEF Kill
<1> QED BY <1>1, StartKeepsBundle DEF BundleInv, DirectoryTyped, ClientTyped

\* What a loss of power may leave is a directory.
LEMMA PossibleViews ==
  ASSUME DirectoryTyped, NEW v \in Possible
  PROVE  /\ v \in Views /\ v[Data] \in disk[Data]
         /\ \A e \in Names \cup Generations : disk[e] # BOOLEAN => v[e] = view[e]
<1> USE EntriesApart DEF DirectoryTyped
<1>1. PICK d \in disk[Data], kept \in SUBSET {e \in Names \cup Generations : disk[e] = BOOLEAN} :
        v = [e \in Entries |-> IF e = Data THEN d
                               ELSE IF disk[e] = BOOLEAN THEN e \in kept ELSE view[e]]
  BY DEF Possible
<1>2. v[Data] = d /\ d \in Some
  BY <1>1
<1>3. \A e \in Names \cup Generations :
        v[e] \in BOOLEAN /\ (disk[e] # BOOLEAN => v[e] = view[e])
  <2> SUFFICES ASSUME NEW e \in Names \cup Generations
               PROVE  v[e] \in BOOLEAN /\ (disk[e] # BOOLEAN => v[e] = view[e])
    OBVIOUS
  <2>1. view[e] \in BOOLEAN
    BY DEF Views
  <2>2. CASE disk[e] = BOOLEAN
    <3>1. v[e] = (e \in kept)
      BY <1>1, <2>2
    <3> QED BY <2>2, <3>1
  <2>3. CASE disk[e] # BOOLEAN
    BY <1>1, <2>1, <2>3
  <2> QED BY <2>2, <2>3
<1>4. \A e \in Entries : v[e] \in Some \cup BOOLEAN
  BY <1>2, <1>3
<1>5. v = [e \in Entries |-> v[e]]
  BY <1>1
<1> QED BY <1>2, <1>3, <1>4, <1>5 DEF Views

LEMMA LossKeepsBundle ==
  ASSUME BundleInv, LosePower
  PROVE  BundleInv'
<1> USE EntriesApart DEF BundleInv
<1>1. PICK v \in Possible : Start(v, [e \in Entries |-> {v[e]}])
  BY DEF LosePower
<1>2. v \in Views
  BY PossibleViews
<1> DEFINE d == [e \in Entries |-> {v[e]}]
<1>3. /\ d \in [Entries -> SUBSET (Some \cup BOOLEAN)] /\ d[Data] \subseteq Some
      /\ \A e \in Names \cup Generations : d[e] \subseteq BOOLEAN
  <2>1. \A e \in Entries : v[e] \in Some \cup BOOLEAN
    BY <1>2 DEF Views
  <2>2. v[Data] \in Some /\ \A e \in Names \cup Generations : v[e] \in BOOLEAN
    BY <1>2 DEF Views
  <2> QED BY <2>1, <2>2
<1>4. failures' \in Nat /\ misreads \in Nat
  BY DEF LosePower, ClientTyped
<1> HIDE DEF d
<1> QED BY <1>1, <1>2, <1>3, <1>4, StartKeepsBundle DEF d

LEMMA BundleInitInv == Init => BundleInv
<1> SUFFICES ASSUME Init PROVE BundleInv
  OBVIOUS
<1> USE EntriesApart DEF Init
<1>1. view[Data] = None /\ \A e \in Names \cup Generations : view[e] = FALSE
  OBVIOUS
<1>2. view \in Views
  <2>1. \A e \in Entries : view[e] \in Some \cup BOOLEAN
    BY <1>1
  <2> QED BY <1>1, <2>1 DEF Views
<1>3. \A e \in Entries : disk[e] = {view[e]}
  OBVIOUS
<1>4. disk \in [Entries -> SUBSET (Some \cup BOOLEAN)]
  BY <1>2 DEF Views
<1>5. DirectoryTyped
  BY <1>1, <1>2, <1>3, <1>4 DEF DirectoryTyped
<1>6. ClientTyped /\ LockHeld
  BY DEF ClientTyped, Links, LockHeld, NothingRead
<1>7. Going /\ InPlace /\ Found
  BY DEF Going, InPlace, Found, Relinking
<1> QED BY <1>5, <1>6, <1>7 DEF BundleInv

LEMMA StutterKeepsBundle ==
  ASSUME BundleInv, UNCHANGED vars
  PROVE  BundleInv'
<1>1. /\ view' = view /\ disk' = disk /\ at' = at /\ bundle' = bundle /\ links' = links
      /\ before' = before /\ inForce' = inForce /\ seen' = seen /\ next' = next
      /\ misreads' = misreads /\ misled' = misled
      /\ failures' = failures /\ manager' = manager /\ lock' = lock
      /\ reader' = reader /\ read' = read
  BY DEF vars, client, loaded, reads, faults
<1>2. DirectoryTyped' /\ ClientTyped'
  BY <1>1 DEF BundleInv, DirectoryTyped, ClientTyped
<1>3. LockHeld'
  BY <1>1 DEF BundleInv, LockHeld
<1>4. Going' /\ InPlace'
  BY <1>1 DEF BundleInv, Going, InPlace, LinkedSoFar
<1>5. Found'
  BY <1>1 DEF BundleInv, Found, Whole, Unfailing
<1> QED BY <1>2, <1>3, <1>4, <1>5 DEF BundleInv

LEMMA BundleInvHolds == Spec => []BundleInv
<1>1. BundleInv /\ [Next]_vars => BundleInv'
  <2> SUFFICES ASSUME BundleInv, [Next]_vars PROVE BundleInv'
    OBVIOUS
  <2>1. ASSUME NEW b \in Generations, Receive(b) \/ checkBundleRefuses(b) PROVE BundleInv'
    BY <2>1, ReceiveKeepsBundle, RefusedKeepsBundle
  <2>2. CASE repaired
    BY <2>2, RepairedKeepsBundle
  <2>3. CASE writeTree
    BY <2>3, WriteKeepsBundle
  <2>4. CASE CheckRefuses
    BY <2>4, CheckRefusesKeepsBundle
  <2>5. CASE swap
    BY <2>5, SwapKeepsBundle
  <2>6. CASE RelinkStep
    BY <2>6, RelinkStepKeepsBundle
  <2>7. CASE Installs
    BY <2>7, InstallsKeepsBundle
  <2>8. CASE ReloadRefuses
    BY <2>8, ReloadRefusesKeepsBundle
  <2>9. CASE undone
    BY <2>9, UndoneKeepsBundle
  <2>10. CASE restored
    BY <2>10, RestoredKeepsBundle
  <2>11. CASE Fails
    BY <2>11, FailsKeepsBundle
  <2>12. CASE ReadConfig \/ ReadTargets \/ Install
    BY <2>12, ReadsKeepBundle
  <2>13. CASE Kill
    BY <2>13, KillKeepsBundle
  <2>14. CASE LosePower
    BY <2>14, LossKeepsBundle
  <2>15. CASE UNCHANGED vars
    BY <2>15, StutterKeepsBundle
  <2> QED BY <2>1, <2>2, <2>3, <2>4, <2>5, <2>6, <2>7, <2>8, <2>9, <2>10, <2>11, <2>12,
             <2>13, <2>14, <2>15 DEF Next
<1> QED BY <1>1, BundleInitInv, PTL DEF Spec

\* Whatever cuts the client short, and however often, once a bundle is in force the
\* directory holds a whole one for a start after a kill to find, unless swap or discard
\* took for nothing what they could not read; and when no call failed, the one in force
\* or the one going about to be (swap, restore, discard and repair of cache.go).
THEOREM StartsFindABundle == Spec => []KillSafe
<1>1. BundleInv => KillSafe
  BY KillSafeFollows
<1> QED BY <1>1, BundleInvHolds, PTL

-----------------------------------------------------------------------------
(* One generation is read, and named. *)

\* While nothing cut the client short ..data names what is in force, but for a swap
\* and its undoing, which keep reloads out.
NamesInForce ==
  /\ at # "repairing" /\ at # "restoring"
  /\ at \notin {"swapping", "undoing"} => view[Data] = inForce
  /\ at \in {"swapping", "undoing"} => before.data = inForce

\* What reads of it read, and what the manager names.
ReadOfOne ==
  /\ reader # "idle" => read.config \in {None, inForce}
  /\ reader = "both" /\ read.config # None =>
       read.targets = IF Targets \in NamesOf(read.config) THEN read.config ELSE None
  /\ next = inForce /\ manager.generation = manager.config

GenerationInv ==
  /\ kills \in Nat /\ losses \in Nat
  /\ Undisturbed => NamesInForce /\ ReadOfOne

\* What a reload puts in force is of the generation it is told, if that is in place.
LEMMA ReloadOfOne ==
  ASSUME manager.generation = manager.config,
         NEW parts \in SUBSET Parts, NEW label, NEW c, NEW t, apply(parts, c, t, label),
         c \in {None, label}
  PROVE  manager'.generation = manager'.config
BY DEF apply

LEMMA ConfigReadIs == ConfigRead(view) \in {None, view[Data]}
BY DEF ConfigRead

\* Steps that leave alone what is in force and what is read of it.
LEMMA ElsewhereKeepsGeneration ==
  ASSUME GenerationInv, inForce' = inForce, read' = read, reader' = reader,
         next' = next, kills' = kills, losses' = losses, Undisturbed' => Undisturbed,
         Undisturbed' => NamesInForce',
         Undisturbed' => manager'.generation = manager'.config
  PROVE  GenerationInv'
BY DEF GenerationInv, ReadOfOne

\* Whatever the client or a reload does, what was disturbed stays so.
LEMMA ClientStaysDisturbed ==
  ASSUME BundleInv,
         \/ \E b \in Generations : Receive(b) \/ checkBundleRefuses(b)
         \/ repaired \/ writeTree \/ CheckRefuses \/ swap \/ RelinkStep
         \/ Installs \/ ReloadRefuses \/ undone \/ restored
         \/ ReadConfig \/ ReadTargets \/ Install
  PROVE  (Undisturbed' => Undisturbed /\ misreads' = misreads) /\ kills' = kills
<1>1. misreads \in Nat
  BY DEF BundleInv, ClientTyped
<1>2. failures' = failures /\ kills' = kills
  BY DEF Receive, checkBundleRefuses, repaired, writeTree, CheckRefuses, swap, RelinkStep,
         Installs, ReloadRefuses, undone, restored, ReadConfig, ReadTargets, Install, faults
<1>3. CASE \E b \in Generations : Receive(b)
  <2>1. PICK missed : Misses(missed)
    BY <1>3 DEF Receive
  <2> QED BY <1>1, <1>2, <2>1 DEF Misses, Undisturbed, Unfailing
<1>4. CASE CheckRefuses \/ undone \/ restored
  <2>1. PICK missed : Misled(missed)
    BY <1>4 DEF CheckRefuses, undone, restored, discard
  <2> QED BY <1>1, <1>2, <2>1 DEF Misled, Misses, Undisturbed, Unfailing
<1>5. CASE swap
  <2>1. PICK missed : Misled(missed)
    BY <1>5 DEF swap
  <2> QED BY <1>1, <1>2, <2>1 DEF Misled, Misses, Undisturbed, Unfailing
<1>6. CASE RelinkStep \/ Installs
  <2>1. PICK missed : Misses(missed)
    BY <1>6 DEF RelinkStep, relink, Installs
  <2> QED BY <1>1, <1>2, <2>1 DEF Misses, Undisturbed, Unfailing
<1>7. CASE \/ \E b \in Generations : checkBundleRefuses(b)
           \/ repaired \/ writeTree \/ ReloadRefuses \/ ReadConfig \/ ReadTargets \/ Install
  <2>1. misreads' = misreads
    BY <1>7 DEF checkBundleRefuses, repaired, writeTree, ReloadRefuses, ReadConfig,
                ReadTargets, Install, faults
  <2> QED BY <1>2, <2>1 DEF Undisturbed, Unfailing
<1> QED BY <1>3, <1>4, <1>5, <1>6, <1>7

LEMMA ClientKeepsGeneration ==
  ASSUME BundleInv, GenerationInv,
         \/ \E b \in Generations : Receive(b) \/ checkBundleRefuses(b)
         \/ repaired \/ writeTree \/ CheckRefuses \/ swap \/ RelinkStep
         \/ ReloadRefuses \/ undone \/ restored
  PROVE  GenerationInv'
<1>0. (Undisturbed' => Undisturbed /\ misreads' = misreads) /\ kills' = kills
  BY ClientStaysDisturbed
<1> USE EntriesApart DEF BundleInv
<1>1. CASE \E b \in Generations : Receive(b)
  <2>1. /\ view' = view /\ inForce' = inForce /\ read' = read /\ reader' = reader
        /\ next' = next /\ kills' = kills /\ losses' = losses
        /\ failures' = failures /\ manager' = manager
        /\ before' = before /\ at = "idle"
    BY <1>1 DEF Receive, loaded, reads
  <2>2. \/ at' \in {"checking", "writing"} \/ (at' = "repairing" /\ view[Data] # inForce)
        \/ misreads' # misreads
    <3>1. misreads \in Nat
      BY DEF ClientTyped
    <3> QED BY <1>1, <3>1 DEF Receive, Misses, linkedGeneration
  <2>3. Undisturbed' => NamesInForce'
    BY <1>0, <2>1, <2>2 DEF GenerationInv, NamesInForce
  <2> QED BY <1>0, <2>1, <2>3, ElsewhereKeepsGeneration DEF GenerationInv, ReadOfOne
<1>2. CASE \E b \in Generations : checkBundleRefuses(b)
  <2>1. /\ view' = view /\ inForce' = inForce /\ read' = read /\ reader' = reader
        /\ next' = next /\ kills' = kills /\ losses' = losses
        /\ failures' = failures /\ manager' = manager
        /\ before' = before /\ at' = at
    BY <1>2 DEF checkBundleRefuses, loaded, reads, faults
  <2>2. Undisturbed' => NamesInForce'
    BY <1>0, <2>1 DEF GenerationInv, NamesInForce
  <2> QED BY <1>0, <2>1, <2>2, ElsewhereKeepsGeneration DEF GenerationInv, ReadOfOne
<1>3. CASE repaired \/ restored
  <2>1. at \in {"repairing", "restoring"} /\ losses' = losses
    BY <1>3 DEF repaired, restored
  <2> QED BY <1>0, <2>1 DEF GenerationInv, NamesInForce
<1>4. CASE writeTree \/ CheckRefuses
  <2>1. /\ inForce' = inForce /\ read' = read /\ reader' = reader
        /\ next' = next /\ kills' = kills /\ losses' = losses
        /\ failures' = failures /\ manager' = manager
        /\ before' = before /\ at' \in {"filling", "checking", "idle"}
        /\ at \in {"writing", "filling", "checking"}
    BY <1>4 DEF writeTree, CheckRefuses, loaded, reads, faults
  <2>2. bundle \in Generations
    BY <2>1 DEF Going
  <2>3. (\E b \in BOOLEAN : Set(bundle, b)) \/ discard
    BY <1>4 DEF writeTree, CheckRefuses
  <2>4. view'[Data] = view[Data]
    BY <2>2, <2>3, SetIs, DiscardDoes
  <2>5. Undisturbed' => NamesInForce'
    BY <1>0, <2>1, <2>4 DEF GenerationInv, NamesInForce
  <2> QED BY <1>0, <2>1, <2>5, ElsewhereKeepsGeneration DEF GenerationInv, ReadOfOne
<1>5. CASE swap
  <2>1. /\ inForce' = inForce /\ read' = read /\ reader' = reader
        /\ next' = next /\ kills' = kills /\ losses' = losses
        /\ failures' = failures /\ manager' = manager
        /\ misreads' = misreads => before'.data = view[Data]
        /\ at' = "swapping" /\ at = "checking"
    <3>1. misreads \in Nat
      BY DEF ClientTyped
    <3> QED BY <1>5, <3>1 DEF swap, loaded, reads, Misled, Misses
  <2>2. Undisturbed' => NamesInForce'
    BY <1>0, <2>1 DEF GenerationInv, NamesInForce
  <2> QED BY <1>0, <2>1, <2>2, ElsewhereKeepsGeneration DEF GenerationInv, ReadOfOne
<1>6. CASE RelinkStep
  <2>1. /\ inForce' = inForce /\ read' = read /\ reader' = reader
        /\ next' = next /\ kills' = kills /\ losses' = losses
        /\ failures' = failures /\ manager' = manager
        /\ before' = before /\ at' = at /\ at \in Relinking
    BY <1>6 DEF RelinkStep, loaded, reads, faults
  <2>2. Undisturbed' => NamesInForce'
    BY <1>0, <2>1 DEF GenerationInv, NamesInForce, Relinking
  <2> QED BY <1>0, <2>1, <2>2, ElsewhereKeepsGeneration DEF GenerationInv, ReadOfOne
<1>7. CASE ReloadRefuses
  <2>1. /\ inForce' = inForce /\ read' = read /\ reader' = reader
        /\ next' = next /\ kills' = kills /\ losses' = losses /\ failures' = failures
        /\ before' = before /\ at' = "undoing" /\ at = "swapping" /\ links.stage = "done"
    BY <1>7 DEF ReloadRefuses, Previous, reads, faults
  <2>2. Undisturbed' => NamesInForce'
    BY <1>0, <2>1 DEF GenerationInv, NamesInForce
  <2>3. view[Data] = bundle
    BY <2>1 DEF InPlace, LinkedSoFar, Relinking
  <2>4. PICK parts \in SUBSET Parts :
          apply(parts, ConfigRead(view), TargetsRead(view), bundle)
    BY <1>7 DEF ReloadRefuses, Reload
  <2>5. Undisturbed' => manager'.generation = manager'.config
    BY <1>0, <2>3, <2>4, ConfigReadIs, ReloadOfOne DEF GenerationInv, ReadOfOne
  <2> QED BY <1>0, <2>1, <2>2, <2>5, ElsewhereKeepsGeneration
<1>8. CASE undone
  <2>1. /\ inForce' = inForce /\ read' = read /\ reader' = reader
        /\ next' = next /\ kills' = kills /\ losses' = losses /\ failures' = failures
        /\ before' = before /\ at' = "idle" /\ at = "undoing" /\ links.stage = "done"
        /\ discard
    BY <1>8 DEF undone, reads, faults
  <2>2. view[Data] = before.data
    BY <2>1 DEF InPlace, LinkedSoFar, Relinking
  <2>3. view'[Data] = view[Data]
    BY <2>1, DiscardDoes DEF Going
  <2>4. Undisturbed' => NamesInForce'
    BY <1>0, <2>1, <2>2, <2>3 DEF GenerationInv, NamesInForce
  <2>5. PICK parts \in SUBSET Parts :
          apply(parts, ConfigRead(view), TargetsRead(view), next)
    BY <1>8 DEF undone, Reload
  <2>6. Undisturbed => view[Data] = next
    BY <2>1, <2>2 DEF GenerationInv, NamesInForce, ReadOfOne
  <2>7. Undisturbed' => manager'.generation = manager'.config
    BY <1>0, <2>5, <2>6, ConfigReadIs, ReloadOfOne DEF GenerationInv, ReadOfOne
  <2> QED BY <1>0, <2>1, <2>4, <2>7, ElsewhereKeepsGeneration
<1> QED BY <1>1, <1>2, <1>3, <1>4, <1>5, <1>6, <1>7, <1>8

LEMMA InstallsKeepsGeneration ==
  ASSUME BundleInv, GenerationInv, Installs
  PROVE  GenerationInv'
<1> USE EntriesApart DEF BundleInv
<1>1. /\ at = "swapping" /\ links.stage = "done" /\ at' = "idle"
      /\ inForce' = bundle /\ next' = bundle
      /\ kills' = kills /\ losses' = losses /\ read' = read /\ reader' = reader
      /\ \/ view' = [e \in Entries |->
                       IF e \in Generations THEN e = bundle /\ view[e] ELSE view[e]]
         \/ view' = view
  BY DEF Installs, Become, reads
<1>2. view[Data] = bundle /\ reader = "idle"
  BY <1>1 DEF InPlace, LinkedSoFar, LockHeld, Relinking
<1>3. view'[Data] = bundle
  BY <1>1, <1>2
<1>4. apply(Parts, ConfigRead(view), TargetsRead(view), bundle)
  BY DEF Installs, Reload
<1>5. manager'.generation = manager'.config
  BY <1>2, <1>4, ConfigReadIs DEF apply, Parts
<1> QED BY <1>1, <1>2, <1>3, <1>5 DEF GenerationInv, NamesInForce, ReadOfOne

LEMMA ReadsKeepGeneration ==
  ASSUME BundleInv, GenerationInv, ReadConfig \/ ReadTargets \/ Install
  PROVE  GenerationInv'
<1> USE EntriesApart DEF BundleInv
<1>1. /\ view' = view /\ at' = at /\ before' = before /\ inForce' = inForce /\ next' = next
      /\ kills' = kills /\ losses' = losses /\ failures' = failures
  BY DEF ReadConfig, ReadTargets, Install, client, loaded, faults
<1>2. (Undisturbed' => Undisturbed) /\ kills' \in Nat /\ losses' \in Nat
  BY <1>1, ClientStaysDisturbed DEF GenerationInv
<1> SUFFICES ASSUME Undisturbed PROVE NamesInForce' /\ ReadOfOne'
  BY <1>2 DEF GenerationInv
<1>3. NamesInForce /\ ReadOfOne
  BY DEF GenerationInv
<1>4. NamesInForce'
  BY <1>1, <1>3 DEF NamesInForce
<1>5. ReadConfig \/ ReadTargets => view[Data] = inForce
  BY <1>3 DEF NamesInForce, LockHeld, ReadConfig, ReadTargets
<1>6. CASE ReadConfig
  <2>1. read' = [config |-> ConfigRead(view), targets |-> None] /\ reader' = "config"
        /\ manager' = manager
    BY <1>6 DEF ReadConfig, NothingRead, loaded
  <2> QED BY <1>1, <1>3, <1>4, <1>5, <1>6, <2>1, ConfigReadIs DEF ReadOfOne
<1>7. CASE ReadTargets
  <2>1. /\ read'.config = read.config /\ read'.targets = TargetsRead(view)
        /\ reader = "config" /\ reader' = "both" /\ manager' = manager
    BY <1>7 DEF ReadTargets, loaded, ClientTyped
  <2>2. read.config \in {None, inForce}
    BY <1>3, <2>1 DEF ReadOfOne
  <2>3. ASSUME read.config # None
        PROVE  TargetsRead(view) = IF Targets \in NamesOf(inForce) THEN inForce ELSE None
    <3>0. ~misled
      BY DEF Undisturbed, Unfailing, ClientTyped
    <3>1. inForce # None /\ Whole(view) /\ view[Data] = inForce
      BY <1>5, <1>7, <2>2, <2>3, <3>0 DEF Found
    <3>2. view[inForce] = TRUE /\ \A n \in NamesOf(inForce) : view[n] = TRUE
      BY <3>1 DEF Whole
    <3>3. Targets \in NamesOf(inForce) => view[Targets] = TRUE
      BY <3>2
    <3> QED BY <3>1, <3>2, <3>3 DEF TargetsRead
  <2> QED BY <1>1, <1>3, <1>4, <2>1, <2>2, <2>3 DEF ReadOfOne
<1>8. CASE Install
  <2>1. /\ read' = [config |-> None, targets |-> None] /\ reader' = "idle"
        /\ reader = "both"
    BY <1>8 DEF Install, NothingRead
  <2>2. PICK parts \in SUBSET Parts : apply(parts, read.config, read.targets, next)
    BY <1>8 DEF Install
  <2>3. read.config \in {None, next} /\ manager.generation = manager.config
    BY <1>3, <2>1 DEF ReadOfOne
  <2>4. manager'.generation = manager'.config
    BY <2>2, <2>3, ReloadOfOne
  <2> QED BY <1>1, <1>3, <1>4, <2>1, <2>4 DEF ReadOfOne
<1> QED BY <1>6, <1>7, <1>8

\* A start whose bundle loads.
StartsLoad == losses' # losses => inForce' = Cached(view')

LEMMA FaultsKeepGeneration ==
  ASSUME BundleInv, GenerationInv, Kill \/ Fails \/ (LosePower /\ StartsLoad)
  PROVE  GenerationInv'
<1> USE EntriesApart DEF BundleInv
<1>1. CASE Kill \/ Fails
  <2>1. kills' \in Nat /\ losses' \in Nat /\ (kills' = kills + 1 \/ failures' = failures + 1)
    <3>1. CASE Kill
      BY <3>1 DEF Kill, GenerationInv
    <3>2. CASE Fails
      <4>1. failures' = failures + 1 /\ kills' = kills /\ losses' = losses
        BY <3>2 DEF Fails
      <4> QED BY <4>1 DEF GenerationInv
    <3> QED BY <1>1, <3>1, <3>2
  <2>2. kills \in Nat /\ failures \in Nat
    BY DEF GenerationInv, ClientTyped
  <2> QED BY <2>1, <2>2 DEF GenerationInv, Undisturbed, Unfailing
<1>2. CASE LosePower /\ StartsLoad
  <2>1. PICK v \in Possible : Start(v, [e \in Entries |-> {v[e]}])
    BY <1>2 DEF LosePower
  <2>2. v \in Views
    BY PossibleViews
  <2>3. /\ at' = "idle" /\ reader' = "idle" /\ next' = inForce'
        /\ manager'.config = inForce' /\ manager'.generation = inForce'
        /\ Undisturbed' => view' = Tidied(v, Cached(v))
    <3>1. misreads \in Nat
      BY DEF ClientTyped
    <3>2. PICK found \in {Cached(v), None} : \E tidied \in {Tidied(v, found), v} :
            Misses(tidied # Tidied(v, Cached(v))) /\ view' = tidied
      BY <2>1 DEF Start
    <3>3. Undisturbed' => view' = Tidied(v, Cached(v))
      BY <3>1, <3>2 DEF Misses, Undisturbed, Unfailing
    <3>4. /\ at' = "idle" /\ reader' = "idle" /\ next' = inForce'
          /\ manager'.config = inForce' /\ manager'.generation = inForce'
      BY <2>1 DEF Start
    <3> QED BY <3>3, <3>4
  <2>4. /\ Tidied(v, Cached(v)) \in Views /\ Tidied(v, Cached(v))[Data] = Cached(v)
        /\ Cached(v) # None => Whole(Tidied(v, Cached(v)))
    BY <2>2, TidiedIs
  <2>5. Cached(Tidied(v, Cached(v))) = Cached(v)
    BY <2>4, CachedWhole DEF Whole
  <2>6. Undisturbed' => inForce' = view'[Data]
    BY <1>2, <2>3, <2>4, <2>5 DEF LosePower, StartsLoad, GenerationInv
  <2>7. kills' \in Nat /\ losses' \in Nat
    BY <1>2 DEF LosePower, GenerationInv
  <2> QED BY <2>3, <2>6, <2>7 DEF GenerationInv, NamesInForce, ReadOfOne
<1> QED BY <1>1, <1>2

LEMMA GenerationInvHolds == Spec /\ [][StartsLoad]_vars => []GenerationInv
<1>1. ASSUME Init PROVE GenerationInv
  <2>1. view[Data] = None
    BY <1>1, EntriesApart DEF Init
  <2>2. /\ kills = 0 /\ losses = 0 /\ at = "idle" /\ inForce = None /\ next = None
        /\ reader = "idle" /\ manager.generation = manager.config
    BY <1>1 DEF Init
  <2> QED BY <2>1, <2>2 DEF GenerationInv, NamesInForce, ReadOfOne
<1>2. ASSUME BundleInv, GenerationInv, [Next]_vars, [StartsLoad]_vars
      PROVE  GenerationInv'
  <2>1. CASE UNCHANGED vars
    <3>1. /\ view' = view /\ at' = at /\ before' = before /\ inForce' = inForce
          /\ next' = next /\ manager' = manager /\ reader' = reader /\ read' = read
          /\ kills' = kills /\ losses' = losses /\ failures' = failures
      BY <2>1 DEF vars, client, loaded, reads, faults
    <3>2. Undisturbed' => Undisturbed
      BY <2>1 DEF vars, faults, Undisturbed, Unfailing
    <3>3. Undisturbed' => NamesInForce'
      BY <1>2, <3>1, <3>2 DEF GenerationInv, NamesInForce
    <3> QED BY <1>2, <3>1, <3>2, <3>3, ElsewhereKeepsGeneration DEF GenerationInv, ReadOfOne
  <2>2. CASE LosePower /\ ~UNCHANGED vars
    BY <1>2, <2>2, FaultsKeepGeneration
  <2>3. CASE Kill \/ Fails
    BY <1>2, <2>3, FaultsKeepGeneration
  <2>4. CASE ReadConfig \/ ReadTargets \/ Install
    BY <1>2, <2>4, ReadsKeepGeneration
  <2>5. CASE Installs
    BY <1>2, <2>5, InstallsKeepsGeneration
  <2>6. CASE \/ \E b \in Generations : Receive(b) \/ checkBundleRefuses(b)
             \/ repaired \/ writeTree \/ CheckRefuses \/ swap \/ RelinkStep
             \/ ReloadRefuses \/ undone \/ restored
    BY <1>2, <2>6, ClientKeepsGeneration
  <2> QED BY <1>2, <2>1, <2>2, <2>3, <2>4, <2>5, <2>6 DEF Next
<1> QED BY <1>1, <1>2, BundleInvHolds, PTL DEF Spec

\* As long as nothing cut the client short, and what a start finds loads, a reload
\* reads the files of one generation, whatever comes between its two reads, and the
\* generation the manager names is that of the configuration in force (reloadMu and
\* apply of config.go, swap of cache.go).
THEOREM GenerationsStayOne == Spec /\ [][StartsLoad]_vars => []OneGeneration
<1>1. GenerationInv => OneGeneration
  BY DEF GenerationInv, ReadOfOne, OneGeneration
<1> QED BY <1>1, GenerationInvHolds, PTL

-----------------------------------------------------------------------------
(* What a loss of power leaves. *)

\* What a start finds of a generation, whichever changes are on disk.
Durable(g) == disk[g] = {TRUE} /\ \A n \in NamesOf(g) : disk[n] = {TRUE}

\* A relink has the new generation on disk before ..data may name it there.
NewOnDisk(new) ==
  /\ links.stage \in {"data", "unlinks", "done"} => Durable(new)
  /\ links.stage = "done" => disk[Data] = {new}

\* And it takes from the old one, while ..data may name it, no name that is the new's.
OldOnDisk(old, new) ==
  /\ links.stage \in {"links", "data"} => disk[Data] = {old} /\ Durable(old)
  /\ links.stage = "unlinks" =>
       disk[Data] \subseteq {old, new} /\ (NamesOf(old) \subseteq NamesOf(new) => Durable(old))

Relinked(new) ==
  /\ new \in Generations /\ view[new] = TRUE
  /\ links.data = new /\ NamesOf(new) \subseteq links.names

LEMMA SetOnDisk ==
  ASSUME DirectoryTyped, NEW e \in Entries, NEW value, Set(e, value)
  PROVE  /\ disk'[e] = disk[e] \cup {value}
         /\ \A f \in Entries : f # e => disk'[f] = disk[f]
<1>1. disk' = [f \in Entries |-> disk[f] \cup {[view EXCEPT ![e] = value][f]}]
  BY DEF Set, Become
<1>2. [view EXCEPT ![e] = value][e] = value
  BY DEF DirectoryTyped, Views
<1>3. ASSUME NEW f \in Entries, f # e
      PROVE  disk'[f] = disk[f]
  <2>1. disk'[f] = disk[f] \cup {view[f]}
    BY <1>1, <1>3 DEF DirectoryTyped, Views
  <2>2. view[f] \in disk[f]
    BY DEF DirectoryTyped
  <2> QED BY <2>1, <2>2
<1> QED BY <1>1, <1>2, <1>3

LEMMA SyncOnDisk ==
  ASSUME Sync, NEW e \in Entries
  PROVE  disk'[e] = {view[e]}
BY DEF Sync, Synced

LEMMA SeenOnDisk ==
  ASSUME DirectoryTyped, NEW g \in Generations, Durable(g)
  PROVE  /\ view[g] = TRUE /\ \A n \in NamesOf(g) : view[n] = TRUE
         /\ NamesOf(g) \subseteq Names
<1>1. NamesOf(g) \subseteq Names
  BY BundleAssumption
<1>2. \A e \in Entries : disk[e] = {TRUE} => view[e] = TRUE
  BY DEF DirectoryTyped
<1> QED BY <1>1, <1>2, EntriesApart DEF Durable

\* Another entry changes.
LEMMA OnDiskKept ==
  ASSUME NEW g \in Generations, Durable(g),
         NEW e, e # g, e \notin NamesOf(g),
         \A f \in Entries : f # e => disk'[f] = disk[f]
  PROVE  Durable(g)'
BY EntriesApart, BundleAssumption DEF Durable

LEMMA OnDiskSynced ==
  ASSUME DirectoryTyped, NEW g \in Generations, Sync,
         view[g] = TRUE, \A n \in NamesOf(g) : view[n] = TRUE
  PROVE  Durable(g)'
BY SyncOnDisk, EntriesApart, BundleAssumption DEF Durable

LEMMA RelinkKeepsNew ==
  ASSUME DirectoryTyped, links \in Links, LinkedSoFar, relink, NEW new, Relinked(new),
         NewOnDisk(new)
  PROVE  NewOnDisk(new)'
<1> USE EntriesApart
<1>1. new \in Generations /\ NamesOf(new) \subseteq Names /\ view[new] = TRUE
  BY BundleAssumption DEF Relinked
<1>2. CASE \E n \in Names : LinkMade(n)
  BY <1>2 DEF LinkMade, NewOnDisk
<1>3. CASE LinksOnDisk
  <2>1. links'.stage = "data"
    BY <1>3, StageIs DEF LinksOnDisk
  <2>2. Durable(new)'
    BY <1>1, <1>3, OnDiskSynced DEF LinksOnDisk, Relinked
  <2> QED BY <2>1, <2>2 DEF NewOnDisk
<1>4. CASE Replaced
  <2>1. links'.stage = "unlinks" /\ Durable(new)
    BY <1>4, StageIs DEF Replaced, NewOnDisk
  <2>2. \A f \in Entries : f # Data => disk'[f] = disk[f]
    BY <1>4, SetOnDisk DEF Replaced
  <2>3. Durable(new)'
    BY <1>1, <2>1, <2>2, OnDiskKept
  <2> QED BY <2>1, <2>3 DEF NewOnDisk
<1>5. CASE \E n \in Names : LinkRemoved(n)
  <2>1. PICK n \in Names : LinkRemoved(n)
    BY <1>5
  <2>2. links' = links /\ links.stage = "unlinks" /\ Durable(new) /\ n \notin NamesOf(new)
    BY <2>1 DEF LinkRemoved, NewOnDisk, Relinked
  <2>3. \A f \in Entries : f # n => disk'[f] = disk[f]
    BY <2>1, SetOnDisk DEF LinkRemoved
  <2>4. Durable(new)'
    BY <1>1, <2>1, <2>2, <2>3, OnDiskKept
  <2> QED BY <2>2, <2>4 DEF NewOnDisk
<1>6. CASE RelinkDone
  <2>1. links.stage = "unlinks" /\ Durable(new) /\ view[Data] = new
    BY <1>6 DEF RelinkDone, NewOnDisk, LinkedSoFar, Relinked
  <2>2. disk'[Data] = {new}
    BY <1>6, <2>1, SyncOnDisk DEF RelinkDone
  <2>3. Durable(new)'
    BY <1>1, <1>6, <2>1, SeenOnDisk, OnDiskSynced DEF RelinkDone
  <2> QED BY <2>2, <2>3 DEF NewOnDisk
<1> QED BY <1>2, <1>3, <1>4, <1>5, <1>6, RelinkKinds

LEMMA RelinkKeepsOld ==
  ASSUME DirectoryTyped, links \in Links, LinkedSoFar, relink, NEW new, Relinked(new),
         NEW old \in Generations, OldOnDisk(old, new)
  PROVE  OldOnDisk(old, new)'
<1> USE EntriesApart
<1>1. NamesOf(old) \subseteq Names
  BY BundleAssumption
<1>2. CASE \E n \in Names : LinkMade(n) /\ view[n] # TRUE
  <2>1. PICK n \in Names : LinkMade(n) /\ view[n] # TRUE
    BY <1>2
  <2>2. links' = links /\ links.stage = "links" /\ Durable(old)
    BY <2>1 DEF LinkMade, OldOnDisk
  <2>3. \A f \in Entries : f # n => disk'[f] = disk[f]
    BY <2>1, SetOnDisk DEF LinkMade
  <2>4. n \notin NamesOf(old)
    BY <2>1, <2>2, SeenOnDisk
  <2>5. Durable(old)' /\ disk'[Data] = disk[Data]
    BY <2>2, <2>3, <2>4, OnDiskKept
  <2> QED BY <2>2, <2>5 DEF OldOnDisk, Durable
<1>3. CASE LinksOnDisk
  <2>1. links'.stage = "data" /\ links.stage = "links"
    BY <1>3, StageIs DEF LinksOnDisk
  <2>2. Durable(old) /\ disk[Data] = {old}
    BY <2>1 DEF OldOnDisk
  <2>3. Durable(old)'
    BY <1>3, <2>2, SeenOnDisk, OnDiskSynced DEF LinksOnDisk
  <2>4. view[Data] = old
    BY <2>2 DEF DirectoryTyped
  <2>5. disk'[Data] = {old}
    BY <1>3, <2>4, SyncOnDisk DEF LinksOnDisk
  <2> QED BY <2>1, <2>3, <2>5 DEF OldOnDisk, Durable
<1>4. CASE Replaced
  <2>1. /\ links'.stage = "unlinks" /\ links'.data = links.data
        /\ disk[Data] = {old} /\ Durable(old)
    BY <1>4, StageIs DEF Replaced, OldOnDisk
  <2>2. /\ \A f \in Entries : f # Data => disk'[f] = disk[f]
        /\ disk'[Data] = {old, new}
    BY <1>4, <2>1, SetOnDisk DEF Replaced, Relinked
  <2>3. Durable(old)'
    BY <1>1, <2>1, <2>2, OnDiskKept
  <2> QED BY <2>1, <2>2, <2>3 DEF OldOnDisk, Durable
<1>5. CASE \E n \in Names : LinkRemoved(n)
  <2>1. PICK n \in Names : LinkRemoved(n)
    BY <1>5
  <2>2. links' = links /\ links.stage = "unlinks" /\ n \notin NamesOf(new)
    BY <2>1 DEF LinkRemoved, Relinked
  <2>3. \A f \in Entries : f # n => disk'[f] = disk[f]
    BY <2>1, SetOnDisk DEF LinkRemoved
  <2>4. disk'[Data] = disk[Data]
    BY <2>3
  <2>5. ASSUME NamesOf(old) \subseteq NamesOf(new)
        PROVE  Durable(old)'
    BY <2>2, <2>3, <2>5, OnDiskKept DEF OldOnDisk
  <2> QED BY <2>2, <2>4, <2>5 DEF OldOnDisk
<1>6. CASE RelinkDone
  <2>1. links'.stage = "done"
    BY <1>6, StageIs DEF RelinkDone
  <2> QED BY <2>1 DEF OldOnDisk
<1> QED BY <1>2, <1>3, <1>4, <1>5, <1>6, RelinkKinds

PowerInv ==
  /\ kills \in Nat
  /\ at = "swapping" => NewOnDisk(bundle)
  /\ at = "restoring" => failures # 0
  /\ Undisturbed /\ inForce # None =>
       /\ at \notin Relinking => disk[Data] = {inForce} /\ Durable(inForce)
       /\ at = "swapping" => OldOnDisk(inForce, bundle)
       /\ at = "undoing" => NewOnDisk(inForce) /\ OldOnDisk(bundle, inForce)

LEMMA PowerSafeFollows == BundleInv /\ PowerInv => PowerSafeOfNames
<1> SUFFICES ASSUME BundleInv, PowerInv, Undisturbed, inForce # None, bundle # None,
                    IF at = "undoing" THEN NamesOf(bundle) \subseteq NamesOf(inForce)
                    ELSE NamesOf(inForce) \subseteq NamesOf(bundle),
                    NEW v \in Possible
             PROVE  Cached(v) \in {inForce, bundle}
  BY DEF PowerSafeOfNames, PowerSafe
<1> USE EntriesApart DEF BundleInv
<1>1. /\ inForce \in Generations /\ bundle \in Generations
      /\ at # "repairing" /\ at # "restoring"
  BY DEF ClientTyped, Some, Found, Undisturbed, Unfailing, PowerInv
<1>2. v \in Views /\ v[Data] \in disk[Data]
      /\ \A e \in Names \cup Generations : disk[e] # BOOLEAN => v[e] = view[e]
  BY PossibleViews
<1>3. ASSUME NEW g \in Generations, Durable(g), v[Data] = g
      PROVE  Cached(v) = g
  <2>1. /\ view[g] = TRUE /\ \A n \in NamesOf(g) : view[n] = TRUE
        /\ NamesOf(g) \subseteq Names
    BY <1>3, SeenOnDisk
  <2>2. {TRUE} # BOOLEAN
    OBVIOUS
  <2>3. v[g] = TRUE /\ \A n \in NamesOf(g) : v[n] = TRUE
    BY <1>2, <1>3, <2>1, <2>2 DEF Durable
  <2>4. Whole(v)
    BY <1>3, <2>3 DEF Whole
  <2> QED BY <1>2, <1>3, <2>4, CachedWhole
<1>4. \A g \in disk[Data] : g \in {inForce, bundle} /\ Durable(g)
  <2>1. CASE at \notin Relinking
    BY <2>1 DEF PowerInv
  <2>2. CASE at = "swapping"
    <3>1. NewOnDisk(bundle) /\ OldOnDisk(inForce, bundle)
      BY <2>2 DEF PowerInv
    <3> QED BY <2>2, <3>1 DEF NewOnDisk, OldOnDisk, ClientTyped, Links
  <2>3. CASE at = "undoing"
    <3>1. NewOnDisk(inForce) /\ OldOnDisk(bundle, inForce)
      BY <2>3 DEF PowerInv
    <3> QED BY <2>3, <3>1 DEF NewOnDisk, OldOnDisk, ClientTyped, Links
  <2> QED BY <1>1, <2>1, <2>2, <2>3 DEF Relinking
<1> QED BY <1>1, <1>2, <1>3, <1>4

LEMMA ReceiveKeepsPower ==
  ASSUME BundleInv, BundleInv', PowerInv, NEW b \in Generations,
         Receive(b) \/ checkBundleRefuses(b)
  PROVE  PowerInv'
<1>1. /\ disk' = disk /\ inForce' = inForce /\ (Undisturbed' => Undisturbed)
      /\ kills' = kills
      /\ at = "idle" /\ at' \in {"idle", "checking", "writing", "repairing"}
  <2>1. (Undisturbed' => Undisturbed) /\ kills' = kills
    BY ClientStaysDisturbed
  <2> QED BY <2>1 DEF Receive, checkBundleRefuses
<1>2. Undisturbed' /\ inForce' # None => at' # "repairing"
  BY DEF BundleInv, Found, Undisturbed, Unfailing
<1> QED BY <1>1, <1>2 DEF PowerInv, Durable, Relinking

\* Nothing but the bundle's directory changes.
LEMMA WriteKeepsPower ==
  ASSUME BundleInv, PowerInv, writeTree \/ CheckRefuses
  PROVE  PowerInv'
<1> USE EntriesApart DEF BundleInv
<1>0. (Undisturbed' => Undisturbed) /\ kills' = kills
  BY ClientStaysDisturbed DEF BundleInv
<1>1. /\ inForce' = inForce
      /\ at \in {"writing", "filling", "checking"}
      /\ at' \in {"filling", "checking", "idle"}
  BY DEF writeTree, CheckRefuses
<1>2. bundle \in Generations /\ bundle # inForce
  BY <1>1 DEF Going
<1>3. \/ \E there \in BOOLEAN : Set(bundle, there)
      \/ disk' = disk
  BY DEF writeTree, CheckRefuses, discard
<1>4. \A f \in Entries : f # bundle => disk'[f] = disk[f]
  BY <1>2, <1>3, SetOnDisk
<1>5. ASSUME Undisturbed', inForce' # None
      PROVE  disk'[Data] = {inForce'} /\ Durable(inForce)'
  <2>1. Undisturbed /\ inForce \in Generations
    BY <1>0, <1>1, <1>5 DEF ClientTyped, Some
  <2>2. disk[Data] = {inForce} /\ Durable(inForce)
    BY <1>1, <1>5, <2>1 DEF PowerInv, Relinking
  <2>3. bundle \notin NamesOf(inForce)
    BY <1>2, <2>1, BundleAssumption
  <2>4. Durable(inForce)'
    BY <1>1, <1>2, <1>4, <2>1, <2>2, <2>3, BundleAssumption DEF Durable
  <2> QED BY <1>1, <1>2, <1>4, <2>2, <2>4
<1> QED BY <1>0, <1>1, <1>5 DEF PowerInv, Relinking

LEMMA SwapKeepsPower ==
  ASSUME BundleInv, PowerInv, swap
  PROVE  PowerInv'
<1>0. (Undisturbed' => Undisturbed) /\ kills' = kills
  BY ClientStaysDisturbed
<1>1. /\ disk' = disk /\ inForce' = inForce
      /\ at = "checking" /\ at' = "swapping" /\ links'.stage = "links" /\ bundle' = bundle
  BY DEF swap, Begin
<1> QED BY <1>0, <1>1 DEF PowerInv, Durable, NewOnDisk, OldOnDisk, Relinking

LEMMA RelinkStepKeepsPower ==
  ASSUME BundleInv, PowerInv, RelinkStep
  PROVE  PowerInv'
<1>0. (Undisturbed' => Undisturbed) /\ kills' = kills
  BY ClientStaysDisturbed
<1> USE EntriesApart DEF BundleInv
<1>1. /\ inForce' = inForce /\ bundle' = bundle /\ failures' = failures
      /\ at' = at /\ at \in Relinking /\ relink
  BY DEF RelinkStep
<1>2. links \in Links /\ LinkedSoFar /\ bundle \in Generations
  BY <1>1 DEF ClientTyped, InPlace, Going, Relinking
<1>3. CASE at = "swapping"
  <2>1. Relinked(bundle) /\ NewOnDisk(bundle)
    BY <1>2, <1>3 DEF InPlace, Relinked, PowerInv
  <2>2. NewOnDisk(bundle)'
    <3>1. PICK new : new = bundle
      OBVIOUS
    <3>2. NewOnDisk(new)'
      BY <1>1, <1>2, <2>1, <3>1, RelinkKeepsNew
    <3> QED BY <1>1, <3>1, <3>2
  <2>3. ASSUME Undisturbed, inForce # None
        PROVE  OldOnDisk(inForce, bundle)'
    <3>1. inForce \in Generations /\ OldOnDisk(inForce, bundle)
      BY <1>3, <2>3 DEF ClientTyped, Some, PowerInv
    <3>2. PICK old, new : old = inForce /\ new = bundle
      OBVIOUS
    <3>3. OldOnDisk(old, new)'
      BY <1>1, <1>2, <2>1, <3>1, <3>2, RelinkKeepsOld
    <3> QED BY <1>1, <3>2, <3>3
  <2> QED BY <1>0, <1>1, <1>3, <2>2, <2>3 DEF PowerInv, Relinking
<1>4. CASE at = "undoing"
  <2> SUFFICES ASSUME Undisturbed, inForce # None
               PROVE  NewOnDisk(inForce)' /\ OldOnDisk(bundle, inForce)'
    BY <1>0, <1>1, <1>4 DEF PowerInv, Relinking
  <2>1. inForce \in Generations /\ NewOnDisk(inForce) /\ OldOnDisk(bundle, inForce)
    BY <1>4 DEF ClientTyped, Some, PowerInv
  <2>2. Relinked(inForce)
    <3>1. ~misled
      BY DEF Undisturbed, Unfailing, ClientTyped
    <3> QED BY <1>4, <2>1, <3>1 DEF InPlace, Found, Relinked
  <2>3. PICK old, new : old = bundle /\ new = inForce
    OBVIOUS
  <2>4. NewOnDisk(new)' /\ OldOnDisk(old, new)'
    BY <1>1, <1>2, <2>1, <2>2, <2>3, RelinkKeepsNew, RelinkKeepsOld
  <2> QED BY <1>1, <2>3, <2>4
<1>5. CASE at \in {"repairing", "restoring"}
  <2>1. Undisturbed => inForce = None
    BY <1>5 DEF Found, PowerInv, Undisturbed, Unfailing
  <2> QED BY <1>0, <1>1, <1>5, <2>1 DEF PowerInv, Undisturbed, Unfailing, Relinking
<1> QED BY <1>1, <1>3, <1>4, <1>5 DEF Relinking

LEMMA InstallsKeepsPower ==
  ASSUME BundleInv, PowerInv, Installs
  PROVE  PowerInv'
<1>0. kills' = kills
  BY ClientStaysDisturbed
<1> USE EntriesApart DEF BundleInv
<1>1. /\ inForce' = bundle /\ at' = "idle"
      /\ at = "swapping" /\ links.stage = "done"
      /\ \/ disk' = [e \in Entries |-> disk[e] \cup
                       {IF e \in Generations THEN e = bundle /\ view[e] ELSE view[e]}]
         \/ disk' = [e \in Entries |-> disk[e] \cup {view[e]}]
  BY DEF Installs, Become
<1>2. bundle \in Generations /\ view[bundle] = TRUE
  BY <1>1 DEF Going, InPlace
<1>3. Durable(bundle) /\ disk[Data] = {bundle}
  BY <1>1 DEF PowerInv, NewOnDisk
<1>4. \A e \in Entries \ Generations : disk'[e] = disk[e]
  <2> SUFFICES ASSUME NEW e \in Entries \ Generations PROVE disk'[e] = disk[e]
    OBVIOUS
  <2>1. disk'[e] = disk[e] \cup {view[e]}
    BY <1>1
  <2>2. view[e] \in disk[e]
    BY DEF DirectoryTyped
  <2> QED BY <2>1, <2>2
<1>5. disk'[bundle] = {TRUE}
  BY <1>1, <1>2, <1>3 DEF Durable
<1>6. \A n \in NamesOf(bundle) : disk'[n] = {TRUE}
  BY <1>2, <1>3, <1>4, BundleAssumption DEF Durable
<1>7. disk'[Data] = {bundle}
  BY <1>3, <1>4
<1> QED BY <1>0, <1>1, <1>5, <1>6, <1>7 DEF PowerInv, Durable, Relinking

LEMMA ReloadRefusesKeepsPower ==
  ASSUME BundleInv, PowerInv, ReloadRefuses
  PROVE  PowerInv'
<1>0. (Undisturbed' => Undisturbed) /\ kills' = kills
  BY ClientStaysDisturbed
<1>1. /\ disk' = disk /\ inForce' = inForce
      /\ at = "swapping" /\ links.stage = "done" /\ at' = "undoing"
      /\ links'.stage = "links" /\ bundle' = bundle
  BY DEF ReloadRefuses, Begin
<1>2. Durable(bundle) /\ disk[Data] = {bundle}
  BY <1>1 DEF PowerInv, NewOnDisk
<1> QED BY <1>0, <1>1, <1>2 DEF PowerInv, Durable, NewOnDisk, OldOnDisk, Relinking

LEMMA UndoneKeepsPower ==
  ASSUME BundleInv, PowerInv, undone
  PROVE  PowerInv'
<1>0. (Undisturbed' => Undisturbed) /\ kills' = kills
  BY ClientStaysDisturbed
<1> USE EntriesApart DEF BundleInv
<1>1. /\ inForce' = inForce /\ at' = "idle"
      /\ at = "undoing" /\ links.stage = "done" /\ discard
  BY DEF undone
<1>2. bundle \in Generations /\ bundle # inForce
  BY <1>1 DEF Going
<1>3. disk' = disk \/ Set(bundle, FALSE)
  BY <1>1 DEF discard
<1>4. \A f \in Entries : f # bundle => disk'[f] = disk[f]
  BY <1>2, <1>3, SetOnDisk
<1>5. ASSUME Undisturbed, inForce # None
      PROVE  disk'[Data] = {inForce} /\ Durable(inForce)'
  <2>1. inForce \in Generations /\ Durable(inForce) /\ disk[Data] = {inForce}
    BY <1>1, <1>5 DEF ClientTyped, Some, PowerInv, NewOnDisk
  <2> QED BY <1>1, <1>2, <1>4, <2>1, BundleAssumption DEF Durable
<1> QED BY <1>0, <1>1, <1>5 DEF PowerInv, Relinking

LEMMA OthersKeepPower ==
  ASSUME BundleInv, PowerInv,
         \/ repaired \/ restored \/ Fails \/ Kill
         \/ ReadConfig \/ ReadTargets \/ Install \/ UNCHANGED vars
  PROVE  PowerInv'
<1>1. CASE repaired \/ restored
  <2>0. (Undisturbed' => Undisturbed) /\ kills' = kills
    BY <1>1, ClientStaysDisturbed
  <2>1. /\ at \in {"repairing", "restoring"} /\ at' \in {"writing", "idle"}
        /\ inForce' = inForce
    BY <1>1 DEF repaired, restored
  <2>2. Undisturbed => inForce = None
    BY <2>1 DEF BundleInv, Found, PowerInv, Undisturbed, Unfailing
  <2> QED BY <2>0, <2>1, <2>2 DEF PowerInv
<1>2. CASE Fails
  <2>1. failures' # 0 /\ kills' = kills /\ at' \in {"idle", "restoring"}
    <3>1. failures' = failures + 1 /\ kills' = kills /\ at' \in {"idle", "restoring"}
      BY <1>2 DEF Fails
    <3>2. failures \in Nat
      BY DEF BundleInv, ClientTyped
    <3> QED BY <3>1, <3>2
  <2> QED BY <2>1 DEF PowerInv, Undisturbed, Unfailing
<1>3. CASE Kill
  <2>1. kills' \in Nat /\ kills' # 0 /\ at' = "idle"
    BY <1>3 DEF Kill, Start, PowerInv
  <2> QED BY <2>1 DEF PowerInv, Undisturbed
<1>4. CASE ReadConfig \/ ReadTargets \/ Install \/ UNCHANGED vars
  <2>1. /\ disk' = disk /\ at' = at /\ bundle' = bundle /\ links' = links
        /\ inForce' = inForce /\ kills' = kills /\ failures' = failures
        /\ misreads' = misreads
    BY <1>4 DEF ReadConfig, ReadTargets, Install, vars, client, faults
  <2> QED BY <2>1 DEF PowerInv, Undisturbed, Unfailing, Durable, NewOnDisk, OldOnDisk
<1> QED BY <1>1, <1>2, <1>3, <1>4

LEMMA LossKeepsPower ==
  ASSUME BundleInv, PowerInv, LosePower
  PROVE  PowerInv'
<1> USE EntriesApart DEF BundleInv
<1>1. PICK v \in Possible : Start(v, [e \in Entries |-> {v[e]}])
  BY DEF LosePower
<1>2. v \in Views
  BY PossibleViews
<1>3. PICK t, g :
        /\ at' = "idle" /\ inForce' \in {g, None} /\ kills' = kills
        /\ disk' = [e \in Entries |-> {v[e]} \cup {t[e]}]
        /\ g \in {Cached(v), None} /\ t \in {Tidied(v, g), v}
  <2>1. PICK g \in {Cached(v), None} : \E t \in {Tidied(v, g), v} :
          /\ disk' = [e \in Entries |-> {v[e]} \cup {t[e]}]
          /\ at' = "idle" /\ inForce' \in {g, None}
    BY <1>1 DEF Start
  <2>2. PICK t \in {Tidied(v, g), v} :
          /\ disk' = [e \in Entries |-> {v[e]} \cup {t[e]}]
          /\ at' = "idle" /\ inForce' \in {g, None}
    BY <2>1
  <2>3. kills' = kills
    BY DEF LosePower
  <2> QED BY <2>2, <2>3
<1>5. g # None => Whole(v) /\ g = v[Data]
  BY <1>2, <1>3, CachedWhole
<1>4. g # None => t[Data] = g /\ t[g] = TRUE /\ Whole(t)
  <2>1. CASE t = v
    BY <1>5, <2>1 DEF Whole
  <2>2. CASE t = Tidied(v, g)
    BY <1>2, <1>3, <2>2, TidiedIs
  <2> QED BY <1>3, <2>1, <2>2
<1>6. g \in Some
  BY <1>2, <1>3, CachedWhole DEF Some
<1>7. ASSUME g # None
      PROVE  disk'[Data] = {g} /\ disk'[g] = {TRUE} /\ \A n \in NamesOf(g) : disk'[n] = {TRUE}
  <2>1. g \in Generations /\ NamesOf(g) \subseteq Names
    BY <1>6, <1>7, BundleAssumption DEF Some
  <2>2. v[g] = TRUE /\ \A n \in NamesOf(g) : v[n] = TRUE
    BY <1>5, <1>7 DEF Whole
  <2>3. t[g] = TRUE /\ \A n \in NamesOf(g) : t[n] = TRUE
    BY <1>4, <1>7 DEF Whole
  <2>4. disk'[Data] = {g}
    BY <1>3, <1>4, <1>5, <1>7
  <2>5. disk'[g] = {TRUE}
    BY <1>3, <2>1, <2>2, <2>3
  <2>6. ASSUME NEW n \in NamesOf(g) PROVE disk'[n] = {TRUE}
    BY <1>3, <2>1, <2>2, <2>3, <2>6
  <2> QED BY <2>4, <2>5, <2>6
<1> QED BY <1>3, <1>7 DEF PowerInv, Durable, Relinking

LEMMA PowerInvHolds == Spec => []PowerInv
<1>1. Init => PowerInv
  BY DEF Init, PowerInv
<1>2. ASSUME BundleInv, BundleInv', PowerInv, [Next]_vars
      PROVE  PowerInv'
  <2>1. CASE \E b \in Generations : Receive(b) \/ checkBundleRefuses(b)
    BY <1>2, <2>1, ReceiveKeepsPower
  <2>2. CASE writeTree \/ CheckRefuses
    BY <1>2, <2>2, WriteKeepsPower
  <2>3. CASE swap
    BY <1>2, <2>3, SwapKeepsPower
  <2>4. CASE RelinkStep
    BY <1>2, <2>4, RelinkStepKeepsPower
  <2>5. CASE Installs
    BY <1>2, <2>5, InstallsKeepsPower
  <2>6. CASE ReloadRefuses
    BY <1>2, <2>6, ReloadRefusesKeepsPower
  <2>7. CASE undone
    BY <1>2, <2>7, UndoneKeepsPower
  <2>8. CASE LosePower
    BY <1>2, <2>8, LossKeepsPower
  <2>9. CASE \/ repaired \/ restored \/ Fails \/ Kill
             \/ ReadConfig \/ ReadTargets \/ Install \/ UNCHANGED vars
    BY <1>2, <2>9, OthersKeepPower
  <2> QED BY <1>2, <2>1, <2>2, <2>3, <2>4, <2>5, <2>6, <2>7, <2>8, <2>9 DEF Next
<1> QED BY <1>1, <1>2, BundleInvHolds, PTL DEF Spec

\* Before a kill or a failure a loss of power leaves the bundle in force or the one
\* that takes its place, whichever changes of the directory are on disk, unless one
\* has a name the other has not (relink of cache.go, its syncs, and Tidy).
THEOREM PowerLossLeavesABundle == Spec => []PowerSafeOfNames
<1>1. BundleInv /\ PowerInv => PowerSafeOfNames
  BY PowerSafeFollows
<1> QED BY <1>1, BundleInvHolds, PowerInvHolds, PTL

-----------------------------------------------------------------------------
(* The watch of the configuration and of the target file. *)

(* What the invariant says of the files is said of what is in them, so that a *)
(* step that writes none changes none of it.                                  *)
Text(on) == IF on["import"].says = Missing THEN Missing ELSE on["descriptors"].says
AgreeIn(d, t, c) ==
  \A x \in t :
    /\ x.collector \in c.collectors
    /\ (x.collector \in Grpc /\ x.message # NoMessage) => d # Missing /\ x.message \in d
DescribedIn(d, c) == DescriptorsOf(c) # {} => d # Missing
LoadsIn(d, s, c) == DescribedIn(d, c) /\ (c.tls => s # Missing)
Stale(on, stamps) == \E g \in DOMAIN stamps : on[g].n # stamps[g]

\* Stamps that are fresh while what the descriptors say stays: of the descriptor file,
\* and of the one it imports unless it was missing.
Covers(on, stamps) ==
  /\ "descriptors" \in DOMAIN stamps
  /\ (~Stale(on, stamps) /\ on["descriptors"].says # Missing) => "import" \in DOMAIN stamps

SaidBy(f) == file[f].says
AgreeNow(t, c) == AgreeIn(Text(file), t, c)
LoadsNow(c) == LoadsIn(Text(file), file["certificate"].says, c)

LEMMA InFiles ==
  /\ \A t, c : agree(t, c) <=> AgreeIn(Text(file), t, c)
  /\ \A c : Described(c) <=> DescribedIn(Text(file), c)
  /\ \A c : Loads(c) <=> LoadsIn(Text(file), file["certificate"].says, c)
  /\ \A s : Changed(s) <=> Stale(file, s)
<1>1. Text(file) = Descriptions
  BY DEF Text, Descriptions
<1> QED BY <1>1 DEF agree, Fits, AgreeIn, Described, DescribedIn, Loads, LoadsIn, Changed, Stale

LEMMA FreeOf ==
  /\ \A c : DescriptorsOf(c) \subseteq NamedFiles(c)
  /\ \A c : "certificate" \in NamedFiles(c) <=> c.tls
  /\ \A c : DescriptorsOf(c) # {} <=> "descriptors" \in DescriptorsOf(c)
  /\ \A c : DescriptorsOf(c) \subseteq {"descriptors"} /\ NamedFiles(c) \subseteq Named
BY DEF NamedFiles, DescriptorsOf, Named

LEMMA CheckedAre ==
  ASSUME NEW t, NEW c
  PROVE  CheckedFiles(t, {c}) # {} => DescriptorsOf(c) # {}
BY DEF CheckedFiles, DescriptorsOf

\* What is not checked against the descriptors does not depend on them.
LEMMA SameWhenFree ==
  ASSUME NEW t, NEW c, NEW d1, NEW d2, NEW s1, NEW s2
  PROVE  /\ (d1 = d2 \/ CheckedFiles(t, {c}) = {}) =>
              (AgreeIn(d1, t, c) <=> AgreeIn(d2, t, c))
         /\ (d1 = d2 \/ DescriptorsOf(c) = {}) =>
              (DescribedIn(d1, c) <=> DescribedIn(d2, c))
         /\ ((d1 = d2 \/ DescriptorsOf(c) = {}) /\ (s1 = s2 \/ ~c.tls)) =>
              (LoadsIn(d1, s1, c) <=> LoadsIn(d2, s2, c))
<1>1. CheckedFiles(t, {c}) = {} =>
        \A x \in t : (x.collector \in c.collectors /\ x.collector \in Grpc) => x.message = NoMessage
  BY DEF CheckedFiles
<1>2. (d1 = d2 \/ CheckedFiles(t, {c}) = {}) =>
        (AgreeIn(d1, t, c) <=> AgreeIn(d2, t, c))
  BY <1>1 DEF AgreeIn
<1> QED BY <1>2 DEF DescribedIn, LoadsIn

-----------------------------------------------------------------------------
(* The inductive invariant. *)

\* No stamp is of a write yet to come, and a file's last one, of one that was there.
StampsPast ==
  /\ \A f \in Watched : /\ lastMod[f] =< file[f].n
                        /\ lastMod[f] = file[f].n => file[f].says # Missing
                        /\ \A g \in DOMAIN retry[f] : retry[f][g] =< file[g].n
  /\ \A g \in DOMAIN collected : collected[g] =< file[g].n
  /\ \A g \in DOMAIN descriptors : descriptors[g] =< file[g].n
  /\ \A g \in DOMAIN loading : loading[g] =< file[g].n

\* Targets in force name collectors in force, whatever becomes of the descriptors.
Shapes ==
  /\ current = [f \in Watched |-> current[f]]
  /\ got \in [Watched -> Loaded \cup TargetFiles \cup {Nothing}]
  /\ got["config"] \in Loaded \cup {Nothing}
  /\ got["targets"] \in TargetFiles \cup {Nothing}
  /\ DOMAIN collected \subseteq {"collectors"}
  /\ \A x \in current.targets : x.collector \in current.config.collectors

\* What has been read where the reload is.
WhereIs ==
  /\ step = "idle" => \A f \in Watched : ~job[f]
  /\ \A f \in Watched : got[f] # Nothing => job[f]
  /\ step \in {"stamp config", "list collectors", "read config", "read collectors",
               "load config"} =>
       job["config"] /\ got["targets"] = Nothing
  /\ step \in {"stamp config", "list collectors", "read config"} => got["config"] = Nothing
  /\ step \in {"read collectors", "load config"} => got["config"] # Nothing
  /\ step \in {"stamp targets", "read targets"} => job["targets"] /\ got["targets"] = Nothing
  /\ step = "config alone" => Left # {}

\* A configuration that waits is read with the target file, and a target file that
\* waits with a configuration that changed; one read alone while the target file waits
\* is the one in force, unless it overtook; and a file that was to be read and was
\* not, or was refused, waits no longer.
WhoWaits ==
  /\ (step # "idle" /\ "config" \in waits /\ job["targets"]) => job["config"]
  /\ job["awaited"] => job["targets"]
  /\ ("targets" \in waits /\ ~job["targets"] /\ ~overtaken /\ got["config"] # Nothing
        /\ step # "read collectors") =>
       got["config"] = current.config
  /\ (job["config"] /\ got["config"] = Nothing
        /\ step \notin {"stamp config", "list collectors", "read config"}) =>
       "config" \notin waits
  /\ (job["targets"] /\ got["targets"] = Nothing
        /\ step \in {"check", "config alone", "targets alone"}) =>
       "targets" \notin waits

\* Neither has the watch reason to read the file again, nor is it being read.
ConfigStands == /\ file["config"].n = lastMod["config"]
                /\ ~Stale(file, collected) /\ ~Stale(file, retry["config"])
                /\ ~Stale(file, loading)
                /\ step \notin {"list collectors", "read config"} /\ got["config"] = Nothing
TargetsStand == /\ file["targets"].n = lastMod["targets"]
                /\ ~Stale(file, retry["targets"])
                /\ step # "read targets" /\ got["targets"] = Nothing

\* What makes the collector file, and what is checked, part of what was stamped.
Collects(c) == c.listed \subseteq DOMAIN collected
Depends(c) == /\ DescriptorsOf(c) # {} => Covers(file, loading)
              /\ c.tls => "certificate" \in DOMAIN retry["config"]
Checks(t, c) == CheckedFiles(t, {c}) # {} => Covers(file, retry["targets"])

\* Then the file says what is in force, or was refused for what still stands.
ConfigKnown ==
  (ConfigStands /\ "config" \notin unread /\ ~unlisted) =>
    LET c == SaidBy("config")
        s == SaidBy("collectors") IN
    \/ c = Malformed /\ "config" \in rejected /\ "config" \notin waits
    \/ /\ c \in Configurations /\ Collects(c)
       /\ \/ ~Mergeable(c, s) /\ "config" \in rejected /\ "config" \notin waits
          \/ /\ Mergeable(c, s)
             /\ "config" \notin rejected => Merged(c, s) = current.config
             /\ "config" \in rejected => Depends(Merged(c, s))
             /\ "config" \in waits => ~AgreeNow(current.targets, Merged(c, s))
             /\ ("config" \in rejected /\ "config" \notin waits) => ~LoadsNow(Merged(c, s))

TargetsKnown ==
  (TargetsStand /\ "targets" \notin unread) =>
    LET t == SaidBy("targets") IN
    /\ "targets" \notin rejected => t = current.targets
    /\ ("targets" \in rejected /\ "targets" \notin waits) => t = Malformed
    /\ ("targets" \in waits /\ ~overtaken) =>
         /\ t \in TargetFiles /\ Checks(t, current.config)
         /\ ~AgreeNow(t, current.config)

PairKnown ==
  (/\ ConfigStands /\ TargetsStand /\ ~overtaken /\ ~unlisted
   /\ "config" \in waits /\ "targets" \in waits) =>
    LET c == Merged(SaidBy("config"), SaidBy("collectors")) IN
    Checks(SaidBy("targets"), c) /\ ~AgreeNow(SaidBy("targets"), c)

\* What is in force still fits descriptors that have not changed.
InForceKnown ==
  (~Stale(file, descriptors) /\ step # "read config" /\ got["config"] = Nothing) =>
    /\ "config" \notin rejected =>
         /\ DescribedIn(Text(file), current.config)
         /\ DescriptorsOf(current.config) # {} => Covers(file, descriptors)
    /\ rejected = {} => AgreeNow(current.targets, current.config)

\* What was read is what the files say while the stamps stand.
Reads(c) ==
  (/\ file["config"].n = lastMod["config"]
   /\ c.listed # {} => file["collectors"].n = taken) =>
    /\ SaidBy("config") \in Configurations
    /\ Mergeable(SaidBy("config"), SaidBy("collectors"))
    /\ c = Merged(SaidBy("config"), SaidBy("collectors"))

\* What was read, and what was stamped before it is checked.
GotConfigKnown ==
  got["config"] # Nothing =>
    LET c == got["config"] IN
    /\ step = "read collectors" =>
         /\ c \in Configurations
         /\ file["config"].n = lastMod["config"] => SaidBy("config") = c
    /\ step # "read collectors" =>
         /\ Reads(c) /\ Depends(c)
         /\ c.listed # {} => taken =< file["collectors"].n
         /\ (c.listed # {} /\ Collects(c)) => collected["collectors"] =< taken
         /\ unlisted = ~Collects(c)
    /\ (step \notin {"read collectors", "load config"} /\ ~Stale(file, loading)) =>
         DescribedIn(Text(file), c)
GotTargetsKnown ==
  got["targets"] # Nothing =>
    LET t == got["targets"] IN
    /\ file["targets"].n = lastMod["targets"] => file["targets"].says = t
    /\ Checks(t, current.config)
    /\ got["config"] # Nothing => Checks(t, got["config"])

\* Pairs that did not agree, and still do not, or what was stamped has changed.
Refused(t, c, f) ==
  ~AgreeNow(t, c) \/ Stale(file, retry[f]) \/ (f = "config" /\ Stale(file, loading))
RefusedKnown ==
  step \in {"config alone", "targets alone"} =>
    /\ Left = {"config"} => Refused(current.targets, got["config"], "config")
    /\ Left = {"targets"} => Refused(got["targets"], current.config, "targets")
    /\ Left = Watched => /\ Refused(got["targets"], got["config"], "config")
                         /\ Refused(got["targets"], got["config"], "targets")
    /\ (Left = Watched /\ step = "targets alone") =>
         Refused(current.targets, got["config"], "config")

WatchInv ==
  /\ WatchTypeOK /\ StampsPast /\ Shapes /\ WhereIs /\ WhoWaits
  /\ ConfigKnown /\ TargetsKnown /\ PairKnown /\ InForceKnown
  /\ GotConfigKnown /\ GotTargetsKnown /\ RefusedKnown

-----------------------------------------------------------------------------

LEMMA WrittenIs ==
  ASSUME SaidBy("config") \in Configurations,
         Mergeable(SaidBy("config"), SaidBy("collectors"))
  PROVE  Written("config") = Merged(SaidBy("config"), SaidBy("collectors"))
BY DEF Written, Merged, Mergeable, SaidBy

\* The invariant says what NoChangeSleptThrough does of what is settled.
LEMMA NoneSleptThrough ==
  ASSUME WatchInv
  PROVE  NoChangeSleptThrough
<1> USE DEF WatchInv, SaidBy
<1>1. ASSUME Settled
      PROVE  /\ "config" \notin unread /\ "targets" \notin unread
             /\ step = "idle" /\ got["config"] = Nothing /\ got["targets"] = Nothing
             /\ file["config"].says # Missing => ConfigStands
             /\ file["targets"].says # Missing => TargetsStand
             /\ ~Stale(file, descriptors)
  <2>1. step = "idle" /\ ~DoConfig /\ ~DoTargets /\ ~QuietConfig /\ ~QuietTargets
    BY <1>1 DEF Settled
  <2>2. got["config"] = Nothing /\ got["targets"] = Nothing
    BY <2>1 DEF WhereIs, Watched
  <2>3. ~configChanged /\ ~targetsChanged /\ ~Changed(descriptors)
    BY <2>1 DEF DoConfig, DoTargets
  <2>4. "config" \notin unread /\ "targets" \notin unread
    BY <2>1 DEF QuietConfig, QuietTargets
  <2> QED BY <2>1, <2>2, <2>3, <2>4, InFiles
          DEF configChanged, targetsChanged, ConfigStands, TargetsStand
<1>2. ASSUME Settled, ~overtaken, ~unlisted
      PROVE  Reloaded = current
  <2> DEFINE c == Written("config")
             t == file["targets"].says
  <2>1. \/ OnDisk(Watched)["config"] = current.config
        \/ OnDisk(Watched)["config"] = c /\ "config" \in waits /\ ConfigStands
           /\ ~agree(current.targets, c)
           /\ c = Merged(SaidBy("config"), SaidBy("collectors"))
    <3>1. CASE Valid("config") = Nothing
      BY <3>1 DEF OnDisk, Watched
    <3>2. CASE Valid("config") # Nothing
      <4>1. /\ Valid("config") = c /\ Loads(c) /\ CollectorsValid
            /\ SaidBy("config") # Missing /\ SaidBy("config") # Malformed
        BY <3>2 DEF Valid, Readable
      <4>2. OnDisk(Watched)["config"] = c
        BY <3>2, <4>1 DEF OnDisk, Watched
      <4>3. ConfigKnown /\ ConfigStands /\ "config" \notin unread
        BY <1>1, <1>2, <4>1
      <4>4. /\ SaidBy("config") \in Configurations
            /\ Mergeable(SaidBy("config"), SaidBy("collectors"))
        BY <1>2, <4>1, <4>3 DEF ConfigKnown, CollectorsValid
      <4>5. c = Merged(SaidBy("config"), SaidBy("collectors"))
        BY <4>4, WrittenIs
      <4> HIDE DEF c
      <4>6. /\ "config" \notin rejected => c = current.config
            /\ "config" \in waits => ~AgreeNow(current.targets, c)
            /\ ("config" \in rejected /\ "config" \notin waits) => ~LoadsNow(c)
        BY <1>2, <4>1, <4>3, <4>4, <4>5 DEF ConfigKnown
      <4> QED BY <4>1, <4>2, <4>3, <4>5, <4>6, InFiles DEF AgreeNow, LoadsNow
    <3> QED BY <3>1, <3>2
  <2>2. \/ OnDisk(Watched)["targets"] = current.targets
        \/ OnDisk(Watched)["targets"] = t /\ "targets" \in waits /\ TargetsStand
           /\ ~agree(t, current.config)
    <3>1. CASE Valid("targets") = Nothing
      BY <3>1 DEF OnDisk, Watched
    <3>2. CASE Valid("targets") # Nothing
      <4>1. Valid("targets") = t /\ t # Missing /\ t # Malformed
        BY <3>2 DEF Valid, Readable, Written
      <4>2. OnDisk(Watched)["targets"] = t
        BY <3>2, <4>1 DEF OnDisk, Watched
      <4>3. TargetsKnown /\ TargetsStand /\ "targets" \notin unread
        BY <1>1, <1>2, <4>1
      <4> QED BY <1>2, <3>2, <4>1, <4>2, <4>3, InFiles DEF TargetsKnown, AgreeNow
    <3> QED BY <3>1, <3>2
  <2>3. /\ OnDisk(Watched) = [f \in Watched |-> OnDisk(Watched)[f]]
        /\ OnDisk({"config"}) = [f \in Watched |-> OnDisk({"config"})[f]]
        /\ OnDisk({"targets"}) = [f \in Watched |-> OnDisk({"targets"})[f]]
    BY DEF OnDisk
  <2>4. /\ OnDisk({"config"}).config = OnDisk(Watched).config
        /\ OnDisk({"config"}).targets = current.targets
        /\ OnDisk({"targets"}).config = current.config
        /\ OnDisk({"targets"}).targets = OnDisk(Watched).targets
    BY DEF OnDisk, Watched
  <2>5. current = [f \in Watched |-> current[f]]
    BY DEF Shapes
  <2> HIDE DEF c
  <2>6. (/\ "config" \in waits /\ "targets" \in waits /\ ConfigStands /\ TargetsStand
         /\ c = Merged(SaidBy("config"), SaidBy("collectors"))) =>
          ~agree(t, c)
    BY <1>2, InFiles DEF PairKnown, AgreeNow
  <2> HIDE DEF t
  <2>7. ASSUME Agreed(Watched) PROVE OnDisk(Watched) = current
    <3>1. agree(OnDisk(Watched).targets, OnDisk(Watched).config)
      BY <2>7 DEF Agreed
    <3>2. OnDisk(Watched)["config"] = current.config /\ OnDisk(Watched)["targets"] = current.targets
      BY <2>1, <2>2, <2>6, <3>1
    <3> QED BY <2>3, <2>5, <3>2 DEF Watched
  <2>8. ASSUME Agreed({"config"}) PROVE OnDisk({"config"}) = current
    <3>1. agree(current.targets, OnDisk(Watched).config)
      BY <2>4, <2>8 DEF Agreed
    <3>2. OnDisk(Watched)["config"] = current.config
      BY <2>1, <3>1
    <3> QED BY <2>3, <2>4, <2>5, <3>2 DEF Watched
  <2>9. ASSUME Agreed({"targets"}) PROVE OnDisk({"targets"}) = current
    <3>1. agree(OnDisk(Watched).targets, current.config)
      BY <2>4, <2>9 DEF Agreed
    <3>2. OnDisk(Watched)["targets"] = current.targets
      BY <2>2, <3>1
    <3> QED BY <2>3, <2>4, <2>5, <3>2 DEF Watched
  <2> QED BY <2>7, <2>8, <2>9 DEF Reloaded
<1>3. ASSUME Settled, rejected = {}, ~unlisted, NEW f \in Watched
      PROVE  file[f].says = Missing \/ Written(f) = current[f]
  <2>1. CASE f = "config"
    <3>1. SUFFICES ASSUME file["config"].says # Missing
                   PROVE  Written("config") = current["config"]
      BY <2>1
    <3>2. ConfigStands /\ ConfigKnown
      BY <1>1, <1>3, <3>1
    <3>3. /\ SaidBy("config") \in Configurations
          /\ Mergeable(SaidBy("config"), SaidBy("collectors"))
          /\ Merged(SaidBy("config"), SaidBy("collectors")) = current.config
      BY <1>1, <1>3, <3>2 DEF ConfigKnown
    <3> QED BY <3>3, WrittenIs
  <2>2. CASE f = "targets"
    BY <1>1, <1>3, <2>2 DEF TargetsKnown, Written
  <2> QED BY <2>1, <2>2 DEF Watched
<1>4. ASSUME Settled, rejected = {}
      PROVE  Agreed({}) /\ Described(current.config)
  <2>1. OnDisk({}).targets = current.targets /\ OnDisk({}).config = current.config
    BY DEF OnDisk, Watched
  <2>2. AgreeNow(current.targets, current.config) /\
        DescribedIn(Text(file), current.config)
    BY <1>1, <1>4 DEF InForceKnown
  <2> QED BY <2>1, <2>2, InFiles DEF Agreed, AgreeNow
<1>5. \A x \in current.targets : x.collector \in current.config.collectors
  BY DEF Shapes
<1> QED BY <1>2, <1>3, <1>4, <1>5 DEF NoChangeSleptThrough

-----------------------------------------------------------------------------

LEMMA NoStamps ==
  /\ DOMAIN <<>> = {} /\ IsStamps(<<>>)
  /\ \A on : ~Stale(on, <<>>)
<1>1. DOMAIN <<>> = {}
  OBVIOUS
<1>2. <<>> = [g \in {} |-> 0]
  OBVIOUS
<1> QED BY <1>1, <1>2 DEF IsStamps, Stale, Named

LEMMA StampsAre ==
  ASSUME WatchTypeOK, NEW files \in SUBSET Named
  PROVE  /\ DOMAIN Stamps(files) = files /\ IsStamps(Stamps(files))
         /\ \A g \in files : Stamps(files)[g] =< file[g].n
         /\ ~Stale(file, Stamps(files))
<1>1. \A g \in files : file[g].n \in Nat
  BY DEF WatchTypeOK, Files
<1>2. Stamps(files) = [g \in files |-> file[g].n]
  BY DEF Stamps
<1>3. \A g \in files : file[g].n =< file[g].n
  BY <1>1
<1> QED BY <1>1, <1>2, <1>3 DEF IsStamps, Stale

\* Descriptor files stamped with what they import cover what they say.
LEMMA ImportsCover ==
  ASSUME WatchTypeOK, NEW named \in SUBSET {"descriptors"},
         NEW stamps, stamps = Stamps(named \cup ImportsOf(named))
  PROVE  /\ IsStamps(stamps) /\ named \subseteq DOMAIN stamps
         /\ \A g \in DOMAIN stamps : stamps[g] =< file[g].n
         /\ ~Stale(file, stamps)
         /\ named # {} => Covers(file, stamps)
<1>1. PICK files \in SUBSET Named : files = named \cup ImportsOf(named)
  BY DEF ImportsOf, Named
<1>2. /\ DOMAIN stamps = files /\ IsStamps(stamps)
      /\ \A g \in files : stamps[g] =< file[g].n
      /\ ~Stale(file, stamps)
  BY <1>1, StampsAre
<1>3. ASSUME named # {}
      PROVE  Covers(file, stamps)
  <2>1. "descriptors" \in named
    BY <1>3
  <2>2. file["descriptors"].says # Missing => "import" \in files
    BY <1>1, <1>3 DEF ImportsOf
  <2> QED BY <1>1, <1>2, <2>1, <2>2 DEF Covers
<1> QED BY <1>1, <1>2, <1>3

\* Imports that a refusal adds are as they are.
LEMMA RetryImportedAre ==
  ASSUME WatchTypeOK, NEW stamps, IsStamps(stamps),
         \A g \in DOMAIN stamps : stamps[g] =< file[g].n,
         NEW added, added = retryImported(stamps)
  PROVE  /\ IsStamps(added) /\ DOMAIN stamps \subseteq DOMAIN added
         /\ \A g \in DOMAIN added : added[g] =< file[g].n
         /\ Stale(file, added) <=> Stale(file, stamps)
<1>1. PICK imports \in SUBSET {"import"} : imports = ImportsOf(DescriptorsOf(current.config))
  BY DEF ImportsOf
<1>2. added = [f \in DOMAIN stamps \cup imports |->
                 IF f \in DOMAIN stamps THEN stamps[f] ELSE file[f].n]
  BY <1>1 DEF retryImported
<1>3. DOMAIN added = DOMAIN stamps \cup imports /\ DOMAIN added \subseteq Named
  BY <1>2 DEF IsStamps, Named
<1>4. \A g \in Named : file[g].n \in Nat
  BY DEF WatchTypeOK, Files
<1>5. \A g \in DOMAIN added : added[g] = IF g \in DOMAIN stamps THEN stamps[g] ELSE file[g].n
  BY <1>2
<1>6. \A g \in DOMAIN stamps : stamps[g] \in Nat
  BY DEF IsStamps
<1>7. IsStamps(added)
  <2>1. \A g \in DOMAIN added : added[g] \in Nat
    BY <1>3, <1>4, <1>5, <1>6
  <2> QED BY <1>2, <1>3, <2>1 DEF IsStamps
<1>8. \A g \in DOMAIN added : added[g] =< file[g].n
  BY <1>3, <1>4, <1>5
<1>9. Stale(file, added) <=> Stale(file, stamps)
  BY <1>3, <1>5 DEF Stale
<1> QED BY <1>3, <1>7, <1>8, <1>9

LEMMA InitWatchInv ==
  ASSUME WatchInit
  PROVE  WatchInv
<1>1. PICK c \in Configurations, t \in TargetFiles, s \in CollectorFiles, d \in SUBSET Messages :
       /\ file = [f \in Files |-> [n |-> 0, says |->
            CASE f = "config" -> c [] f = "targets" -> t
              [] f = "descriptors" -> d [] f = "collectors" -> s
              [] f \in {"import", "certificate"} -> "valid"]]
       /\ Mergeable(c, s) /\ agree(t, Merged(c, s))
       /\ current = [config |-> Merged(c, s), targets |-> t]
       /\ collected = Stamps(c.listed)
       /\ descriptors = LET named == DescriptorsOf(Merged(c, s)) IN
                          Stamps(named \cup ImportsOf(named))
  BY DEF WatchInit
<1>2. /\ file["config"] = [n |-> 0, says |-> c] /\ file["targets"] = [n |-> 0, says |-> t]
      /\ file["descriptors"] = [n |-> 0, says |-> d]
      /\ file["collectors"] = [n |-> 0, says |-> s]
      /\ file["import"] = [n |-> 0, says |-> "valid"]
      /\ file["certificate"] = [n |-> 0, says |-> "valid"]
      /\ DOMAIN file = Files
  BY <1>1 DEF Files, Watched, Named
<1>3. PICK m : m = Merged(c, s)
  OBVIOUS
<1>4. current.config = m /\ current.targets = t /\ current = [f \in Watched |-> current[f]]
  BY <1>1, <1>3 DEF Watched
<1>5. m \in Loaded /\ c \in Loaded /\ c.listed \subseteq {"collectors"}
  BY <1>3, WatchAssumption DEF Merged, Loaded
<1>6. /\ hidden = {} /\ step = "idle" /\ taken = 0
      /\ job = [f \in Reasons |-> FALSE] /\ got = [f \in Watched |-> Nothing]
      /\ lastMod = [f \in Watched |-> 0] /\ loading = <<>>
      /\ retry = [f \in Watched |-> <<>>]
      /\ waits = {} /\ unread = {} /\ rejected = {} /\ overtaken = FALSE /\ unlisted = FALSE
  BY DEF WatchInit
<1>7. \A f \in Files : file[f].n = 0 /\ file[f].says \in Says(f)
  <2>1. /\ Says("config") = Configurations \cup {Malformed, Missing}
        /\ Says("targets") = TargetFiles \cup {Malformed, Missing}
        /\ Says("descriptors") = (SUBSET Messages) \cup {Missing}
        /\ Says("collectors") = CollectorFiles \cup {Malformed, Missing}
        /\ Says("import") = {"valid", Missing} /\ Says("certificate") = {"valid", Missing}
    BY DEF Says
  <2> QED BY <1>2, <2>1 DEF Files, Watched, Named
<1>8. \A f \in Watched : file[f].n = 0 /\ file[f].says # Missing
  BY <1>2, WatchAssumption DEF Watched
<1> DEFINE named == DescriptorsOf(m)
<1>9. named \in SUBSET {"descriptors"} /\ descriptors = Stamps(named \cup ImportsOf(named))
  BY <1>1, <1>3 DEF DescriptorsOf
<1>10. PICK stamped \in SUBSET Named : stamped = named \cup ImportsOf(named)
  BY <1>9 DEF ImportsOf, Named
<1> HIDE DEF named
<1>11. /\ IsStamps(descriptors) /\ IsStamps(collected)
       /\ DOMAIN collected = c.listed /\ DOMAIN descriptors = stamped
       /\ \A g \in DOMAIN descriptors : descriptors[g] = file[g].n /\ file[g].n = 0
       /\ \A g \in DOMAIN collected : collected[g] = file[g].n /\ file[g].n = 0
  <2>1. PICK listed \in SUBSET Named : listed = c.listed
    BY <1>5 DEF Named
  <2>2. /\ descriptors = [f \in stamped |-> file[f].n]
        /\ collected = [f \in listed |-> file[f].n]
    BY <1>1, <1>9, <1>10, <2>1 DEF Stamps
  <2>3. \A f \in Named : file[f].n = 0
    BY <1>7 DEF Files
  <2> QED BY <2>1, <2>2, <2>3 DEF IsStamps
<1>12. WatchTypeOK
  BY <1>1, <1>2, <1>4, <1>5, <1>6, <1>7, <1>11, NoStamps DEF WatchTypeOK, Watched
<1>13. StampsPast
  BY <1>6, <1>8, <1>11, NoStamps DEF StampsPast, Watched
<1>14. Shapes
  <2>1. \A x \in t : x.collector \in m.collectors
    BY <1>1, <1>3 DEF agree
  <2> QED BY <1>4, <1>5, <1>6, <1>11, <2>1 DEF Shapes, Watched
<1>15. got["config"] = Nothing /\ got["targets"] = Nothing
  BY <1>6 DEF Watched
<1>16. WhereIs
  BY <1>6 DEF WhereIs, Reasons, Watched
<1>17. WhoWaits
  BY <1>6 DEF WhoWaits, Reasons, Watched
<1>18. ConfigKnown /\ TargetsKnown /\ PairKnown
  <2>1. SaidBy("config") = c /\ SaidBy("collectors") = s
    BY <1>2 DEF SaidBy
  <2>2. Mergeable(c, s) /\ Merged(c, s) = current.config /\ Collects(c)
    BY <1>1, <1>3, <1>4, <1>11 DEF Collects
  <2> QED BY <1>2, <1>4, <1>6, <2>1, <2>2 DEF ConfigKnown, TargetsKnown, PairKnown, SaidBy
<1>19. InForceKnown
  <2>1. AgreeNow(current.targets, current.config)
    BY <1>1, <1>3, <1>4, InFiles DEF AgreeNow
  <2>2. Text(file) # Missing
    BY <1>2, WatchAssumption DEF Text
  <2>3. DescribedIn(Text(file), current.config)
    BY <2>2 DEF DescribedIn
  <2>4. DescriptorsOf(current.config) # {} => Covers(file, descriptors)
    BY <1>4, <1>9, <1>12, ImportsCover DEF named
  <2> QED BY <2>1, <2>3, <2>4 DEF InForceKnown
<1>20. GotConfigKnown /\ GotTargetsKnown /\ RefusedKnown
  BY <1>6, <1>15 DEF GotConfigKnown, GotTargetsKnown, RefusedKnown
<1> QED BY <1>12, <1>13, <1>14, <1>16, <1>17, <1>18, <1>19, <1>20 DEF WatchInv

\* A write makes every stamp of the file stale, and no other one fresh.
LEMMA WriteStales ==
  ASSUME WatchTypeOK, NEW f \in Files, NEW s,
         file' = [file EXCEPT ![f] = [says |-> s, n |-> file[f].n + 1]],
         NEW stamps, IsStamps(stamps), \A g \in DOMAIN stamps : stamps[g] =< file[g].n,
         ~Stale(file', stamps)
  PROVE  ~Stale(file, stamps) /\ f \notin DOMAIN stamps
<1>1. /\ \A g \in Files : file[g].n \in Nat
      /\ \A g \in Files : file'[g].n = IF g = f THEN file[g].n + 1 ELSE file[g].n
  BY DEF WatchTypeOK
<1>2. DOMAIN stamps \subseteq Files /\ \A g \in DOMAIN stamps : stamps[g] \in Nat
  BY DEF IsStamps, Files
<1>3. \A g \in DOMAIN stamps : file'[g].n = stamps[g]
  BY DEF Stale
<1>4. f \notin DOMAIN stamps
  BY <1>1, <1>2, <1>3
<1> QED BY <1>1, <1>2, <1>3, <1>4 DEF Stale

LEMMA CoversStay ==
  ASSUME WatchTypeOK, NEW f \in Files, NEW s,
         file' = [file EXCEPT ![f] = [says |-> s, n |-> file[f].n + 1]],
         NEW stamps, IsStamps(stamps), \A g \in DOMAIN stamps : stamps[g] =< file[g].n,
         Covers(file, stamps)
  PROVE  /\ Covers(file', stamps)
         /\ ~Stale(file', stamps) => Text(file') = Text(file)
<1>1. SUFFICES ASSUME ~Stale(file', stamps)
               PROVE  Covers(file', stamps) /\ Text(file') = Text(file)
  BY DEF Covers
<1>2. ~Stale(file, stamps) /\ f \notin DOMAIN stamps
  BY <1>1, WriteStales
<1>3. "descriptors" \in DOMAIN stamps /\ f # "descriptors"
  BY <1>2 DEF Covers
<1>4. \A g \in Files : g # f => file'[g] = file[g]
  BY DEF WatchTypeOK
<1>5. file'["descriptors"] = file["descriptors"]
  BY <1>3, <1>4 DEF Files, Named
<1>6. CASE file["descriptors"].says = Missing
  BY <1>3, <1>5, <1>6 DEF Covers, Text
<1>7. CASE file["descriptors"].says # Missing
  <2>1. "import" \in DOMAIN stamps /\ f # "import"
    BY <1>2, <1>7 DEF Covers
  <2>2. file'["import"] = file["import"]
    BY <1>4, <2>1 DEF Files, Named
  <2> QED BY <1>3, <1>5, <2>1, <2>2 DEF Covers, Text
<1> QED BY <1>6, <1>7

LEMMA WriteKeepsWatchInv ==
  ASSUME WatchInv, NEW f \in Files, NEW s \in Says(f), Write(f, s)
  PROVE  WatchInv'
<1> USE DEF WatchInv
<1>1. /\ file' = [file EXCEPT ![f] = [says |-> s, n |-> file[f].n + 1]]
      /\ UNCHANGED <<hidden, current, step, job, got, taken, lastMod, collected, descriptors,
                     loading, retry, waits, unread, rejected, overtaken, unlisted>>
  BY DEF Write, reload, watch, history
<1>2. /\ \A g \in Files : file[g].n \in Nat
      /\ file'[f].n = file[f].n + 1 /\ file'[f].says = s
      /\ \A g \in Files : g # f => file'[g] = file[g]
      /\ DOMAIN file' = Files
  BY <1>1 DEF WatchTypeOK
<1>3. \A g \in Files : file'[g].n \in Nat /\ file'[g].n >= file[g].n
  BY <1>2
<1>4. WatchTypeOK'
  <2>1. \A g \in Files : file'[g].n \in Nat /\ file'[g].says \in Says(g)
    BY <1>2, <1>3 DEF WatchTypeOK
  <2> QED BY <1>1, <1>2, <2>1 DEF WatchTypeOK, IsStamps, Says
<1>5. /\ \A g \in Watched : lastMod[g] =< file[g].n /\ lastMod[g] \in Nat
      /\ \A g \in Watched : IsStamps(retry[g]) /\ \A h \in DOMAIN retry[g] : retry[g][h] =< file[h].n
      /\ IsStamps(loading) /\ \A h \in DOMAIN loading : loading[h] =< file[h].n
      /\ IsStamps(collected) /\ \A h \in DOMAIN collected : collected[h] =< file[h].n
      /\ IsStamps(descriptors) /\ \A h \in DOMAIN descriptors : descriptors[h] =< file[h].n
  BY DEF StampsPast, WatchTypeOK
<1>6. StampsPast'
  <2>1. ASSUME NEW g \in Watched
        PROVE  /\ lastMod[g] =< file'[g].n
               /\ lastMod[g] = file'[g].n => file'[g].says # Missing
    BY <1>2, <1>3, <1>5 DEF StampsPast, Files
  <2>2. ASSUME NEW stamps, IsStamps(stamps), \A h \in DOMAIN stamps : stamps[h] =< file[h].n
        PROVE  \A h \in DOMAIN stamps : stamps[h] =< file'[h].n
    BY <1>2, <1>3, <2>2 DEF IsStamps, Files
  <2> QED BY <1>1, <1>5, <2>1, <2>2 DEF StampsPast
<1>7. Shapes' /\ WhereIs' /\ WhoWaits'
  BY <1>1 DEF Shapes, WhereIs, WhoWaits, Left
<1>8. /\ \A g \in Watched : file'[g].n = lastMod[g] => file[g].n = lastMod[g] /\ g # f
      /\ \A g \in Watched : ~Stale(file', retry[g]) => ~Stale(file, retry[g]) /\ f \notin DOMAIN retry[g]
      /\ ~Stale(file', loading) => ~Stale(file, loading) /\ f \notin DOMAIN loading
      /\ ~Stale(file', collected) => ~Stale(file, collected) /\ f \notin DOMAIN collected
      /\ ~Stale(file', descriptors) => ~Stale(file, descriptors) /\ f \notin DOMAIN descriptors
  <2>1. \A g \in Watched : file'[g].n = lastMod[g] => file[g].n = lastMod[g] /\ g # f
    BY <1>2, <1>5 DEF Files
  <2> QED BY <1>1, <1>5, <2>1, WriteStales
<1> DEFINE d == Text(file)
           e == file["certificate"].says
           dd == Text(file')
           ee == file'["certificate"].says
           s1 == file["collectors"].says
           s2 == file'["collectors"].says
<1>9. (f # "certificate" => ee = e) /\ (f # "collectors" => s2 = s1)
  BY <1>2 DEF Files, Named
<1>10. \A g \in Watched : f # g => file'[g] = file[g]
  BY <1>2 DEF Files
<1>11. /\ \A g \in Watched : Covers(file, retry[g]) =>
            Covers(file', retry[g]) /\ (~Stale(file', retry[g]) => dd = d)
       /\ Covers(file, loading) => Covers(file', loading) /\ (~Stale(file', loading) => dd = d)
       /\ Covers(file, descriptors) =>
            Covers(file', descriptors) /\ (~Stale(file', descriptors) => dd = d)
  BY <1>1, <1>5, CoversStay
<1> HIDE DEF WatchInv, d, dd, e, ee, s1, s2
<1>12. ASSUME ConfigStands', "config" \notin unread, ~unlisted
       PROVE  /\ ConfigStands /\ file'["config"] = file["config"]
              /\ file["config"].says \in Configurations =>
                   /\ Merged(file["config"].says, s2) = Merged(file["config"].says, s1)
                   /\ Mergeable(file["config"].says, s2) <=> Mergeable(file["config"].says, s1)
  <2>1. /\ ConfigStands /\ f # "config" /\ f \notin DOMAIN collected
        /\ file'["config"] = file["config"] /\ ConfigKnown
    BY <1>1, <1>8, <1>10, <1>12 DEF ConfigStands, Watched, WatchInv
  <2>2. PICK c : c = file["config"].says
    OBVIOUS
  <2>3. ASSUME c \in Configurations
        PROVE  /\ Merged(c, s2) = Merged(c, s1)
               /\ Mergeable(c, s2) <=> Mergeable(c, s1)
    <3>1. c.listed \subseteq DOMAIN collected /\ c.listed \subseteq {"collectors"}
      BY <1>12, <2>1, <2>2, <2>3, WatchAssumption DEF ConfigKnown, SaidBy, Collects, Loaded
    <3>2. f = "collectors" => c.listed = {}
      BY <2>1, <3>1
    <3> QED BY <1>9, <3>2 DEF Merged, Mergeable
  <2> QED BY <2>1, <2>2, <2>3
<1>13. ConfigKnown'
  <2> SUFFICES ASSUME ConfigStands', "config" \notin unread, ~unlisted
               PROVE  ConfigKnown'
    BY <1>1 DEF ConfigKnown
  <2>1. ConfigStands /\ file'["config"] = file["config"]
    BY <1>12
  <2>2. ConfigKnown /\ f \notin DOMAIN retry["config"] /\ ~Stale(file', loading)
    BY <1>1, <1>8 DEF ConfigStands, Watched, WatchInv
  <2>3. PICK c : c = file["config"].says
    OBVIOUS
  <2>4. PICK m : m = Merged(c, s1)
    OBVIOUS
  <2>5. \/ c = Malformed /\ "config" \in rejected /\ "config" \notin waits
        \/ /\ c \in Configurations /\ Collects(c)
           /\ \/ ~Mergeable(c, s1) /\ "config" \in rejected /\ "config" \notin waits
              \/ /\ Mergeable(c, s1)
                 /\ "config" \notin rejected => m = current.config
                 /\ "config" \in rejected => Depends(m)
                 /\ "config" \in waits => ~AgreeIn(d, current.targets, m)
                 /\ ("config" \in rejected /\ "config" \notin waits) => ~LoadsIn(d, e, m)
    BY <2>1, <2>2, <2>3, <2>4 DEF ConfigKnown, AgreeNow, LoadsNow, SaidBy, d, e, s1
  <2>6. ASSUME Depends(m)
        PROVE  /\ AgreeIn(dd, current.targets, m) <=> AgreeIn(d, current.targets, m)
               /\ LoadsIn(dd, ee, m) <=> LoadsIn(d, e, m)
               /\ DescriptorsOf(m) # {} => Covers(file', loading)
               /\ m.tls => "certificate" \in DOMAIN retry["config"]
    <3>1. DescriptorsOf(m) # {} => Covers(file, loading)
      BY <2>6 DEF Depends
    <3>2. m.tls => "certificate" \in DOMAIN retry["config"]
      BY <2>6 DEF Depends
    <3>3. DescriptorsOf(m) # {} => dd = d /\ Covers(file', loading)
      BY <1>11, <2>2, <3>1
    <3>4. m.tls => ee = e
      BY <1>9, <2>2, <3>2
    <3> QED BY <3>2, <3>3, <3>4, CheckedAre, SameWhenFree
  <2>7. c \in Configurations => Merged(c, s2) = m /\ (Mergeable(c, s2) <=> Mergeable(c, s1))
    BY <1>12, <2>3, <2>4
  <2>8. "config" \in waits => "config" \in rejected
    BY DEF WatchInv, WatchTypeOK
  <2>9. \/ c = Malformed /\ "config" \in rejected /\ "config" \notin waits
        \/ /\ c \in Configurations /\ Collects(c)
           /\ \/ ~Mergeable(c, s2) /\ "config" \in rejected /\ "config" \notin waits
              \/ /\ Mergeable(c, s2) /\ Merged(c, s2) = m
                 /\ "config" \notin rejected => m = current.config
                 /\ "config" \in rejected => Depends(m)'
                 /\ "config" \in waits => ~AgreeIn(dd, current.targets, m)
                 /\ ("config" \in rejected /\ "config" \notin waits) => ~LoadsIn(dd, ee, m)
    BY <1>1, <2>5, <2>6, <2>7, <2>8 DEF Depends
  <2> QED BY <1>1, <2>1, <2>3, <2>9 DEF ConfigKnown, AgreeNow, LoadsNow, SaidBy, Collects,
                                        dd, ee, s2
<1>14. ASSUME NEW t, NEW c, Checks(t, c), ~Stale(file', retry["targets"])
       PROVE  Checks(t, c)' /\ (AgreeIn(dd, t, c) <=> AgreeIn(d, t, c))
  BY <1>1, <1>11, <1>14, SameWhenFree DEF Checks, Watched
<1>15. ASSUME NEW t, NEW c, Checks(t, c)
       PROVE  CheckedFiles(t, {c}) # {} => Covers(file', retry["targets"])
  BY <1>11, <1>15 DEF Checks, Watched
<1>16. TargetsKnown'
  <2> SUFFICES ASSUME TargetsStand', "targets" \notin unread
               PROVE  TargetsKnown'
    BY <1>1 DEF TargetsKnown
  <2>1. TargetsStand /\ f # "targets" /\ ~Stale(file', retry["targets"])
    BY <1>1, <1>8 DEF TargetsStand, Watched
  <2>2. file'["targets"] = file["targets"] /\ TargetsKnown
    BY <1>10, <2>1 DEF Watched, WatchInv
  <2>3. PICK t : t = file["targets"].says
    OBVIOUS
  <2>4. PICK c : c = current.config
    OBVIOUS
  <2>5. /\ "targets" \notin rejected => t = current.targets
        /\ ("targets" \in rejected /\ "targets" \notin waits) => t = Malformed
        /\ ("targets" \in waits /\ ~overtaken) =>
             t \in TargetFiles /\ Checks(t, c) /\ ~AgreeIn(d, t, c)
    BY <2>1, <2>2, <2>3, <2>4 DEF TargetsKnown, AgreeNow, SaidBy, d
  <2>6. Checks(t, c) => (CheckedFiles(t, {c}) # {} => Covers(file', retry["targets"]))
                        /\ (AgreeIn(dd, t, c) <=> AgreeIn(d, t, c))
    BY <1>14, <1>15, <2>1
  <2> QED BY <1>1, <2>2, <2>3, <2>4, <2>5, <2>6 DEF TargetsKnown, AgreeNow, SaidBy, Checks, dd
<1>17. PairKnown'
  <2> SUFFICES ASSUME ConfigStands', TargetsStand', "config" \in waits, "targets" \in waits,
                      ~overtaken, ~unlisted
               PROVE  PairKnown'
    BY <1>1 DEF PairKnown
  <2>0. "config" \notin unread
    BY DEF WatchInv, WatchTypeOK
  <2>1. TargetsStand /\ f # "targets" /\ ~Stale(file', retry["targets"])
    BY <1>1, <1>8 DEF TargetsStand, Watched
  <2>2. ConfigStands /\ file'["config"] = file["config"] /\ file'["targets"] = file["targets"]
    BY <1>10, <1>12, <2>0, <2>1 DEF Watched
  <2>3. PICK c, t : c = file["config"].says /\ t = file["targets"].says
    OBVIOUS
  <2>4. PICK m : m = Merged(c, s1)
    OBVIOUS
  <2>5. Checks(t, m) /\ ~AgreeIn(d, t, m)
    BY <2>1, <2>2, <2>3, <2>4 DEF WatchInv, PairKnown, AgreeNow, SaidBy, d, s1
  <2>6. ConfigKnown
    BY DEF WatchInv
  <2>7. c \in Configurations
    BY <2>0, <2>2, <2>3, <2>6 DEF ConfigKnown, SaidBy
  <2>8. Merged(c, s2) = m
    BY <1>12, <2>0, <2>3, <2>4, <2>7
  <2>9. ~AgreeIn(dd, t, m) /\ (CheckedFiles(t, {m}) # {} => Covers(file', retry["targets"]))
    BY <1>14, <1>15, <2>1, <2>5
  <2> QED BY <1>1, <2>2, <2>3, <2>8, <2>9 DEF PairKnown, AgreeNow, SaidBy, Checks, dd, s2
<1>18. InForceKnown'
  <2> SUFFICES ASSUME ~Stale(file', descriptors), step # "read config", got["config"] = Nothing
               PROVE  InForceKnown'
    BY <1>1 DEF InForceKnown
  <2>1. ~Stale(file, descriptors) /\ InForceKnown
    BY <1>8 DEF WatchInv
  <2>2. PICK c, t : c = current.config /\ t = current.targets
    OBVIOUS
  <2>3. /\ "config" \notin rejected =>
             DescribedIn(d, c) /\ (DescriptorsOf(c) # {} => Covers(file, descriptors))
        /\ rejected = {} => AgreeIn(d, t, c)
    BY <2>1, <2>2 DEF InForceKnown, AgreeNow, d
  <2>4. (DescriptorsOf(c) # {} /\ Covers(file, descriptors)) =>
          dd = d /\ Covers(file', descriptors)
    BY <1>11
  <2>5. "config" \notin rejected =>
             /\ DescribedIn(dd, c) /\ (AgreeIn(dd, t, c) <=> AgreeIn(d, t, c))
             /\ DescriptorsOf(c) # {} => Covers(file', descriptors)
    BY <2>3, <2>4, CheckedAre, SameWhenFree
  <2> QED BY <1>1, <2>2, <2>3, <2>5 DEF InForceKnown, AgreeNow, dd
<1>19. GotConfigKnown'
  <2> SUFFICES ASSUME got["config"] # Nothing
               PROVE  GotConfigKnown'
    BY <1>1 DEF GotConfigKnown
  <2>1. PICK c : c = got["config"]
    OBVIOUS
  <2>2. GotConfigKnown
    BY DEF WatchInv
  <2>3. file'["config"].n = lastMod["config"] =>
          file["config"].n = lastMod["config"] /\ file'["config"] = file["config"]
    BY <1>8, <1>10 DEF Watched
  <2>4. CASE step = "read collectors"
    BY <1>1, <2>1, <2>2, <2>3, <2>4 DEF GotConfigKnown, SaidBy
  <2>5. CASE step # "read collectors"
    <3>1. /\ Reads(c) /\ Depends(c)
          /\ (c.listed # {} /\ Collects(c)) => collected["collectors"] =< taken
          /\ unlisted = ~Collects(c)
          /\ (step # "load config" /\ ~Stale(file, loading)) => DescribedIn(d, c)
      BY <2>1, <2>2, <2>5 DEF GotConfigKnown, d
    <3>0. c.listed # {} => taken =< file["collectors"].n
      BY <2>1, <2>2, <2>5 DEF GotConfigKnown
    <3>2. /\ file["collectors"].n \in Nat /\ taken \in Nat /\ file'["collectors"].n \in Nat
          /\ file'["collectors"].n >= file["collectors"].n
      BY <1>2, <1>3 DEF WatchInv, WatchTypeOK, Files, Named
    <3>3. Reads(c)'
      <4>1. SUFFICES ASSUME file'["config"].n = lastMod["config"],
                            c.listed # {} => file'["collectors"].n = taken
                     PROVE  /\ file'["config"].says \in Configurations
                            /\ Mergeable(file'["config"].says, s2)
                            /\ c = Merged(file'["config"].says, s2)
        BY <1>1 DEF Reads, SaidBy, s2
      <4>2. c.listed # {} => file["collectors"].n = taken /\ f # "collectors"
        BY <1>2, <3>0, <3>2, <4>1 DEF Files, Named
      <4>3. /\ file["config"].says \in Configurations
            /\ Mergeable(file["config"].says, s1)
            /\ c = Merged(file["config"].says, s1)
            /\ file'["config"].says = file["config"].says
        BY <2>3, <3>1, <4>1, <4>2 DEF Reads, SaidBy, s1
      <4>4. PICK k : k = file["config"].says
        OBVIOUS
      <4>5. c.listed = k.listed
        BY <4>3, <4>4, WatchAssumption DEF Merged, Loaded
      <4>6. Mergeable(k, s2) /\ c = Merged(k, s2)
        BY <1>9, <4>2, <4>3, <4>4, <4>5 DEF Merged, Mergeable
      <4> QED BY <4>3, <4>4, <4>6
    <3>4. /\ DescriptorsOf(c) # {} =>
               Covers(file', loading) /\ (~Stale(file', loading) => dd = d)
          /\ c.tls => "certificate" \in DOMAIN retry["config"]
      <4>1. DescriptorsOf(c) # {} => Covers(file, loading)
        BY <3>1 DEF Depends
      <4>2. c.tls => "certificate" \in DOMAIN retry["config"]
        BY <3>1 DEF Depends
      <4> QED BY <1>11, <4>1, <4>2
    <3>5. (step # "load config" /\ ~Stale(file', loading)) => DescribedIn(dd, c)
      BY <1>8, <3>1, <3>4, SameWhenFree
    <3>6. c.listed # {} => taken =< file'["collectors"].n
      BY <3>0, <3>2
    <3> QED BY <1>1, <2>1, <2>5, <3>1, <3>3, <3>4, <3>5, <3>6
            DEF GotConfigKnown, Depends, Collects, dd
  <2> QED BY <2>4, <2>5
<1>20. GotTargetsKnown'
  <2> SUFFICES ASSUME got["targets"] # Nothing
               PROVE  GotTargetsKnown'
    BY <1>1 DEF GotTargetsKnown
  <2>1. file'["targets"].n = lastMod["targets"] => file'["targets"].says = got["targets"]
    BY <1>8, <1>10 DEF Watched, WatchInv, GotTargetsKnown
  <2>2. PICK t, c, k : t = got["targets"] /\ c = current.config /\ k = got["config"]
    OBVIOUS
  <2>3. Checks(t, c) /\ (k # Nothing => Checks(t, k))
    BY <2>2 DEF WatchInv, GotTargetsKnown
  <2>4. /\ CheckedFiles(t, {c}) # {} => Covers(file', retry["targets"])
        /\ k # Nothing => (CheckedFiles(t, {k}) # {} => Covers(file', retry["targets"]))
    BY <1>15, <2>3
  <2> QED BY <1>1, <2>1, <2>2, <2>4 DEF GotTargetsKnown, Checks
<1>21. RefusedKnown'
  <2>1. ASSUME NEW t, NEW c, Depends(c), Refused(t, c, "config")
        PROVE  ~AgreeIn(dd, t, c) \/ Stale(file', retry["config"]) \/ Stale(file', loading)
    <3> SUFFICES ASSUME ~Stale(file', retry["config"]), ~Stale(file', loading)
                 PROVE  ~AgreeIn(dd, t, c)
      OBVIOUS
    <3>1. ~AgreeIn(d, t, c)
      BY <1>8, <2>1 DEF Refused, AgreeNow, Watched, d
    <3>2. DescriptorsOf(c) # {} => Covers(file, loading)
      BY <2>1 DEF Depends
    <3>3. CheckedFiles(t, {c}) # {} => dd = d
      BY <1>11, <3>2, CheckedAre
    <3> QED BY <3>1, <3>3, SameWhenFree
  <2>2. ASSUME NEW t, NEW c, Checks(t, c), Refused(t, c, "targets")
        PROVE  ~AgreeIn(dd, t, c) \/ Stale(file', retry["targets"])
    BY <1>8, <1>14, <2>2 DEF Refused, AgreeNow, Watched, d
  <2>3. GotConfigKnown /\ GotTargetsKnown /\ RefusedKnown
    BY DEF WatchInv
  <2>4. PICK c, t, k, u : c = got["config"] /\ t = got["targets"] /\ k = current.config
                          /\ u = current.targets
    OBVIOUS
  <2>5. SUFFICES ASSUME step \in {"config alone", "targets alone"}
                 PROVE  RefusedKnown'
    BY <1>1 DEF RefusedKnown
  <2>6. /\ c # Nothing => Depends(c)
        /\ t # Nothing => Checks(t, k)
        /\ (t # Nothing /\ c # Nothing) => Checks(t, c)
    BY <2>3, <2>4, <2>5 DEF GotConfigKnown, GotTargetsKnown
  <2>7. Left = {"config"} =>
          ~AgreeIn(dd, u, c) \/ Stale(file', retry["config"]) \/ Stale(file', loading)
    <3>1. SUFFICES ASSUME Left = {"config"}
                   PROVE  ~AgreeIn(dd, u, c) \/ Stale(file', retry["config"]) \/ Stale(file', loading)
      OBVIOUS
    <3>2. c # Nothing
      BY <2>4, <3>1 DEF Left
    <3>3. Refused(u, c, "config")
      BY <2>3, <2>4, <2>5, <3>1 DEF RefusedKnown
    <3> QED BY <2>1, <2>6, <3>2, <3>3
  <2>8. Left = {"targets"} => ~AgreeIn(dd, t, k) \/ Stale(file', retry["targets"])
    <3>1. SUFFICES ASSUME Left = {"targets"}
                   PROVE  ~AgreeIn(dd, t, k) \/ Stale(file', retry["targets"])
      OBVIOUS
    <3>2. t # Nothing
      BY <2>4, <3>1 DEF Left
    <3>3. Refused(t, k, "targets")
      BY <2>3, <2>4, <2>5, <3>1 DEF RefusedKnown
    <3> QED BY <2>2, <2>6, <3>2, <3>3
  <2>9. Left = Watched =>
          /\ ~AgreeIn(dd, t, c) \/ Stale(file', retry["config"]) \/ Stale(file', loading)
          /\ ~AgreeIn(dd, t, c) \/ Stale(file', retry["targets"])
    <3>1. SUFFICES ASSUME Left = Watched
                   PROVE  /\ ~AgreeIn(dd, t, c) \/ Stale(file', retry["config"])
                             \/ Stale(file', loading)
                          /\ ~AgreeIn(dd, t, c) \/ Stale(file', retry["targets"])
      OBVIOUS
    <3>2. c # Nothing /\ t # Nothing
      BY <2>4, <3>1 DEF Left, Watched
    <3>3. Refused(t, c, "config") /\ Refused(t, c, "targets")
      BY <2>3, <2>4, <2>5, <3>1 DEF RefusedKnown
    <3> QED BY <2>1, <2>2, <2>6, <3>2, <3>3
  <2>10. (Left = Watched /\ step = "targets alone") =>
          ~AgreeIn(dd, u, c) \/ Stale(file', retry["config"]) \/ Stale(file', loading)
    <3>1. SUFFICES ASSUME Left = Watched, step = "targets alone"
                   PROVE  ~AgreeIn(dd, u, c) \/ Stale(file', retry["config"]) \/ Stale(file', loading)
      OBVIOUS
    <3>2. c # Nothing
      BY <2>4, <3>1 DEF Left, Watched
    <3>3. Refused(u, c, "config")
      BY <2>3, <2>4, <2>5, <3>1 DEF RefusedKnown
    <3> QED BY <2>1, <2>6, <3>2, <3>3
  <2>11. Left' = Left
    BY <1>1 DEF Left
  <2> QED BY <1>1, <2>4, <2>7, <2>8, <2>9, <2>10, <2>11 DEF RefusedKnown, Refused, AgreeNow, dd
<1> QED BY <1>4, <1>6, <1>7, <1>13, <1>16, <1>17, <1>18, <1>19, <1>20, <1>21 DEF WatchInv

-----------------------------------------------------------------------------

LEMMA AccessKeepsWatchInv ==
  ASSUME WatchInv,
         \/ \E f \in Watched \cup {"collectors"} : ChangeAccess(f)
         \/ UNCHANGED wvars
  PROVE  WatchInv'
<1> USE DEF WatchInv
<1>1. /\ UNCHANGED <<file, current, step, job, got, taken, lastMod, collected, descriptors,
                     loading, retry, waits, unread, rejected, overtaken, unlisted>>
      /\ hidden' \subseteq Watched \cup {"collectors"}
  BY DEF ChangeAccess, reload, watch, wvars, history, WatchTypeOK
<1>2. WatchTypeOK'
  BY <1>1 DEF WatchTypeOK, Says
<1>3. (StampsPast /\ Shapes /\ WhereIs /\ WhoWaits)'
  BY <1>1 DEF StampsPast, Shapes, WhereIs, WhoWaits, Left
<1>4. (ConfigKnown /\ TargetsKnown /\ PairKnown)'
  BY <1>1 DEF ConfigKnown, TargetsKnown, PairKnown, ConfigStands, TargetsStand, SaidBy,
              AgreeNow, LoadsNow, Collects, Depends, Checks
<1>5. InForceKnown'
  BY <1>1 DEF InForceKnown, AgreeNow
<1>6. GotConfigKnown'
  BY <1>1 DEF GotConfigKnown, SaidBy, Reads, Collects, Depends
<1>7. GotTargetsKnown'
  BY <1>1 DEF GotTargetsKnown, Checks
<1>8. RefusedKnown'
  BY <1>1 DEF RefusedKnown, Refused, AgreeNow, Left
<1> QED BY <1>2, <1>3, <1>4, <1>5, <1>6, <1>7, <1>8

\* A reload that reads the target file reads a configuration that waits for it.
LEMMA WaitingConfigIsRead ==
  ASSUME WatchTypeOK, "config" \in waits, DoTargets \/ QuietTargets
  PROVE  DoConfig \/ QuietConfig
<1>1. "config" \notin unread
  BY DEF WatchTypeOK
<1>2. CASE DoTargets
  BY <1>2 DEF DoTargets, DoConfig
<1>3. CASE QuietTargets
  BY <1>1, <1>3 DEF QuietTargets, QuietConfig
<1> QED BY <1>2, <1>3

LEMMA JobIs ==
  ASSUME NEW a \in BOOLEAN, NEW b \in BOOLEAN, NEW c \in BOOLEAN
  PROVE  LET of == [config |-> a, targets |-> b, awaited |-> c] IN
         /\ of \in [Reasons -> BOOLEAN]
         /\ of.config = a /\ of.targets = b /\ of.awaited = c
BY DEF Reasons, Watched

LEMMA BeginsKeepsWatchInv ==
  ASSUME WatchInv, NEW doConfig \in BOOLEAN, NEW doTargets \in BOOLEAN,
         ("config" \in waits /\ doTargets) => doConfig,
         (configChanged /\ "targets" \in waits) => doTargets, Begins(doConfig, doTargets)
  PROVE  WatchInv'
<1> USE DEF WatchInv
<1>1. /\ UNCHANGED <<file, hidden, current, got, taken, lastMod, collected, descriptors,
                     loading, retry, waits, unread, rejected, overtaken, unlisted>>
      /\ step = "idle" /\ (doConfig \/ doTargets)
      /\ job' = [config |-> doConfig, targets |-> doTargets,
                 awaited |-> configChanged /\ "targets" \in waits]
      /\ step' = IF doConfig THEN "stamp config" ELSE "stamp targets"
  BY DEF Begins, watch, history
<1>2. /\ job' \in [Reasons -> BOOLEAN]
      /\ job'["config"] = doConfig /\ job'["targets"] = doTargets
      /\ job'["awaited"] = (configChanged /\ "targets" \in waits)
  <2> DEFINE awaited == configChanged /\ "targets" \in waits
  <2>1. awaited \in BOOLEAN
    OBVIOUS
  <2> QED BY <1>1, <2>1, JobIs
<1>3. got["config"] = Nothing /\ got["targets"] = Nothing
  BY <1>1 DEF WhereIs, Watched
<1>4. WatchTypeOK'
  BY <1>1, <1>2 DEF WatchTypeOK, Says
<1>5. StampsPast' /\ Shapes'
  BY <1>1 DEF StampsPast, Shapes
<1>6. WhereIs' /\ WhoWaits'
  BY <1>1, <1>2, <1>3 DEF WhereIs, WhoWaits, Watched
<1>7. (ConfigStands' => ConfigStands) /\ (TargetsStand' => TargetsStand)
  BY <1>1 DEF ConfigStands, TargetsStand
<1>8. (ConfigKnown /\ TargetsKnown /\ PairKnown)'
  BY <1>1, <1>7 DEF ConfigKnown, TargetsKnown, PairKnown, SaidBy, AgreeNow, LoadsNow,
                    Collects, Depends, Checks
<1>9. InForceKnown'
  BY <1>1 DEF InForceKnown, AgreeNow
<1>10. (GotConfigKnown /\ GotTargetsKnown /\ RefusedKnown)'
  BY <1>1, <1>3 DEF GotConfigKnown, GotTargetsKnown, RefusedKnown
<1> QED BY <1>4, <1>5, <1>6, <1>8, <1>9, <1>10

LEMMA StampConfigKeepsWatchInv ==
  ASSUME WatchInv, StampConfig
  PROVE  WatchInv'
<1> USE DEF WatchInv
<1>1. /\ UNCHANGED <<file, hidden, current, job, got, taken, collected, descriptors, loading,
                     retry, waits, unread, rejected, overtaken, unlisted>>
      /\ step = "stamp config" /\ step' = "list collectors"
      /\ lastMod' = IF file["config"].says = Missing THEN lastMod
                    ELSE [lastMod EXCEPT !["config"] = file["config"].n]
  BY DEF StampConfig, history
<1>2. /\ lastMod'["targets"] = lastMod["targets"] /\ lastMod' \in [Watched -> Nat]
      /\ lastMod'["config"] = IF file["config"].says = Missing THEN lastMod["config"]
                              ELSE file["config"].n
  BY <1>1 DEF WatchTypeOK, Watched, Files
<1>3. WatchTypeOK'
  BY <1>1, <1>2 DEF WatchTypeOK, Says
<1>4. StampsPast'
  <2>1. file["config"].n \in Nat
    BY DEF WatchTypeOK, Files, Watched
  <2>2. lastMod'["config"] =< file["config"].n
    BY <1>2, <2>1 DEF StampsPast, Watched
  <2>3. lastMod'["config"] = file["config"].n => file["config"].says # Missing
    BY <1>2 DEF StampsPast, Watched
  <2> QED BY <1>1, <1>2, <2>2, <2>3 DEF StampsPast, Watched
<1>5. Shapes' /\ WhereIs' /\ WhoWaits'
  BY <1>1 DEF Shapes, WhereIs, WhoWaits, Left
<1>6. got["config"] = Nothing /\ got["targets"] = Nothing /\ ~ConfigStands'
  BY <1>1 DEF WhereIs, ConfigStands
<1>7. TargetsStand' => TargetsStand
  BY <1>1, <1>2 DEF TargetsStand
<1>8. (ConfigKnown /\ TargetsKnown /\ PairKnown)'
  BY <1>1, <1>6, <1>7 DEF ConfigKnown, TargetsKnown, PairKnown, SaidBy, AgreeNow, Checks
<1>9. InForceKnown'
  BY <1>1, <1>6 DEF InForceKnown, AgreeNow
<1>10. (GotConfigKnown /\ GotTargetsKnown /\ RefusedKnown)'
  BY <1>1, <1>6 DEF GotConfigKnown, GotTargetsKnown, RefusedKnown
<1> QED BY <1>3, <1>4, <1>5, <1>8, <1>9, <1>10

LEMMA ListCollectorsKeepsWatchInv ==
  ASSUME WatchInv, ListCollectorFiles
  PROVE  WatchInv'
<1> USE DEF WatchInv
<1>1. /\ UNCHANGED <<file, hidden, current, job, got, taken, lastMod, waits, unread, rejected,
                     overtaken>>
      /\ step = "list collectors" /\ step' = "read config" /\ unlisted' = FALSE
      /\ retry' = [retry EXCEPT !["config"] = Stamps(NamedFiles(current.config))]
      /\ descriptors' = Stamps(DOMAIN descriptors) /\ loading' = <<>>
  BY DEF ListCollectorFiles
<1>2. PICK listed \in SUBSET Named : collected' = Stamps(listed) /\ listed \subseteq {"collectors"}
  <2>1. PICK listed \in Listings : collected' = Stamps(listed)
    BY DEF ListCollectorFiles
  <2>2. file["config"].says \in Configurations \cup {Malformed, Missing}
    BY DEF WatchTypeOK, Files, Watched, Says
  <2>3. /\ file["config"].says \in Configurations => file["config"].says.listed \subseteq {"collectors"}
        /\ current.config.listed \subseteq {"collectors"}
    BY WatchAssumption DEF Loaded, WatchTypeOK
  <2>4. listed \subseteq {"collectors"}
    BY <2>1, <2>2, <2>3 DEF Listings, Readable
  <2> QED BY <2>1, <2>4 DEF Named
<1>3. DOMAIN descriptors \in SUBSET Named /\ NamedFiles(current.config) \in SUBSET Named
  BY FreeOf DEF WatchTypeOK, IsStamps
<1>4. /\ retry'["config"] = Stamps(NamedFiles(current.config))
      /\ retry'["targets"] = retry["targets"] /\ DOMAIN retry' = Watched
  BY <1>1 DEF WatchTypeOK, Watched
<1>5. /\ IsStamps(retry'["config"]) /\ IsStamps(descriptors') /\ IsStamps(loading')
      /\ IsStamps(collected') /\ DOMAIN collected' \subseteq {"collectors"}
      /\ \A g \in DOMAIN retry'["config"] : retry'["config"][g] =< file[g].n
      /\ \A g \in DOMAIN descriptors' : descriptors'[g] =< file[g].n
      /\ \A g \in DOMAIN collected' : collected'[g] =< file[g].n
      /\ DOMAIN loading' = {}
  <2> HIDE DEF WatchInv
  <2>1. WatchTypeOK
    BY DEF WatchInv
  <2>2. PICK named \in SUBSET Named : named = DOMAIN descriptors
    BY <1>3
  <2>3. PICK files \in SUBSET Named : files = NamedFiles(current.config)
    BY <1>3
  <2>4. \A given \in SUBSET Named :
          /\ DOMAIN Stamps(given) = given /\ IsStamps(Stamps(given))
          /\ \A g \in given : Stamps(given)[g] =< file[g].n
    BY <2>1, StampsAre
  <2>5. /\ retry'["config"] = Stamps(files) /\ descriptors' = Stamps(named)
        /\ collected' = Stamps(listed)
    BY <1>1, <1>2, <1>4, <2>2, <2>3
  <2> QED BY <1>1, <1>2, <2>4, <2>5, NoStamps
<1>6. WatchTypeOK'
  BY <1>1, <1>4, <1>5 DEF WatchTypeOK, Says, Watched
<1>7. StampsPast'
  BY <1>1, <1>4, <1>5 DEF StampsPast, Watched
<1>8. Shapes' /\ WhereIs' /\ WhoWaits'
  BY <1>1, <1>5 DEF Shapes, WhereIs, WhoWaits, Left
<1>9. got["config"] = Nothing /\ got["targets"] = Nothing /\ ~ConfigStands'
  BY <1>1 DEF WhereIs, ConfigStands
<1>10. TargetsStand' => TargetsStand
  BY <1>1, <1>4 DEF TargetsStand
<1>11. (ConfigKnown /\ TargetsKnown /\ PairKnown)'
  BY <1>1, <1>4, <1>9, <1>10 DEF ConfigKnown, TargetsKnown, PairKnown, SaidBy, AgreeNow, Checks
<1>12. (InForceKnown /\ GotConfigKnown /\ GotTargetsKnown /\ RefusedKnown)'
  BY <1>1, <1>9 DEF InForceKnown, GotConfigKnown, GotTargetsKnown, RefusedKnown
<1> QED BY <1>6, <1>7, <1>8, <1>11, <1>12

LEMMA ReadConfigKeepsWatchInv ==
  ASSUME WatchInv, ReadConfiguration
  PROVE  WatchInv'
<1> USE DEF WatchInv
<1> DEFINE c == file["config"].says
<1>1. /\ UNCHANGED <<file, hidden, current, job, taken, lastMod, collected, descriptors,
                     loading, overtaken, unlisted>>
      /\ step = "read config" /\ job["config"] = TRUE
      /\ got["config"] = Nothing /\ got["targets"] = Nothing
  BY DEF ReadConfiguration, WhereIs, WatchTypeOK, Watched, history
<1>2. c \in Configurations \cup {Malformed, Missing}
  BY DEF WatchTypeOK, Files, Watched, Says
<1>3. CASE /\ Readable("config") /\ c # Malformed
           /\ got' = [got EXCEPT !["config"] = c]
           /\ step' = "read collectors"
           /\ UNCHANGED <<waits, unread, rejected, retry>>
  <2>1. c \in Configurations /\ c \in Loaded /\ c # Nothing
    BY <1>2, <1>3, WatchAssumption DEF Readable
  <2>2. /\ got'["config"] = c /\ got'["targets"] = Nothing
        /\ got' \in [Watched -> Loaded \cup TargetFiles \cup {Nothing}]
    BY <1>1, <1>3, <2>1 DEF Shapes, Watched
  <2> HIDE DEF c
  <2>3. WatchTypeOK'
    BY <1>1, <1>3 DEF WatchTypeOK, Says
  <2>4. StampsPast'
    BY <1>1, <1>3 DEF StampsPast
  <2>5. Shapes' /\ WhereIs'
    BY <1>1, <1>3, <2>1, <2>2 DEF Shapes, WhereIs, Watched
  <2>6. WhoWaits'
    BY <1>1, <1>3, <2>1, <2>2 DEF WhoWaits
  <2>7. ~ConfigStands' /\ (TargetsStand' => TargetsStand)
    BY <1>1, <1>3, <2>1, <2>2 DEF ConfigStands, TargetsStand
  <2>8. (ConfigKnown /\ TargetsKnown /\ PairKnown)'
    BY <1>1, <1>3, <2>7 DEF ConfigKnown, TargetsKnown, PairKnown, SaidBy, AgreeNow, Checks
  <2>9. (InForceKnown /\ GotTargetsKnown /\ RefusedKnown)'
    BY <1>3, <2>1, <2>2 DEF InForceKnown, GotTargetsKnown, RefusedKnown
  <2>10. GotConfigKnown'
    BY <1>1, <1>3, <2>1, <2>2 DEF GotConfigKnown, SaidBy, c
  <2> QED BY <2>3, <2>4, <2>5, <2>6, <2>8, <2>9, <2>10
<1>4. CASE /\ ~Readable("config") \/ c = Malformed
           /\ reject({"config"}, FALSE, ~Readable("config"))
           /\ retry' = [retry EXCEPT !["config"] = retryImported(retry["config"])]
           /\ step' = AfterConfig
           /\ UNCHANGED got
  <2>1. /\ waits' = waits \ {"config"} /\ rejected' = rejected \cup {"config"}
        /\ unread' = IF ~Readable("config") THEN unread \cup {"config"} ELSE unread \ {"config"}
    BY <1>4 DEF reject
  <2>2. step' = IF job["targets"] THEN "stamp targets" ELSE "check"
    BY <1>4 DEF AfterConfig
  <2>3. "config" \notin unread' => c = Malformed
    BY <1>4, <2>1
  <2>4. /\ retry'["targets"] = retry["targets"] /\ DOMAIN retry' = Watched
        /\ retry'["config"] = retryImported(retry["config"])
    BY <1>4 DEF WatchTypeOK, Watched
  <2>5. /\ IsStamps(retry'["config"])
        /\ \A g \in DOMAIN retry'["config"] : retry'["config"][g] =< file[g].n
    BY <2>4, RetryImportedAre DEF StampsPast, WatchTypeOK, Watched
  <2> HIDE DEF c
  <2>6. WatchTypeOK'
    BY <1>1, <1>4, <2>1, <2>2, <2>4, <2>5 DEF WatchTypeOK, Says, Watched
  <2>7. StampsPast'
    BY <1>1, <2>4, <2>5 DEF StampsPast, Watched
  <2>8. Shapes'
    BY <1>1, <1>4 DEF Shapes
  <2>9. (WhereIs /\ WhoWaits)'
    BY <1>1, <1>4, <2>1, <2>2 DEF WhereIs, WhoWaits, Watched
  <2>10. TargetsStand' => TargetsStand
    BY <1>1, <1>4, <2>4 DEF TargetsStand
  <2>11. (ConfigKnown /\ PairKnown)'
    BY <1>1, <2>1, <2>3 DEF ConfigKnown, PairKnown, SaidBy, c
  <2>12. TargetsKnown'
    BY <1>1, <1>4, <2>1, <2>4, <2>10 DEF TargetsKnown, SaidBy, AgreeNow, Checks
  <2>13. (InForceKnown /\ GotConfigKnown /\ GotTargetsKnown /\ RefusedKnown)'
    BY <1>1, <1>4, <2>1, <2>2 DEF InForceKnown, GotConfigKnown, GotTargetsKnown, RefusedKnown
  <2> QED BY <2>6, <2>7, <2>8, <2>9, <2>11, <2>12, <2>13
<1> QED BY <1>3, <1>4 DEF ReadConfiguration

\* What is read with its collector files keeps what it lists.
LEMMA MergedIs ==
  ASSUME NEW c \in Configurations, NEW s \in CollectorFiles \cup {Malformed, Missing},
         s \in CollectorFiles \/ c.listed = {}
  PROVE  /\ Merged(c, s) \in Loaded /\ Merged(c, s).listed = c.listed
         /\ Merged(c, s) # Nothing
BY WatchAssumption DEF Merged, Loaded

LEMMA ReadCollectorsKeepsWatchInv ==
  ASSUME WatchInv, ReadCollectorFiles
  PROVE  WatchInv'
<1> USE DEF WatchInv
<1> DEFINE s == file["collectors"].says
<1>1. /\ UNCHANGED <<file, hidden, current, job, lastMod, collected, descriptors>>
      /\ step = "read collectors" /\ job["config"] = TRUE
      /\ got["config"] # Nothing /\ got["targets"] = Nothing
  BY DEF ReadCollectorFiles, WhereIs, WatchTypeOK, Watched
<1>2. PICK c \in Configurations : c = got["config"]
  BY <1>1 DEF GotConfigKnown
<1>3. /\ s \in CollectorFiles \cup {Malformed, Missing}
      /\ file["config"].n = lastMod["config"] => SaidBy("config") = c
  <2>1. file["config"].n = lastMod["config"] => SaidBy("config") = c
    BY <1>1, <1>2 DEF GotConfigKnown
  <2>2. s \in Says("collectors")
    BY DEF WatchTypeOK, Files, Named
  <2> QED BY <2>1, <2>2 DEF Says
<1>4. PICK m : m = IF Readable("collectors") /\ s # Malformed THEN Merged(c, s) ELSE c
  OBVIOUS
<1>5. c \in Loaded /\ c.listed \subseteq {"collectors"}
  BY WatchAssumption DEF Loaded
<1>6. m \in Loaded /\ m.listed = c.listed /\ m # Nothing
  <2>1. CASE Readable("collectors") /\ s # Malformed
    BY <1>3, <1>4, <2>1, MergedIs DEF Readable
  <2>2. CASE ~(Readable("collectors") /\ s # Malformed)
    BY <1>4, <1>5, <2>2, WatchAssumption
  <2> QED BY <2>1, <2>2
<1> DEFINE refused == ~Mergeable(c, s) \/ (c.listed # {} /\ ~Readable("collectors"))
<1>7. /\ loading' = Stamps(DescriptorsOf(m) \cup ImportsOf(DescriptorsOf(m)))
      /\ unlisted' = ~Collects(c)
  BY <1>2, <1>4 DEF ReadCollectorFiles, Collects
<1>8. DescriptorsOf(m) \in SUBSET {"descriptors"}
  BY DEF DescriptorsOf
<1>9. PICK named \in SUBSET {"descriptors"} : named = DescriptorsOf(m)
  BY <1>8
<1>10. /\ IsStamps(loading') /\ named \subseteq DOMAIN loading'
       /\ \A g \in DOMAIN loading' : loading'[g] =< file[g].n
       /\ ~Stale(file, loading')
       /\ named # {} => Covers(file, loading')
  BY <1>7, <1>9, ImportsCover
<1>11. PICK files \in SUBSET Named : files = NamedFiles(current.config) \cup NamedFiles(m)
  BY FreeOf
<1>12. PICK stamps : stamps = Stamps(files)
  OBVIOUS
<1>13. /\ DOMAIN stamps = files /\ IsStamps(stamps)
       /\ \A g \in files : stamps[g] =< file[g].n
  BY <1>12, StampsAre
<1>14. /\ ~refused =>
            /\ got' = [got EXCEPT !["config"] = m]
            /\ taken' = IF c.listed = {} THEN 0 ELSE file["collectors"].n
            /\ retry' = [retry EXCEPT !["config"] = stamps]
            /\ step' = "load config"
            /\ overtaken' = (overtaken \/ ("targets" \in waits /\ ~job["targets"]
                                             /\ ~job["awaited"] /\ m # current.config))
            /\ UNCHANGED <<waits, unread, rejected>>
       /\ refused =>
            /\ got' = [got EXCEPT !["config"] = Nothing]
            /\ retry' = [retry EXCEPT !["config"] = retryImported(stamps)]
            /\ \E because \in BOOLEAN :
                 /\ s # Missing => because = ("collectors" \in hidden)
                 /\ reject({"config"}, FALSE, because)
            /\ step' = AfterConfig
            /\ UNCHANGED <<taken, overtaken>>
  BY <1>2, <1>4, <1>11, <1>12 DEF ReadCollectorFiles
<1>15. CASE ~refused
  <2>1. m = Merged(c, s) /\ Mergeable(c, s)
    BY <1>4, <1>15, WatchAssumption DEF Merged, Mergeable
  <2>2. /\ got'["config"] = m /\ got'["targets"] = Nothing
        /\ got' \in [Watched -> Loaded \cup TargetFiles \cup {Nothing}]
    BY <1>1, <1>6, <1>14, <1>15 DEF Shapes, Watched
  <2>3. /\ retry'["config"] = stamps /\ retry'["targets"] = retry["targets"]
        /\ DOMAIN retry' = Watched
    BY <1>14, <1>15 DEF WatchTypeOK, Watched
  <2>4. file["collectors"].n \in Nat /\ taken' \in Nat
    <3>1. file["collectors"].n \in Nat
      BY DEF WatchTypeOK, Files, Named
    <3>2. taken' = 0 \/ taken' = file["collectors"].n
      BY <1>14, <1>15
    <3> QED BY <3>1, <3>2
  <2>5. /\ step' = "load config" /\ UNCHANGED <<waits, unread, rejected>>
        /\ overtaken' = (overtaken \/ ("targets" \in waits /\ ~job["targets"]
                                         /\ ~job["awaited"] /\ m # current.config))
        /\ c.listed # {} => taken' = file["collectors"].n
    BY <1>14, <1>15
  <2> HIDE DEF s, refused
  <2>6. WatchTypeOK'
    BY <1>1, <1>10, <1>13, <2>3, <2>4, <2>5 DEF WatchTypeOK, Says, Watched
  <2>7. StampsPast'
    BY <1>1, <1>10, <1>13, <2>3 DEF StampsPast, Watched
  <2>8. Shapes' /\ WhereIs'
    BY <1>1, <1>6, <2>2, <2>5 DEF Shapes, WhereIs, Watched
  <2>9. WhoWaits'
    BY <1>1, <1>6, <2>2, <2>5 DEF WhoWaits
  <2>10. ~ConfigStands' /\ (TargetsStand' => TargetsStand) /\ (~overtaken' => ~overtaken)
    BY <1>1, <1>6, <2>2, <2>3, <2>5 DEF ConfigStands, TargetsStand
  <2>11. (ConfigKnown /\ PairKnown)'
    BY <2>10 DEF ConfigKnown, PairKnown
  <2>12. TargetsKnown'
    BY <1>1, <2>3, <2>5, <2>10 DEF TargetsKnown, SaidBy, AgreeNow, Checks
  <2>13. (InForceKnown /\ GotTargetsKnown /\ RefusedKnown)'
    BY <1>6, <2>2, <2>5 DEF InForceKnown, GotTargetsKnown, RefusedKnown
  <2>14. Reads(m)'
    <3>1. file["config"].n = lastMod["config"] =>
            /\ SaidBy("config") \in Configurations
            /\ Mergeable(SaidBy("config"), s)
            /\ m = Merged(SaidBy("config"), s)
      BY <1>3, <2>1
    <3> QED BY <1>1, <3>1 DEF Reads, SaidBy, s
  <2>15. Depends(m)'
    <3>1. m.tls => "certificate" \in files
      BY <1>11, FreeOf
    <3> QED BY <1>1, <1>9, <1>10, <1>13, <2>3, <3>1 DEF Depends
  <2>16. (m.listed # {} /\ Collects(m)') => collected'["collectors"] =< taken'
    <3>1. SUFFICES ASSUME m.listed # {}, "collectors" \in DOMAIN collected
                   PROVE  collected["collectors"] =< taken'
      BY <1>1, <1>5, <1>6 DEF Collects
    <3>2. collected["collectors"] =< file["collectors"].n
      BY <3>1 DEF StampsPast
    <3> QED BY <1>6, <2>5, <3>1, <3>2
  <2>17. m.listed # {} => taken' =< file["collectors"].n
    <3>1. SUFFICES ASSUME m.listed # {}
                   PROVE  taken' =< file["collectors"].n
      OBVIOUS
    <3>2. taken' = file["collectors"].n
      BY <1>6, <2>5, <3>1
    <3> QED BY <2>4, <3>2
  <2>18. unlisted' = ~Collects(m)'
    BY <1>1, <1>6, <1>7 DEF Collects
  <2>19. GotConfigKnown'
    BY <1>1, <2>2, <2>5, <2>14, <2>15, <2>16, <2>17, <2>18 DEF GotConfigKnown
  <2> QED BY <2>6, <2>7, <2>8, <2>9, <2>11, <2>12, <2>13, <2>19
<1>16. CASE refused
  <2>1. PICK because \in BOOLEAN :
          /\ s # Missing => because = ("collectors" \in hidden)
          /\ reject({"config"}, FALSE, because)
    BY <1>14, <1>16
  <2>2. /\ waits' = waits \ {"config"} /\ rejected' = rejected \cup {"config"}
        /\ unread' = IF because THEN unread \cup {"config"} ELSE unread \ {"config"}
    BY <2>1 DEF reject
  <2>3. /\ step' = IF job["targets"] THEN "stamp targets" ELSE "check"
        /\ UNCHANGED <<taken, overtaken>>
    BY <1>14, <1>16 DEF AfterConfig
  <2>4. "config" \notin unread' => ~Mergeable(c, s)
    <3>1. SUFFICES ASSUME Mergeable(c, s)
                   PROVE  because = TRUE
      BY <2>2
    <3>2. c.listed # {} /\ ~Readable("collectors") /\ s \in CollectorFiles
      BY <1>16, <3>1 DEF Mergeable
    <3>3. s # Missing /\ "collectors" \in hidden
      BY <3>2, WatchAssumption DEF Readable
    <3> QED BY <2>1, <3>3
  <2>5. /\ got'["config"] = Nothing /\ got'["targets"] = Nothing
        /\ got' \in [Watched -> Loaded \cup TargetFiles \cup {Nothing}]
    BY <1>1, <1>14, <1>16 DEF Shapes, Watched
  <2>6. /\ retry'["config"] = retryImported(stamps) /\ retry'["targets"] = retry["targets"]
        /\ DOMAIN retry' = Watched
    BY <1>14, <1>16 DEF WatchTypeOK, Watched
  <2>7. /\ IsStamps(retry'["config"])
        /\ \A g \in DOMAIN retry'["config"] : retry'["config"][g] =< file[g].n
    BY <1>13, <2>6, RetryImportedAre
  <2> HIDE DEF s, refused
  <2>8. WatchTypeOK'
    BY <1>1, <1>10, <2>2, <2>3, <2>6, <2>7 DEF WatchTypeOK, Says, Watched
  <2>9. StampsPast'
    BY <1>1, <1>10, <2>6, <2>7 DEF StampsPast, Watched
  <2>10. Shapes'
    BY <1>1, <2>5 DEF Shapes
  <2>11. WhereIs' /\ WhoWaits'
    BY <1>1, <2>2, <2>3, <2>5 DEF WhereIs, WhoWaits, Watched
  <2>12. TargetsStand' => TargetsStand
    BY <1>1, <2>6 DEF TargetsStand
  <2>13. ConfigKnown'
    <3>1. SUFFICES ASSUME file["config"].n = lastMod["config"], "config" \notin unread',
                          ~unlisted'
                   PROVE  /\ SaidBy("config") \in Configurations
                          /\ Collects(SaidBy("config"))
                          /\ ~Mergeable(SaidBy("config"), s)
                          /\ "config" \in rejected' /\ "config" \notin waits'
      BY <1>1 DEF ConfigKnown, ConfigStands, SaidBy, Collects, s
    <3> QED BY <1>3, <1>7, <2>2, <2>4, <3>1
  <2>14. PairKnown'
    BY <2>2 DEF PairKnown
  <2>15. TargetsKnown'
    BY <1>1, <2>2, <2>3, <2>6, <2>12 DEF TargetsKnown, SaidBy, AgreeNow, Checks
  <2>16. (InForceKnown /\ GotConfigKnown /\ GotTargetsKnown /\ RefusedKnown)'
    BY <1>1, <2>2, <2>3, <2>5 DEF InForceKnown, GotConfigKnown, GotTargetsKnown, RefusedKnown
  <2> QED BY <2>8, <2>9, <2>10, <2>11, <2>13, <2>14, <2>15, <2>16
<1> QED BY <1>15, <1>16

LEMMA BetweenThem ==
  ASSUME NEW m \in Nat, NEW n \in Nat, m =< n, n =< m
  PROVE  m = n
OBVIOUS

\* What was read is what the files say while the collector file is as it was.
LEMMA GotStands ==
  ASSUME WatchInv, NEW c, c = got["config"], c # Nothing, step # "read collectors",
         file["config"].n = lastMod["config"],
         \/ ~unlisted /\ ~Stale(file, collected)
         \/ c.listed # {} => file["collectors"].n = taken
  PROVE  /\ c \in Loaded /\ Depends(c)
         /\ SaidBy("config") \in Configurations
         /\ Mergeable(SaidBy("config"), SaidBy("collectors"))
         /\ c = Merged(SaidBy("config"), SaidBy("collectors"))
         /\ SaidBy("config").listed = c.listed
<1>1. GotConfigKnown /\ WatchTypeOK /\ StampsPast /\ Shapes
  BY DEF WatchInv
<1>2. c \in Loaded /\ c.listed \subseteq {"collectors"}
  BY <1>1 DEF Shapes, Loaded
<1>3. /\ Reads(c) /\ Depends(c)
      /\ unlisted = ~Collects(c)
  BY <1>1 DEF GotConfigKnown
<1>4. c.listed # {} => file["collectors"].n = taken
  <2>1. SUFFICES ASSUME ~unlisted, ~Stale(file, collected), c.listed # {}
                 PROVE  file["collectors"].n = taken
    OBVIOUS
  <2>2. Collects(c)
    BY <1>3, <2>1
  <2>3. "collectors" \in DOMAIN collected
    BY <1>2, <2>1, <2>2 DEF Collects
  <2>4. collected["collectors"] =< taken /\ taken =< file["collectors"].n
    BY <1>1, <2>1, <2>2 DEF GotConfigKnown
  <2>5. file["collectors"].n = collected["collectors"]
    BY <2>1, <2>3 DEF Stale
  <2>6. file["collectors"].n \in Nat
    BY <1>1 DEF WatchTypeOK, Files, Named
  <2>7. taken \in Nat
    BY <1>1 DEF WatchTypeOK
  <2>8. file["collectors"].n =< taken
    BY <2>4, <2>5
  <2>9. taken =< file["collectors"].n
    BY <2>4
  <2> QED BY <2>6, <2>7, <2>8, <2>9, BetweenThem
<1>5. /\ SaidBy("config") \in Configurations
      /\ Mergeable(SaidBy("config"), SaidBy("collectors"))
      /\ c = Merged(SaidBy("config"), SaidBy("collectors"))
  BY <1>3, <1>4 DEF Reads
<1>6. SaidBy("config").listed = c.listed
  <2>1. PICK k \in Configurations : k = SaidBy("config")
    BY <1>5
  <2>2. k.listed = {} \/ SaidBy("collectors") \in CollectorFiles
    BY <1>5, <2>1 DEF Mergeable
  <2>3. \A s \in CollectorFiles : Merged(k, s).listed = k.listed
    BY WatchAssumption DEF Merged, Loaded
  <2>4. Merged(k, SaidBy("collectors")).listed = k.listed
    BY <2>2, <2>3 DEF Merged
  <2> QED BY <1>5, <2>1, <2>4
<1> QED BY <1>2, <1>3, <1>5, <1>6

\* It goes in force with the collector file stamped.
LEMMA CollectIs ==
  ASSUME WatchInv, NEW c, c = got["config"], c # Nothing, step # "read collectors", collect(c)
  PROVE  /\ IsStamps(collected') /\ DOMAIN collected' = c.listed
         /\ c.listed \subseteq {"collectors"}
         /\ \A g \in DOMAIN collected' : collected'[g] =< file[g].n
         /\ (file["config"].n = lastMod["config"] /\ ~Stale(file, collected') /\ ~unlisted') =>
              /\ SaidBy("config") \in Configurations
              /\ Mergeable(SaidBy("config"), SaidBy("collectors"))
              /\ c = Merged(SaidBy("config"), SaidBy("collectors"))
              /\ SaidBy("config").listed = c.listed
<1>1. GotConfigKnown /\ WatchTypeOK /\ StampsPast /\ Shapes
  BY DEF WatchInv
<1>2. c \in Loaded /\ c.listed \subseteq {"collectors"} /\ c.listed \in SUBSET Named
  BY <1>1 DEF Shapes, Loaded, Named
<1>3. /\ collected' = IF DOMAIN collected = c.listed THEN collected ELSE Stamps(c.listed)
      /\ unlisted' = (unlisted /\ c.listed # {} /\ file["collectors"].n # taken)
  BY DEF collect
<1>4. PICK listed \in SUBSET Named : listed = c.listed
  BY <1>2
<1>5. /\ DOMAIN Stamps(listed) = listed /\ IsStamps(Stamps(listed))
      /\ \A g \in listed : Stamps(listed)[g] =< file[g].n
  BY <1>1, StampsAre
<1>6. IsStamps(collected) /\ \A g \in DOMAIN collected : collected[g] =< file[g].n
  BY <1>1 DEF StampsPast, WatchTypeOK
<1>7. /\ IsStamps(collected') /\ DOMAIN collected' = c.listed
      /\ \A g \in DOMAIN collected' : collected'[g] =< file[g].n
  <2>1. CASE DOMAIN collected = c.listed
    BY <1>3, <1>6, <2>1
  <2>2. CASE DOMAIN collected # c.listed
    <3>1. collected' = Stamps(listed)
      BY <1>3, <1>4, <2>2
    <3> QED BY <1>4, <1>5, <3>1
  <2> QED BY <2>1, <2>2
<1>8. ASSUME ~Stale(file, collected'), ~unlisted'
      PROVE  \/ ~unlisted /\ ~Stale(file, collected)
             \/ c.listed # {} => file["collectors"].n = taken
  <2>1. SUFFICES ASSUME c.listed # {}, file["collectors"].n # taken
                 PROVE  ~unlisted /\ ~Stale(file, collected)
    OBVIOUS
  <2>2. ~unlisted
    BY <1>3, <1>8, <2>1
  <2>3. unlisted = ~Collects(c)
    BY <1>1 DEF GotConfigKnown
  <2>4. Collects(c)
    BY <2>2, <2>3
  <2>5. DOMAIN collected = c.listed
    BY <1>1, <1>2, <2>1, <2>4 DEF Collects, Shapes
  <2> QED BY <1>3, <1>8, <2>2, <2>5
<1>9. ASSUME file["config"].n = lastMod["config"], ~Stale(file, collected'), ~unlisted'
      PROVE  /\ SaidBy("config") \in Configurations
             /\ Mergeable(SaidBy("config"), SaidBy("collectors"))
             /\ c = Merged(SaidBy("config"), SaidBy("collectors"))
             /\ SaidBy("config").listed = c.listed
  BY <1>8, <1>9, GotStands
<1> QED BY <1>2, <1>7, <1>9

LEMMA LoadConfigKeepsWatchInv ==
  ASSUME WatchInv, LoadConfig
  PROVE  WatchInv'
<1> USE DEF WatchInv
<1>1. /\ UNCHANGED <<file, hidden, current, job, taken, lastMod, collected, descriptors,
                     loading, overtaken, unlisted>>
      /\ step = "load config" /\ job["config"] = TRUE
      /\ got["config"] # Nothing /\ got["targets"] = Nothing
      /\ step' = IF job["targets"] THEN "stamp targets" ELSE "check"
  BY DEF LoadConfig, WhereIs, WatchTypeOK, Watched, AfterConfig, history
<1>2. PICK c : c = got["config"]
  OBVIOUS
<1>3. CASE Loads(got["config"]) /\ UNCHANGED <<got, retry, waits, unread, rejected>>
  <2>1. DescribedIn(Text(file), c)
    BY <1>2, <1>3, InFiles DEF LoadsIn
  <2>2. WatchTypeOK'
    BY <1>1, <1>3 DEF WatchTypeOK, Says
  <2>3. (StampsPast /\ Shapes)'
    BY <1>1, <1>3 DEF StampsPast, Shapes
  <2>4. (WhereIs /\ WhoWaits)'
    BY <1>1, <1>3 DEF WhereIs, WhoWaits
  <2>5. ~ConfigStands' /\ (TargetsStand' => TargetsStand)
    BY <1>1, <1>3 DEF ConfigStands, TargetsStand
  <2>6. (ConfigKnown /\ TargetsKnown /\ PairKnown)'
    BY <1>1, <1>3, <2>5 DEF ConfigKnown, TargetsKnown, PairKnown, SaidBy, AgreeNow, Checks
  <2>7. (InForceKnown /\ GotTargetsKnown /\ RefusedKnown)'
    BY <1>1, <1>3 DEF InForceKnown, GotTargetsKnown, RefusedKnown
  <2>8. GotConfigKnown'
    <3>1. /\ Reads(c) /\ Depends(c)
          /\ c.listed # {} => taken =< file["collectors"].n
          /\ (c.listed # {} /\ Collects(c)) => collected["collectors"] =< taken
          /\ unlisted = ~Collects(c)
      BY <1>1, <1>2 DEF GotConfigKnown
    <3>2. Reads(c)' /\ Depends(c)' /\ (Collects(c)' <=> Collects(c))
      BY <1>1, <1>3, <3>1 DEF Reads, Depends, Collects, SaidBy
    <3> QED BY <1>1, <1>2, <1>3, <2>1, <3>1, <3>2 DEF GotConfigKnown
  <2> QED BY <2>2, <2>3, <2>4, <2>6, <2>7, <2>8
<1>4. CASE /\ ~Loads(got["config"]) /\ reject({"config"}, FALSE, FALSE)
           /\ retry' = [retry EXCEPT !["config"] = retryImported(retry["config"])]
           /\ got' = [got EXCEPT !["config"] = Nothing]
  <2>1. /\ waits' = waits \ {"config"} /\ rejected' = rejected \cup {"config"}
        /\ unread' = unread \ {"config"}
    BY <1>4 DEF reject
  <2>2. /\ got'["config"] = Nothing /\ got'["targets"] = Nothing
        /\ got' \in [Watched -> Loaded \cup TargetFiles \cup {Nothing}]
    BY <1>1, <1>4 DEF Shapes, Watched
  <2>3. /\ retry'["targets"] = retry["targets"] /\ DOMAIN retry' = Watched
        /\ retry'["config"] = retryImported(retry["config"])
    BY <1>4 DEF WatchTypeOK, Watched
  <2>4. /\ IsStamps(retry'["config"]) /\ DOMAIN retry["config"] \subseteq DOMAIN retry'["config"]
        /\ \A g \in DOMAIN retry'["config"] : retry'["config"][g] =< file[g].n
    BY <2>3, RetryImportedAre DEF StampsPast, WatchTypeOK, Watched
  <2>5. WatchTypeOK'
    BY <1>1, <2>1, <2>3, <2>4 DEF WatchTypeOK, Says, Watched
  <2>6. StampsPast'
    BY <1>1, <2>3, <2>4 DEF StampsPast, Watched
  <2>7. Shapes'
    BY <1>1, <2>2 DEF Shapes
  <2>8. WhereIs' /\ WhoWaits'
    BY <1>1, <2>1, <2>2 DEF WhereIs, WhoWaits, Watched
  <2>9. ASSUME ConfigStands', ~unlisted'
        PROVE  /\ SaidBy("config") \in Configurations /\ Collects(SaidBy("config"))
               /\ Mergeable(SaidBy("config"), SaidBy("collectors"))
               /\ c = Merged(SaidBy("config"), SaidBy("collectors"))
               /\ Depends(c)' /\ ~LoadsNow(c)
    <3>1. /\ file["config"].n = lastMod["config"] /\ ~Stale(file, collected) /\ ~unlisted
      BY <1>1, <2>9 DEF ConfigStands
    <3>2. /\ c \in Loaded /\ Depends(c)
          /\ SaidBy("config") \in Configurations
          /\ Mergeable(SaidBy("config"), SaidBy("collectors"))
          /\ c = Merged(SaidBy("config"), SaidBy("collectors"))
          /\ SaidBy("config").listed = c.listed
      BY <1>1, <1>2, <3>1, GotStands
    <3>3. unlisted = ~Collects(c)
      BY <1>1, <1>2 DEF GotConfigKnown
    <3>4. Collects(SaidBy("config"))
      BY <3>1, <3>2, <3>3 DEF Collects
    <3>5. ~LoadsNow(c)
      BY <1>2, <1>4, InFiles DEF LoadsNow
    <3>6. Depends(c)'
      BY <1>1, <2>4, <3>2 DEF Depends
    <3> QED BY <3>2, <3>4, <3>5, <3>6
  <2>10. ConfigKnown'
    <3>1. SUFFICES ASSUME ConfigStands', ~unlisted'
                   PROVE  ConfigKnown'
      BY DEF ConfigKnown
    <3>2. /\ SaidBy("config")' = SaidBy("config") /\ SaidBy("collectors")' = SaidBy("collectors")
          /\ Collects(SaidBy("config"))' <=> Collects(SaidBy("config"))
          /\ LoadsNow(c)' <=> LoadsNow(c)
      BY <1>1 DEF SaidBy, Collects, LoadsNow
    <3> QED BY <2>1, <2>9, <3>1, <3>2 DEF ConfigKnown
  <2>11. PairKnown'
    BY <2>1 DEF PairKnown
  <2>12. TargetsStand' => TargetsStand
    BY <1>1, <2>3 DEF TargetsStand
  <2>13. TargetsKnown'
    BY <1>1, <2>1, <2>3, <2>12 DEF TargetsKnown, SaidBy, AgreeNow, Checks
  <2>14. (InForceKnown /\ GotConfigKnown /\ GotTargetsKnown /\ RefusedKnown)'
    BY <1>1, <2>1, <2>2 DEF InForceKnown, GotConfigKnown, GotTargetsKnown, RefusedKnown
  <2> QED BY <2>5, <2>6, <2>7, <2>8, <2>10, <2>11, <2>13, <2>14
<1> QED BY <1>3, <1>4 DEF LoadConfig

-----------------------------------------------------------------------------

LEMMA StampTargetsKeepsWatchInv ==
  ASSUME WatchInv, StampTargets
  PROVE  WatchInv'
<1> USE DEF WatchInv
<1>1. /\ UNCHANGED <<file, hidden, current, job, got, taken, collected, descriptors, loading,
                     waits, unread, rejected, unlisted>>
      /\ step = "stamp targets" /\ step' = "read targets" /\ overtaken' = FALSE
      /\ lastMod' = IF file["targets"].says = Missing THEN lastMod
                    ELSE [lastMod EXCEPT !["targets"] = file["targets"].n]
      /\ retry' = [retry EXCEPT !["targets"] = <<>>]
      /\ job["targets"] = TRUE /\ got["targets"] = Nothing
  BY DEF StampTargets, WhereIs, WatchTypeOK, Watched
<1>2. /\ retry'["targets"] = <<>> /\ retry'["config"] = retry["config"] /\ DOMAIN retry' = Watched
      /\ lastMod'["config"] = lastMod["config"] /\ lastMod' \in [Watched -> Nat]
      /\ lastMod'["targets"] = IF file["targets"].says = Missing THEN lastMod["targets"]
                               ELSE file["targets"].n
  BY <1>1 DEF WatchTypeOK, Watched, Files
<1>3. WatchTypeOK'
  BY <1>1, <1>2, NoStamps DEF WatchTypeOK, Says, Watched
<1>4. StampsPast'
  <2>1. file["targets"].n \in Nat
    BY DEF WatchTypeOK, Files, Watched
  <2>2. lastMod'["targets"] =< file["targets"].n
    BY <1>2, <2>1 DEF StampsPast, Watched
  <2>3. lastMod'["targets"] = file["targets"].n => file["targets"].says # Missing
    BY <1>2 DEF StampsPast, Watched
  <2> QED BY <1>1, <1>2, <2>2, <2>3, NoStamps DEF StampsPast, Watched
<1>5. Shapes' /\ WhereIs' /\ WhoWaits'
  BY <1>1 DEF Shapes, WhereIs, WhoWaits, Left
<1>6. (ConfigStands' => ConfigStands) /\ ~TargetsStand'
  BY <1>1, <1>2 DEF ConfigStands, TargetsStand
<1>7. (ConfigKnown /\ TargetsKnown /\ PairKnown)'
  BY <1>1, <1>2, <1>6 DEF ConfigKnown, TargetsKnown, PairKnown, SaidBy, AgreeNow, LoadsNow,
                          Collects, Depends
<1>8. InForceKnown'
  BY <1>1 DEF InForceKnown, AgreeNow
<1>9. GotConfigKnown'
  BY <1>1, <1>2 DEF GotConfigKnown, SaidBy, Reads, Collects, Depends
<1>10. (GotTargetsKnown /\ RefusedKnown)'
  BY <1>1 DEF GotTargetsKnown, RefusedKnown
<1> QED BY <1>3, <1>4, <1>5, <1>7, <1>8, <1>9, <1>10

\* What is checked against one configuration is stamped for what is against some.
LEMMA CheckedOfSome ==
  ASSUME NEW t, NEW configs, NEW c \in configs
  PROVE  /\ CheckedFiles(t, {c}) # {} => CheckedFiles(t, configs) # {}
         /\ CheckedFiles(t, configs) \in SUBSET {"descriptors"}
BY DEF CheckedFiles

LEMMA ReadTargetsKeepsWatchInv ==
  ASSUME WatchInv, ReadTargetFile
  PROVE  WatchInv'
<1> USE DEF WatchInv
<1> DEFINE t == file["targets"].says
           configs == {current.config, got["config"]} \ {Nothing}
<1>1. /\ UNCHANGED <<file, hidden, current, job, taken, lastMod, collected, descriptors,
                     loading, overtaken, unlisted>>
      /\ step = "read targets" /\ step' = "check"
      /\ job["targets"] = TRUE /\ got["targets"] = Nothing
  BY DEF ReadTargetFile, WhereIs, WatchTypeOK, Watched, history
<1>2. t \in TargetFiles \cup {Malformed, Missing}
  BY DEF WatchTypeOK, Files, Watched, Says
<1>3. CASE /\ Readable("targets") /\ t # Malformed
           /\ got' = [got EXCEPT !["targets"] = t]
           /\ retry' = [retry EXCEPT !["targets"] =
                Stamps(CheckedFiles(t, configs) \cup ImportsOf(CheckedFiles(t, configs)))]
           /\ UNCHANGED <<waits, unread, rejected>>
  <2>1. t \in TargetFiles /\ t # Nothing
    BY <1>2, <1>3, WatchAssumption DEF Readable
  <2>2. /\ got'["targets"] = t /\ got'["config"] = got["config"]
        /\ got' \in [Watched -> Loaded \cup TargetFiles \cup {Nothing}]
    BY <1>1, <1>3, <2>1 DEF Shapes, Watched
  <2>3. /\ current.config \in configs
        /\ got["config"] # Nothing => got["config"] \in configs
    BY WatchAssumption DEF WatchTypeOK
  <2> HIDE DEF t, configs
  <2>4. PICK checked \in SUBSET {"descriptors"} : checked = CheckedFiles(t, configs)
    BY <2>3, CheckedOfSome
  <2>5. /\ CheckedFiles(t, {current.config}) # {} => checked # {}
        /\ got["config"] # Nothing => (CheckedFiles(t, {got["config"]}) # {} => checked # {})
    BY <2>3, <2>4, CheckedOfSome
  <2>6. /\ retry'["targets"] = Stamps(checked \cup ImportsOf(checked))
        /\ retry'["config"] = retry["config"] /\ DOMAIN retry' = Watched
    BY <1>3, <2>4 DEF WatchTypeOK, Watched
  <2>7. /\ IsStamps(retry'["targets"])
        /\ \A g \in DOMAIN retry'["targets"] : retry'["targets"][g] =< file[g].n
        /\ checked # {} => Covers(file, retry'["targets"])
    BY <2>6, ImportsCover
  <2>8. WatchTypeOK'
    BY <1>1, <1>3, <2>6, <2>7 DEF WatchTypeOK, Says, Watched
  <2>9. StampsPast'
    BY <1>1, <2>6, <2>7 DEF StampsPast, Watched
  <2>10. Shapes' /\ WhereIs' /\ WhoWaits'
    BY <1>1, <1>3, <2>1, <2>2 DEF Shapes, WhereIs, WhoWaits, Watched
  <2>11. (ConfigStands' => ConfigStands) /\ ~TargetsStand'
    BY <1>1, <2>1, <2>2, <2>6 DEF ConfigStands, TargetsStand
  <2>12. (ConfigKnown /\ TargetsKnown /\ PairKnown)'
    BY <1>1, <1>3, <2>6, <2>11 DEF ConfigKnown, TargetsKnown, PairKnown, SaidBy, AgreeNow,
                                  LoadsNow, Collects, Depends
  <2>13. InForceKnown'
    BY <1>1, <1>3, <2>2 DEF InForceKnown, AgreeNow
  <2>14. GotConfigKnown'
    BY <1>1, <2>2, <2>6 DEF GotConfigKnown, SaidBy, Reads, Collects, Depends
  <2>15. GotTargetsKnown'
    BY <1>1, <2>2, <2>5, <2>7 DEF GotTargetsKnown, Checks, t
  <2>16. RefusedKnown'
    BY <1>1 DEF RefusedKnown
  <2> QED BY <2>8, <2>9, <2>10, <2>12, <2>13, <2>14, <2>15, <2>16
<1>4. CASE /\ ~Readable("targets") \/ t = Malformed
           /\ reject({"targets"}, FALSE, ~Readable("targets"))
           /\ UNCHANGED <<got, retry>>
  <2>1. /\ waits' = waits \ {"targets"} /\ rejected' = rejected \cup {"targets"}
        /\ unread' = IF ~Readable("targets") THEN unread \cup {"targets"}
                     ELSE unread \ {"targets"}
    BY <1>4 DEF reject
  <2>2. "targets" \notin unread' => t = Malformed
    BY <1>4, <2>1
  <2> HIDE DEF t, configs
  <2>3. WatchTypeOK'
    BY <1>1, <1>4, <2>1 DEF WatchTypeOK, Says, Watched
  <2>4. (StampsPast /\ Shapes)'
    BY <1>1, <1>4 DEF StampsPast, Shapes
  <2>5. (WhereIs /\ WhoWaits)'
    BY <1>1, <1>4, <2>1 DEF WhereIs, WhoWaits, Watched
  <2>6. ConfigStands' => ConfigStands
    BY <1>1, <1>4 DEF ConfigStands
  <2>7. ConfigKnown'
    BY <1>1, <1>4, <2>1, <2>6 DEF ConfigKnown, SaidBy, AgreeNow, LoadsNow, Collects, Depends
  <2>8. (TargetsKnown /\ PairKnown)'
    BY <1>1, <2>1, <2>2 DEF TargetsKnown, PairKnown, SaidBy, t
  <2>9. InForceKnown'
    BY <1>1, <1>4, <2>1 DEF InForceKnown, AgreeNow
  <2>10. GotConfigKnown'
    BY <1>1, <1>4 DEF GotConfigKnown, SaidBy, Reads, Collects, Depends
  <2>11. (GotTargetsKnown /\ RefusedKnown)'
    BY <1>1, <1>4 DEF GotTargetsKnown, RefusedKnown
  <2> QED BY <2>3, <2>4, <2>5, <2>7, <2>8, <2>9, <2>10, <2>11
<1> QED BY <1>3, <1>4 DEF ReadTargetFile

-----------------------------------------------------------------------------

LEMMA LeftAre ==
  /\ "config" \in Left <=> got["config"] # Nothing
  /\ "targets" \in Left <=> got["targets"] # Nothing
  /\ Left \subseteq Watched
  /\ Left = {} \/ Left = {"config"} \/ Left = {"targets"} \/ Left = Watched
BY DEF Left, Watched

LEMMA DoneIs ==
  ASSUME done
  PROVE  /\ step' = "idle" /\ job' \in [Reasons -> BOOLEAN]
         /\ \A f \in Reasons : job'[f] = FALSE
         /\ got' \in [Watched -> Loaded \cup TargetFiles \cup {Nothing}]
         /\ got'["config"] = Nothing /\ got'["targets"] = Nothing
         /\ taken' \in Nat
BY DEF done, Reasons, Watched

\* The files a check leaves aside had been read and refused, or were not to be read.
LEMMA TogetherInstalls ==
  ASSUME WatchInv, step = "check",
         Left # {}, AgreeOf(Left), install(Left), done,
         UNCHANGED <<file, hidden, lastMod, overtaken>>
  PROVE  WatchInv'
<1> USE DEF WatchInv
<1> DEFINE d == Text(file)
<1>1. /\ UNCHANGED <<file, hidden, lastMod, overtaken>> /\ step = "check"
      /\ current' = [f \in Watched |-> IF f \in Left THEN got[f] ELSE current[f]]
      /\ waits' = waits \ Left /\ unread' = unread \ Left /\ rejected' = rejected \ Left
      /\ retry' = [f \in Watched |-> IF f \in Left THEN <<>> ELSE retry[f]]
      /\ "config" \in Left =>
           descriptors' = loading /\ loading' = <<>> /\ collect(got["config"])
      /\ "config" \notin Left => UNCHANGED <<descriptors, loading, collected, unlisted>>
  BY DEF install
<1>2. /\ step' = "idle" /\ job' \in [Reasons -> BOOLEAN]
      /\ \A f \in Reasons : job'[f] = FALSE
      /\ got' \in [Watched -> Loaded \cup TargetFiles \cup {Nothing}]
      /\ got'["config"] = Nothing /\ got'["targets"] = Nothing /\ taken' \in Nat
  BY DoneIs
<1>3. /\ "config" \in Left => /\ current'["config"] = got["config"]
                              /\ retry'["config"] = <<>>
      /\ "config" \notin Left => /\ current'["config"] = current["config"]
                                 /\ retry'["config"] = retry["config"]
      /\ "targets" \in Left => /\ current'["targets"] = got["targets"]
                               /\ retry'["targets"] = <<>>
      /\ "targets" \notin Left => /\ current'["targets"] = current["targets"]
                                  /\ retry'["targets"] = retry["targets"]
      /\ DOMAIN retry' = Watched /\ current' = [f \in Watched |-> current'[f]]
  BY <1>1 DEF Watched
<1>4. AgreeIn(d, current'["targets"], current'["config"])
  <2>1. AgreeIn(d, Pair(Left, "targets"), Pair(Left, "config"))
    BY InFiles DEF AgreeOf
  <2> QED BY <1>3, <2>1 DEF Pair
<1>5. /\ "config" \in Left <=> got["config"] # Nothing
      /\ "targets" \in Left <=> got["targets"] # Nothing
      /\ Left = {"config"} \/ Left = {"targets"} \/ Left = Watched
  BY LeftAre
<1>6. /\ "config" \in Left => got["config"] \in Loaded
      /\ "targets" \in Left => got["targets"] \in TargetFiles
  BY <1>5 DEF Shapes
<1> DEFINE c == got["config"]
<1>7. "config" \in Left =>
        /\ IsStamps(collected') /\ DOMAIN collected' = c.listed
        /\ c.listed \subseteq {"collectors"}
        /\ \A g \in DOMAIN collected' : collected'[g] =< file[g].n
        /\ (file["config"].n = lastMod["config"] /\ ~Stale(file, collected') /\ ~unlisted') =>
             /\ SaidBy("config") \in Configurations
             /\ Mergeable(SaidBy("config"), SaidBy("collectors"))
             /\ c = Merged(SaidBy("config"), SaidBy("collectors"))
             /\ SaidBy("config").listed = c.listed
  <2>1. SUFFICES ASSUME "config" \in Left, NEW k, k = got["config"]
                 PROVE  /\ IsStamps(collected') /\ DOMAIN collected' = k.listed
                        /\ k.listed \subseteq {"collectors"}
                        /\ \A g \in DOMAIN collected' : collected'[g] =< file[g].n
                        /\ (file["config"].n = lastMod["config"]
                              /\ ~Stale(file, collected') /\ ~unlisted') =>
                             /\ SaidBy("config") \in Configurations
                             /\ Mergeable(SaidBy("config"), SaidBy("collectors"))
                             /\ k = Merged(SaidBy("config"), SaidBy("collectors"))
                             /\ SaidBy("config").listed = k.listed
    OBVIOUS
  <2>2. k # Nothing /\ collect(k)
    BY <1>1, <1>5, <2>1
  <2> QED BY <1>1, <2>1, <2>2, CollectIs
<1> HIDE DEF c
<1>8. WatchTypeOK'
  <2>1. current'["config"] \in Loaded /\ current'["targets"] \in TargetFiles
    BY <1>3, <1>6 DEF WatchTypeOK
  <2>2. \A f \in Watched : IsStamps(retry'[f])
    BY <1>1, NoStamps DEF WatchTypeOK
  <2>3. IsStamps(descriptors') /\ IsStamps(loading') /\ IsStamps(collected')
    BY <1>1, <1>7, NoStamps DEF WatchTypeOK
  <2> QED BY <1>1, <1>2, <1>3, <2>1, <2>2, <2>3 DEF WatchTypeOK, Says
<1>9. StampsPast'
  <2>1. ASSUME NEW f \in Watched
        PROVE  \A g \in DOMAIN retry'[f] : retry'[f][g] =< file[g].n
    BY <1>1, NoStamps DEF StampsPast
  <2>2. \A g \in DOMAIN collected' : collected'[g] =< file[g].n
    BY <1>1, <1>7 DEF StampsPast
  <2> QED BY <1>1, <2>1, <2>2, NoStamps DEF StampsPast
<1>10. Shapes'
  <2>1. DOMAIN collected' \subseteq {"collectors"}
    BY <1>1, <1>7 DEF Shapes
  <2>2. \A x \in current'["targets"] : x.collector \in current'["config"].collectors
    BY <1>4 DEF AgreeIn
  <2> QED BY <1>2, <1>3, <2>1, <2>2 DEF Shapes
<1>11. WhereIs' /\ WhoWaits'
  BY <1>2 DEF WhereIs, WhoWaits, Reasons, Watched
<1>12. "config" \notin Left => "config" \notin waits
  BY <1>1, <1>5 DEF WhoWaits, WhereIs, Watched
<1>13. ("targets" \notin Left /\ "targets" \in waits /\ ~overtaken) =>
          current'["config"] = current["config"]
  BY <1>1, <1>3, <1>5 DEF WhoWaits
<1> HIDE DEF d
<1>14. ConfigKnown'
  <2>1. CASE "config" \in Left
    <3>1. SUFFICES ASSUME ConfigStands', ~unlisted'
                   PROVE  ConfigKnown'
      BY DEF ConfigKnown
    <3>2. file["config"].n = lastMod["config"] /\ ~Stale(file, collected')
      BY <1>1, <3>1 DEF ConfigStands
    <3>3. /\ SaidBy("config") \in Configurations
          /\ Mergeable(SaidBy("config"), SaidBy("collectors"))
          /\ current'["config"] = Merged(SaidBy("config"), SaidBy("collectors"))
          /\ SaidBy("config").listed \subseteq DOMAIN collected'
      BY <1>3, <1>7, <2>1, <3>1, <3>2 DEF c
    <3>4. /\ SaidBy("config")' = SaidBy("config") /\ SaidBy("collectors")' = SaidBy("collectors")
          /\ Collects(SaidBy("config"))'
      BY <1>1, <3>3 DEF SaidBy, Collects
    <3>5. "config" \notin rejected' /\ "config" \notin waits'
      BY <1>1, <2>1
    <3> QED BY <3>3, <3>4, <3>5 DEF ConfigKnown
  <2>2. CASE "config" \notin Left
    <3>1. ConfigStands' => ConfigStands
      BY <1>1, <1>3, <1>5, <2>2 DEF ConfigStands
    <3> QED BY <1>1, <1>3, <1>12, <2>2, <3>1 DEF ConfigKnown, SaidBy, LoadsNow, Collects, Depends
  <2> QED BY <2>1, <2>2
<1>15. TargetsKnown'
  <2>1. CASE "targets" \in Left
    BY <1>1, <1>3, <1>5, <2>1 DEF TargetsKnown, TargetsStand, GotTargetsKnown, SaidBy, WatchTypeOK
  <2>2. CASE "targets" \notin Left
    <3>1. TargetsStand' => TargetsStand
      BY <1>1, <1>3, <1>5, <2>2 DEF TargetsStand
    <3>2. /\ "targets" \in waits' <=> "targets" \in waits
          /\ "targets" \in rejected' <=> "targets" \in rejected
          /\ "targets" \in unread' <=> "targets" \in unread
      BY <1>1, <2>2
    <3>3. CASE "targets" \in waits /\ ~overtaken
      <4>1. current'["config"] = current["config"] /\ retry'["targets"] = retry["targets"]
        BY <1>3, <1>13, <2>2, <3>3
      <4>2. "targets" \in rejected
        BY <3>3 DEF WatchTypeOK
      <4> QED BY <1>1, <3>1, <3>2, <3>3, <4>1, <4>2 DEF TargetsKnown, SaidBy, AgreeNow, Checks
    <3>4. CASE ~("targets" \in waits /\ ~overtaken)
      BY <1>1, <1>3, <2>2, <3>1, <3>2, <3>4 DEF TargetsKnown, SaidBy
    <3> QED BY <3>3, <3>4
  <2> QED BY <2>1, <2>2
<1>16. PairKnown'
  BY <1>1, <1>5 DEF PairKnown, Watched
<1>17. InForceKnown'
  <2>1. ASSUME ~Stale(file, descriptors'), "config" \notin rejected'
        PROVE  /\ DescribedIn(d, current'["config"])
               /\ DescriptorsOf(current'["config"]) # {} => Covers(file, descriptors')
    <3>1. CASE "config" \in Left
      <4>1. c # Nothing /\ c = current'["config"] /\ descriptors' = loading
        BY <1>1, <1>3, <1>5, <3>1 DEF c
      <4>2. DescribedIn(d, c) /\ Depends(c)
        BY <1>1, <2>1, <4>1 DEF GotConfigKnown, c, d
      <4> QED BY <4>1, <4>2 DEF Depends
    <3>2. CASE "config" \notin Left
      BY <1>1, <1>3, <1>5, <2>1, <3>2 DEF InForceKnown, d
    <3> QED BY <3>1, <3>2
  <2> QED BY <1>1, <1>4, <2>1 DEF InForceKnown, AgreeNow, d
<1>18. (GotConfigKnown /\ GotTargetsKnown /\ RefusedKnown)'
  BY <1>2 DEF GotConfigKnown, GotTargetsKnown, RefusedKnown
<1> QED BY <1>8, <1>9, <1>10, <1>11, <1>14, <1>15, <1>16, <1>17, <1>18

LEMMA TogetherKeepsWatchInv ==
  ASSUME WatchInv, CheckTogether
  PROVE  WatchInv'
<1>1. CASE Left = {} /\ done /\ UNCHANGED <<current, watch>>
  <2> USE DEF WatchInv
  <2>1. /\ UNCHANGED <<file, hidden, current, lastMod, collected, descriptors, loading, retry,
                       waits, unread, rejected, overtaken, unlisted>>
        /\ step = "check"
    BY <1>1 DEF CheckTogether, watch, history
  <2>2. /\ step' = "idle" /\ job' \in [Reasons -> BOOLEAN]
        /\ \A f \in Reasons : job'[f] = FALSE
        /\ got' \in [Watched -> Loaded \cup TargetFiles \cup {Nothing}]
        /\ got'["config"] = Nothing /\ got'["targets"] = Nothing /\ taken' \in Nat
    BY <1>1, DoneIs
  <2>3. got["config"] = Nothing /\ got["targets"] = Nothing
    BY <1>1, LeftAre
  <2>4. WatchTypeOK'
    BY <2>1, <2>2 DEF WatchTypeOK, Says
  <2>5. (StampsPast /\ Shapes)'
    BY <2>1, <2>2 DEF StampsPast, Shapes
  <2>6. (WhereIs /\ WhoWaits)'
    BY <2>2 DEF WhereIs, WhoWaits, Reasons, Watched
  <2>7. (ConfigStands' => ConfigStands) /\ (TargetsStand' => TargetsStand)
    BY <2>1, <2>3 DEF ConfigStands, TargetsStand
  <2>8. (ConfigKnown /\ TargetsKnown /\ PairKnown)'
    BY <2>1, <2>7 DEF ConfigKnown, TargetsKnown, PairKnown, SaidBy, AgreeNow, LoadsNow,
                      Collects, Depends, Checks
  <2>9. InForceKnown'
    BY <2>1, <2>3 DEF InForceKnown, AgreeNow
  <2>10. (GotConfigKnown /\ GotTargetsKnown /\ RefusedKnown)'
    BY <2>2 DEF GotConfigKnown, GotTargetsKnown, RefusedKnown
  <2> QED BY <2>4, <2>5, <2>6, <2>8, <2>9, <2>10
<1>2. CASE /\ Left # {} /\ AgreeOf(Left) /\ install(Left) /\ done
           /\ UNCHANGED <<lastMod, overtaken>>
  BY <1>2, TogetherInstalls DEF CheckTogether
<1>3. CASE /\ Left # {} /\ ~AgreeOf(Left) /\ step' = "config alone"
           /\ UNCHANGED <<current, job, got, taken, watch>>
  <2> USE DEF WatchInv
  <2>1. /\ UNCHANGED <<file, hidden, current, job, got, taken, lastMod, collected, descriptors,
                       loading, retry, waits, unread, rejected, overtaken, unlisted>>
        /\ step = "check" /\ step' = "config alone" /\ Left' = Left
    BY <1>3 DEF CheckTogether, watch, history, Left
  <2>2. WatchTypeOK'
    BY <2>1 DEF WatchTypeOK, Says
  <2>3. (StampsPast /\ Shapes)'
    BY <2>1 DEF StampsPast, Shapes
  <2>4. (WhereIs /\ WhoWaits)'
    BY <1>3, <2>1 DEF WhereIs, WhoWaits
  <2>5. (ConfigStands' => ConfigStands) /\ (TargetsStand' => TargetsStand)
    BY <2>1 DEF ConfigStands, TargetsStand
  <2>6. (ConfigKnown /\ TargetsKnown /\ PairKnown)'
    BY <2>1, <2>5 DEF ConfigKnown, TargetsKnown, PairKnown, SaidBy, AgreeNow, LoadsNow,
                      Collects, Depends, Checks
  <2>7. (InForceKnown /\ GotConfigKnown /\ GotTargetsKnown)'
    <3>1. InForceKnown'
      BY <2>1 DEF InForceKnown, AgreeNow
    <3>2. GotConfigKnown'
      BY <2>1 DEF GotConfigKnown, SaidBy, Reads, Collects, Depends
    <3>3. GotTargetsKnown'
      BY <2>1 DEF GotTargetsKnown, Checks
    <3> QED BY <3>1, <3>2, <3>3
  <2>8. ~AgreeNow(Pair(Left, "targets"), Pair(Left, "config"))
    BY <1>3, InFiles DEF AgreeOf, AgreeNow
  <2>9. /\ Left = {"config"} => ~AgreeNow(current.targets, got["config"])
        /\ Left = {"targets"} => ~AgreeNow(got["targets"], current.config)
        /\ Left = Watched => ~AgreeNow(got["targets"], got["config"])
    BY <2>8 DEF Pair, Watched
  <2>10. RefusedKnown'
    BY <2>1, <2>9 DEF RefusedKnown, Refused, AgreeNow
  <2> QED BY <2>2, <2>3, <2>4, <2>6, <2>7, <2>10
<1> QED BY <1>1, <1>2, <1>3 DEF CheckTogether

LEMMA ConfigAloneKeepsWatchInv ==
  ASSUME WatchInv, ConfigAlone
  PROVE  WatchInv'
<1> USE DEF WatchInv
<1>1. /\ UNCHANGED <<file, hidden, job, taken, lastMod, overtaken>>
      /\ step = "config alone" /\ step' = "targets alone"
  BY DEF ConfigAlone
<1>2. CASE /\ Left = Watched /\ AgreeOf({"config"})
           /\ install({"config"}) /\ got' = [got EXCEPT !["config"] = Nothing]
  <2>1. PICK c, t : c = got["config"] /\ t = got["targets"]
    OBVIOUS
  <2>2. /\ current' = [f \in Watched |-> IF f \in {"config"} THEN got[f] ELSE current[f]]
        /\ waits' = waits \ {"config"} /\ unread' = unread \ {"config"}
        /\ rejected' = rejected \ {"config"}
        /\ retry' = [f \in Watched |-> IF f \in {"config"} THEN <<>> ELSE retry[f]]
        /\ descriptors' = loading /\ loading' = <<>> /\ collect(c)
    BY <1>2, <2>1 DEF install
  <2>3. /\ current'["config"] = c /\ current'["targets"] = current["targets"]
        /\ current' = [f \in Watched |-> current'[f]]
        /\ retry'["config"] = <<>> /\ retry'["targets"] = retry["targets"]
        /\ DOMAIN retry' = Watched
    BY <2>1, <2>2 DEF Watched
  <2>4. /\ got'["config"] = Nothing /\ got'["targets"] = t /\ t # Nothing /\ c # Nothing
        /\ c \in Loaded /\ t \in TargetFiles
        /\ got' \in [Watched -> Loaded \cup TargetFiles \cup {Nothing}]
    BY <1>2, <2>1, LeftAre DEF Shapes, Watched
  <2>5. Left' = {"targets"}
    BY <2>4 DEF Left, Watched
  <2>6. AgreeNow(current["targets"], c)
    <3>1. agree(Pair({"config"}, "targets"), Pair({"config"}, "config"))
      BY <1>2 DEF AgreeOf
    <3> QED BY <2>1, <3>1, InFiles DEF Pair, AgreeNow
  <2>7. /\ IsStamps(collected') /\ DOMAIN collected' = c.listed
        /\ c.listed \subseteq {"collectors"}
        /\ \A g \in DOMAIN collected' : collected'[g] =< file[g].n
        /\ (file["config"].n = lastMod["config"] /\ ~Stale(file, collected') /\ ~unlisted') =>
             /\ SaidBy("config") \in Configurations
             /\ Mergeable(SaidBy("config"), SaidBy("collectors"))
             /\ c = Merged(SaidBy("config"), SaidBy("collectors"))
             /\ SaidBy("config").listed = c.listed
    BY <1>1, <2>1, <2>2, <2>4, CollectIs
  <2>8. WatchTypeOK'
    BY <1>1, <2>2, <2>3, <2>4, <2>7, NoStamps DEF WatchTypeOK, Says, Watched
  <2>9. StampsPast'
    BY <1>1, <2>2, <2>3, <2>7, NoStamps DEF StampsPast, Watched
  <2>10. Shapes'
    <3>1. \A x \in current["targets"] : x.collector \in c.collectors
      BY <2>6 DEF AgreeNow, AgreeIn
    <3> QED BY <2>3, <2>4, <2>7, <3>1 DEF Shapes
  <2>11. WhereIs'
    BY <1>1, <2>4, <2>5, <2>1 DEF WhereIs, Watched
  <2>12. WhoWaits'
    BY <1>1, <2>1, <2>2, <2>4 DEF WhoWaits
  <2>13. ConfigKnown'
    <3>1. SUFFICES ASSUME ConfigStands', ~unlisted'
                   PROVE  ConfigKnown'
      BY DEF ConfigKnown
    <3>2. file["config"].n = lastMod["config"] /\ ~Stale(file, collected')
      BY <1>1, <3>1 DEF ConfigStands
    <3>3. /\ SaidBy("config") \in Configurations
          /\ Mergeable(SaidBy("config"), SaidBy("collectors"))
          /\ current'["config"] = Merged(SaidBy("config"), SaidBy("collectors"))
          /\ SaidBy("config").listed \subseteq DOMAIN collected'
      BY <2>3, <2>7, <3>1, <3>2
    <3>4. /\ SaidBy("config")' = SaidBy("config") /\ SaidBy("collectors")' = SaidBy("collectors")
          /\ Collects(SaidBy("config"))'
      BY <1>1, <3>3 DEF SaidBy, Collects
    <3>5. "config" \notin rejected' /\ "config" \notin waits'
      BY <2>2
    <3> QED BY <3>3, <3>4, <3>5 DEF ConfigKnown
  <2>14. TargetsKnown' /\ PairKnown'
    BY <2>4 DEF TargetsKnown, TargetsStand, PairKnown
  <2>15. InForceKnown'
    <3>1. Depends(c) /\ (~Stale(file, loading) => DescribedIn(Text(file), c))
      BY <1>1, <2>1, <2>4 DEF GotConfigKnown
    <3> QED BY <1>1, <2>2, <2>3, <2>6, <3>1 DEF InForceKnown, AgreeNow, Depends
  <2>16. GotConfigKnown'
    BY <2>4 DEF GotConfigKnown
  <2>17. GotTargetsKnown'
    <3>1. /\ file["targets"].n = lastMod["targets"] => file["targets"].says = t
          /\ Checks(t, c)
      BY <2>1, <2>4 DEF GotTargetsKnown
    <3> QED BY <1>1, <2>3, <2>4, <3>1 DEF GotTargetsKnown, Checks
  <2>18. Refused(t, c, "targets")
    BY <1>1, <1>2, <2>1 DEF RefusedKnown
  <2>19. RefusedKnown'
    BY <1>1, <2>3, <2>4, <2>5, <2>18 DEF RefusedKnown, Refused, AgreeNow, Watched
  <2> QED BY <2>8, <2>9, <2>10, <2>11, <2>12, <2>13, <2>14, <2>15, <2>16, <2>17, <2>19
<1>3. CASE /\ ~(Left = Watched /\ AgreeOf({"config"}))
           /\ UNCHANGED <<current, got, collected, descriptors, loading, retry, waits, unread,
                          rejected, unlisted>>
  <2>1. Left' = Left
    BY <1>3 DEF Left
  <2>2. WatchTypeOK'
    BY <1>1, <1>3 DEF WatchTypeOK, Says
  <2>3. (StampsPast /\ Shapes)'
    BY <1>1, <1>3 DEF StampsPast, Shapes
  <2>4. (WhereIs /\ WhoWaits)'
    BY <1>1, <1>3 DEF WhereIs, WhoWaits
  <2>5. (ConfigStands' => ConfigStands) /\ (TargetsStand' => TargetsStand)
    BY <1>1, <1>3 DEF ConfigStands, TargetsStand
  <2>6. (ConfigKnown /\ TargetsKnown /\ PairKnown)'
    BY <1>1, <1>3, <2>5 DEF ConfigKnown, TargetsKnown, PairKnown, SaidBy, AgreeNow, LoadsNow,
                            Collects, Depends, Checks
  <2>7. InForceKnown'
    BY <1>1, <1>3 DEF InForceKnown, AgreeNow
  <2>8. GotConfigKnown'
    BY <1>1, <1>3 DEF GotConfigKnown, SaidBy, Reads, Collects, Depends
  <2>9. GotTargetsKnown'
    BY <1>1, <1>3 DEF GotTargetsKnown, Checks
  <2>10. Left = Watched => ~AgreeNow(current.targets, got["config"])
    BY <1>3, InFiles DEF AgreeOf, Pair, AgreeNow
  <2>11. RefusedKnown'
    BY <1>1, <1>3, <2>1, <2>10 DEF RefusedKnown, Refused, AgreeNow
  <2> QED BY <2>2, <2>3, <2>4, <2>6, <2>7, <2>8, <2>9, <2>11
<1> QED BY <1>2, <1>3 DEF ConfigAlone

LEMMA TargetsAloneKeepsWatchInv ==
  ASSUME WatchInv, TargetsAlone
  PROVE  WatchInv'
<1> USE DEF WatchInv
<1>1. /\ UNCHANGED <<file, hidden, lastMod, collected, descriptors, loading, overtaken, unlisted>>
      /\ step = "targets alone"
  BY DEF TargetsAlone, history
<1>2. /\ step' = "idle" /\ job' \in [Reasons -> BOOLEAN]
      /\ \A f \in Reasons : job'[f] = FALSE
      /\ got' \in [Watched -> Loaded \cup TargetFiles \cup {Nothing}]
      /\ got'["config"] = Nothing /\ got'["targets"] = Nothing /\ taken' \in Nat
  BY DoneIs DEF TargetsAlone
<1>3. PICK c, t : c = got["config"] /\ t = got["targets"]
  OBVIOUS
<1>4. /\ "config" \in Left <=> c # Nothing
      /\ "targets" \in Left <=> t # Nothing
      /\ Left = {} \/ Left = {"config"} \/ Left = {"targets"} \/ Left = Watched
  BY <1>3, LeftAre
<1>5. (c # Nothing => c \in Loaded) /\ (t # Nothing => t \in TargetFiles)
  BY <1>3 DEF Shapes
<1>6. (WhereIs /\ WhoWaits)'
  BY <1>2 DEF WhereIs, WhoWaits, Reasons, Watched
<1>7. (GotConfigKnown /\ GotTargetsKnown /\ RefusedKnown)'
  BY <1>2 DEF GotConfigKnown, GotTargetsKnown, RefusedKnown
<1>8. PICK added : added = retryImported(retry["config"])
  OBVIOUS
<1>9. /\ IsStamps(added) /\ DOMAIN retry["config"] \subseteq DOMAIN added
      /\ \A g \in DOMAIN added : added[g] =< file[g].n
      /\ Stale(file, added) <=> Stale(file, retry["config"])
  BY <1>8, RetryImportedAre DEF StampsPast, WatchTypeOK, Watched
<1>10. ASSUME c # Nothing, file["config"].n = lastMod["config"], ~Stale(file, collected), ~unlisted
       PROVE  /\ c \in Loaded /\ Depends(c)
              /\ SaidBy("config") \in Configurations /\ Collects(SaidBy("config"))
              /\ Mergeable(SaidBy("config"), SaidBy("collectors"))
              /\ c = Merged(SaidBy("config"), SaidBy("collectors"))
  <2>1. /\ c \in Loaded /\ Depends(c)
        /\ SaidBy("config") \in Configurations
        /\ Mergeable(SaidBy("config"), SaidBy("collectors"))
        /\ c = Merged(SaidBy("config"), SaidBy("collectors"))
        /\ SaidBy("config").listed = c.listed
    BY <1>1, <1>3, <1>10, GotStands
  <2>2. unlisted = ~Collects(c)
    BY <1>1, <1>3, <1>10 DEF GotConfigKnown
  <2>3. Collects(SaidBy("config"))
    BY <1>10, <2>1, <2>2 DEF Collects
  <2> QED BY <2>1, <2>3
<1>11. /\ SaidBy("config")' = SaidBy("config") /\ SaidBy("collectors")' = SaidBy("collectors")
       /\ SaidBy("targets")' = SaidBy("targets")
       /\ Collects(SaidBy("config"))' <=> Collects(SaidBy("config"))
  BY <1>1 DEF SaidBy, Collects
<1>12. CASE /\ Left = Watched /\ AgreeOf({"targets"})
            /\ current' = [current EXCEPT !["targets"] = got["targets"]]
            /\ retry' = [config |-> retryImported(retry["config"]), targets |-> <<>>]
            /\ waits' = {"config"} /\ unread' = {} /\ rejected' = {"config"}
  <2>1. c \in Loaded /\ t \in TargetFiles /\ c # Nothing /\ t # Nothing
    BY <1>4, <1>5, <1>12 DEF Watched
  <2>2. /\ current'["targets"] = t /\ current'["config"] = current["config"]
        /\ current' = [f \in Watched |-> current'[f]]
    <3>1. current = [f \in Watched |-> current[f]]
      BY DEF Shapes
    <3> QED BY <1>3, <1>12, <3>1 DEF Watched
  <2>3. /\ retry'["targets"] = <<>> /\ retry'["config"] = added
        /\ DOMAIN retry' = Watched
    BY <1>8, <1>12 DEF Watched
  <2>4. AgreeNow(t, current.config)
    <3>1. agree(Pair({"targets"}, "targets"), Pair({"targets"}, "config"))
      BY <1>12 DEF AgreeOf
    <3> QED BY <1>3, <3>1, InFiles DEF Pair, AgreeNow
  <2>5. WatchTypeOK'
    BY <1>1, <1>2, <1>9, <1>12, <2>1, <2>2, <2>3, NoStamps DEF WatchTypeOK, Says, Watched
  <2>6. StampsPast'
    BY <1>1, <1>9, <2>3, NoStamps DEF StampsPast, Watched
  <2>7. Shapes'
    <3>1. \A x \in t : x.collector \in current.config.collectors
      BY <2>4 DEF AgreeNow, AgreeIn
    <3> QED BY <1>1, <1>2, <2>2, <3>1 DEF Shapes
  <2>8. ConfigKnown'
    <3>1. SUFFICES ASSUME ConfigStands', ~unlisted
                   PROVE  ConfigKnown'
      BY <1>1 DEF ConfigKnown
    <3>2. /\ file["config"].n = lastMod["config"] /\ ~Stale(file, collected)
          /\ ~Stale(file, retry["config"]) /\ ~Stale(file, loading)
      BY <1>1, <1>9, <2>3, <3>1 DEF ConfigStands
    <3>3. /\ SaidBy("config") \in Configurations /\ Collects(SaidBy("config"))
          /\ Mergeable(SaidBy("config"), SaidBy("collectors"))
          /\ c = Merged(SaidBy("config"), SaidBy("collectors")) /\ Depends(c)
      BY <1>10, <2>1, <3>1, <3>2
    <3>4. ~AgreeNow(current["targets"], c)'
      <4>1. Refused(t, c, "config")
        BY <1>1, <1>3, <1>12 DEF RefusedKnown
      <4>2. ~AgreeIn(Text(file), t, c)
        BY <3>2, <4>1 DEF Refused, AgreeNow
      <4> QED BY <1>1, <2>2, <4>2 DEF AgreeNow
    <3>5. Depends(c)'
      BY <1>1, <1>9, <2>3, <3>3 DEF Depends
    <3>6. "config" \in rejected' /\ "config" \in waits'
      BY <1>12
    <3> QED BY <1>11, <3>3, <3>4, <3>5, <3>6 DEF ConfigKnown
  <2>9. TargetsKnown'
    BY <1>1, <1>3, <1>12, <2>1, <2>2 DEF TargetsKnown, TargetsStand, GotTargetsKnown, SaidBy
  <2>10. PairKnown' /\ InForceKnown'
    BY <1>12 DEF PairKnown, InForceKnown
  <2> QED BY <1>6, <1>7, <2>5, <2>6, <2>7, <2>8, <2>9, <2>10
<1>13. CASE /\ ~(Left = Watched /\ AgreeOf({"targets"}))
            /\ reject(Left, TRUE, FALSE)
            /\ retry' = IF "config" \notin Left THEN retry
                        ELSE [retry EXCEPT !["config"] = retryImported(retry["config"])]
            /\ UNCHANGED current
  <2>1. waits' = waits \cup Left /\ unread' = unread \ Left /\ rejected' = rejected \cup Left
    BY <1>13 DEF reject
  <2>2. /\ retry'["targets"] = retry["targets"] /\ DOMAIN retry' = Watched
        /\ retry'["config"] = IF c = Nothing THEN retry["config"] ELSE added
    BY <1>4, <1>8, <1>13 DEF WatchTypeOK, Watched
  <2>3. /\ IsStamps(retry'["config"]) /\ DOMAIN retry["config"] \subseteq DOMAIN retry'["config"]
        /\ \A g \in DOMAIN retry'["config"] : retry'["config"][g] =< file[g].n
        /\ Stale(file, retry'["config"]) <=> Stale(file, retry["config"])
    BY <1>9, <2>2 DEF WatchTypeOK, StampsPast, Watched
  <2>4. WatchTypeOK'
    BY <1>1, <1>2, <1>13, <2>1, <2>2, <2>3, LeftAre DEF WatchTypeOK, Says, Watched
  <2>5. StampsPast'
    BY <1>1, <2>2, <2>3 DEF StampsPast, Watched
  <2>6. Shapes'
    BY <1>1, <1>2, <1>13 DEF Shapes
  <2>7. ConfigStands' => /\ c = Nothing => ConfigStands
                         /\ file["config"].n = lastMod["config"] /\ ~Stale(file, collected)
                         /\ ~Stale(file, retry["config"]) /\ ~Stale(file, loading)
    BY <1>1, <1>3, <2>3 DEF ConfigStands
  <2>8. TargetsStand' => /\ t = Nothing => TargetsStand
                         /\ t # Nothing =>
                              /\ SaidBy("targets") = t /\ t \in TargetFiles
                              /\ Checks(t, current.config)
                              /\ c # Nothing => Checks(t, c)
                              /\ ~Stale(file, retry["targets"])
    BY <1>1, <1>3, <1>5, <2>2 DEF TargetsStand, GotTargetsKnown, SaidBy
  <2>9. ASSUME NEW u, NEW k
        PROVE  /\ AgreeNow(u, k)' <=> AgreeNow(u, k)
               /\ LoadsNow(k)' <=> LoadsNow(k)
               /\ Checks(u, k)' <=> Checks(u, k)
               /\ Depends(k) => Depends(k)'
    BY <1>1, <2>2, <2>3 DEF AgreeNow, LoadsNow, Checks, Depends
  <2>10. ConfigKnown'
    <3> SUFFICES ASSUME ConfigStands', "config" \notin unread', ~unlisted
                 PROVE  ConfigKnown'
      BY <1>1 DEF ConfigKnown
    <3>1. PICK u : u = current.targets
      OBVIOUS
    <3>2. current'["targets"] = u /\ current'["config"] = current["config"]
      BY <1>13, <3>1
    <3>3. CASE "config" \in Left
      <4>1. /\ SaidBy("config") \in Configurations /\ Collects(SaidBy("config"))
            /\ Mergeable(SaidBy("config"), SaidBy("collectors"))
            /\ c = Merged(SaidBy("config"), SaidBy("collectors")) /\ Depends(c)
        BY <1>4, <1>10, <2>7, <3>3
      <4>2. Refused(u, c, "config")
        <5>1. CASE Left = {"config"}
          BY <1>1, <1>3, <3>1, <5>1 DEF RefusedKnown
        <5>2. CASE Left = Watched
          BY <1>1, <1>3, <3>1, <5>2 DEF RefusedKnown
        <5> QED BY <1>4, <3>3, <5>1, <5>2
      <4>3. ~AgreeNow(u, c)
        BY <2>7, <4>2 DEF Refused
      <4>4. ~AgreeNow(u, c)' /\ Depends(c)'
        BY <2>9, <4>1, <4>3
      <4>5. "config" \in rejected' /\ "config" \in waits'
        BY <2>1, <3>3
      <4> QED BY <1>11, <3>2, <4>1, <4>4, <4>5 DEF ConfigKnown
    <3>4. CASE "config" \notin Left
      <4>1. ConfigStands /\ "config" \notin unread
        BY <1>4, <2>1, <2>7, <3>4
      <4>2. PICK k, s : k = SaidBy("config") /\ s = SaidBy("collectors")
        OBVIOUS
      <4>3. PICK m : m = Merged(k, s)
        OBVIOUS
      <4>4. \/ k = Malformed /\ "config" \in rejected /\ "config" \notin waits
            \/ /\ k \in Configurations /\ Collects(k)
               /\ \/ ~Mergeable(k, s) /\ "config" \in rejected /\ "config" \notin waits
                  \/ /\ Mergeable(k, s)
                     /\ "config" \notin rejected => m = current.config
                     /\ "config" \in rejected => Depends(m)
                     /\ "config" \in waits => ~AgreeNow(u, m)
                     /\ ("config" \in rejected /\ "config" \notin waits) => ~LoadsNow(m)
        BY <3>1, <4>1, <4>2, <4>3 DEF ConfigKnown
      <4>5. /\ "config" \in rejected' <=> "config" \in rejected
            /\ "config" \in waits' <=> "config" \in waits
        BY <2>1, <3>4
      <4>6. /\ AgreeNow(u, m)' <=> AgreeNow(u, m)
            /\ LoadsNow(m)' <=> LoadsNow(m)
            /\ Depends(m) => Depends(m)'
        BY <2>9
      <4>7. SaidBy("config")' = k /\ SaidBy("collectors")' = s /\ (Collects(k)' <=> Collects(k))
        BY <1>1, <1>11, <4>2 DEF Collects
      <4> QED BY <3>2, <4>3, <4>4, <4>5, <4>6, <4>7 DEF ConfigKnown
    <3> QED BY <3>3, <3>4
  <2>11. ("targets" \in Left /\ TargetsStand') => ~AgreeNow(t, current.config)
    <3>1. CASE Left = {"targets"}
      <4>1. Refused(t, current.config, "targets")
        BY <1>1, <1>3, <3>1 DEF RefusedKnown
      <4> QED BY <1>4, <2>8, <4>1 DEF Refused
    <3>2. CASE Left = Watched
      <4>1. ~agree(Pair({"targets"}, "targets"), Pair({"targets"}, "config"))
        BY <1>13, <3>2 DEF AgreeOf
      <4> QED BY <1>3, <4>1, InFiles DEF Pair, AgreeNow
    <3> QED BY <1>4, <3>1, <3>2
  <2>12. TargetsKnown'
    <3> SUFFICES ASSUME TargetsStand', "targets" \notin unread'
                 PROVE  TargetsKnown'
      BY DEF TargetsKnown
    <3>1. CASE "targets" \in Left
      BY <1>1, <1>4, <1>13, <2>1, <2>2, <2>8, <2>11, <3>1
         DEF TargetsKnown, SaidBy, AgreeNow, Checks
    <3>2. CASE "targets" \notin Left
      <4>1. TargetsStand
        BY <1>4, <2>8, <3>2
      <4> QED BY <1>1, <1>13, <2>1, <2>2, <3>2, <4>1 DEF TargetsKnown, SaidBy, AgreeNow, Checks
    <3> QED BY <3>1, <3>2
  <2>13. PairKnown'
    <3> SUFFICES ASSUME ConfigStands', TargetsStand', "config" \in waits', "targets" \in waits',
                        ~overtaken, ~unlisted
                 PROVE  PairKnown'
      BY <1>1 DEF PairKnown
    <3>1. PICK k, u : k = Merged(SaidBy("config"), SaidBy("collectors")) /\ u = SaidBy("targets")
      OBVIOUS
    <3>2. SUFFICES Checks(u, k) /\ ~AgreeNow(u, k)
      BY <1>11, <2>9, <3>1 DEF PairKnown
    <3>3. CASE Left = {}
      <4>1. ConfigStands /\ TargetsStand
        BY <1>4, <2>7, <2>8, <3>3
      <4> QED BY <2>1, <3>1, <3>3, <4>1 DEF PairKnown
    <3>4. CASE Left = {"config"}
      <4>1. c # Nothing /\ t = Nothing /\ "targets" \in waits
        BY <1>4, <2>1, <3>4
      <4>2. ~job["targets"]
        BY <1>1, <1>3, <4>1 DEF WhoWaits
      <4>3. c = current.config
        BY <1>1, <1>3, <4>1, <4>2 DEF WhoWaits
      <4>4. TargetsStand /\ "targets" \notin unread
        BY <2>8, <4>1 DEF WatchTypeOK
      <4>5. Checks(u, current.config) /\ ~AgreeNow(u, current.config)
        BY <3>1, <4>1, <4>4 DEF TargetsKnown
      <4>6. k = c
        BY <1>10, <2>7, <3>1, <4>1
      <4> QED BY <4>3, <4>5, <4>6
    <3>5. CASE Left = {"targets"}
      <4>1. c = Nothing /\ "config" \in waits /\ t # Nothing
        BY <1>4, <2>1, <3>5
      <4>2. job["config"]
        BY <1>1, <1>3, <4>1 DEF WhoWaits, WhereIs, Watched
      <4> QED BY <1>1, <1>3, <4>1, <4>2 DEF WhoWaits
    <3>6. CASE Left = Watched
      <4>1. c # Nothing /\ t # Nothing
        BY <1>4, <3>6 DEF Watched
      <4>2. Refused(t, c, "targets")
        BY <1>1, <1>3, <3>6 DEF RefusedKnown
      <4>3. ~AgreeNow(t, c) /\ Checks(t, c)
        BY <2>8, <4>1, <4>2 DEF Refused
      <4>4. k = c /\ u = t
        BY <1>10, <2>7, <2>8, <3>1, <4>1
      <4> QED BY <4>3, <4>4
    <3> QED BY <1>4, <3>3, <3>4, <3>5, <3>6
  <2>14. InForceKnown'
    <3> SUFFICES ASSUME ~Stale(file, descriptors), "config" \notin rejected'
                 PROVE  InForceKnown'
      BY <1>1 DEF InForceKnown
    <3>1. c = Nothing /\ "config" \notin rejected
      BY <1>4, <2>1
    <3>2. rejected' = {} => rejected = {}
      BY <2>1
    <3>3. /\ DescribedIn(Text(file), current.config)
          /\ DescriptorsOf(current.config) # {} => Covers(file, descriptors)
          /\ rejected = {} => AgreeIn(Text(file), current.targets, current.config)
      BY <1>1, <1>3, <3>1 DEF InForceKnown, AgreeNow
    <3> QED BY <1>1, <1>13, <3>2, <3>3 DEF InForceKnown, AgreeNow
  <2> QED BY <1>6, <1>7, <2>4, <2>5, <2>6, <2>10, <2>12, <2>13, <2>14
<1> QED BY <1>12, <1>13 DEF TargetsAlone

LEMMA WatchInvHolds == WatchSpec => []WatchInv
<1>1. WatchInit => WatchInv
  BY InitWatchInv
<1>2. WatchInv /\ [WatchNext]_wvars => WatchInv'
  <2> SUFFICES ASSUME WatchInv, [WatchNext]_wvars
               PROVE  WatchInv'
    OBVIOUS
  <2>1. CASE \E f \in Files : \E says \in Says(f) : Write(f, says)
    BY <2>1, WriteKeepsWatchInv
  <2>2. CASE (\E f \in Watched \cup {"collectors"} : ChangeAccess(f)) \/ UNCHANGED wvars
    BY <2>2, AccessKeepsWatchInv
  <2>3. CASE Tick
    <3>1. PICK a \in BOOLEAN, b \in BOOLEAN :
            (a <=> (DoConfig \/ QuietConfig)) /\ (b <=> (DoTargets \/ QuietTargets))
      OBVIOUS
    <3>2. ("config" \in waits /\ b) => a
      BY <3>1, WaitingConfigIsRead DEF WatchInv
    <3>3. (configChanged /\ "targets" \in waits) => b
      BY <3>1 DEF DoTargets
    <3>4. Begins(a, b)
      BY <2>3, <3>1 DEF Tick, Begins
    <3> QED BY <3>2, <3>3, <3>4, BeginsKeepsWatchInv
  <2>4. CASE ReloadAsked
    BY <2>4, BeginsKeepsWatchInv DEF ReloadAsked
  <2>5. CASE Step
    BY <2>5, StampConfigKeepsWatchInv, ListCollectorsKeepsWatchInv, ReadConfigKeepsWatchInv,
       ReadCollectorsKeepsWatchInv, LoadConfigKeepsWatchInv, StampTargetsKeepsWatchInv,
       ReadTargetsKeepsWatchInv, TogetherKeepsWatchInv, ConfigAloneKeepsWatchInv,
       TargetsAloneKeepsWatchInv DEF Step
  <2> QED BY <2>1, <2>2, <2>3, <2>4, <2>5 DEF WatchNext
<1> QED BY <1>1, <1>2, PTL DEF WatchSpec

\* For any files, changed any number of times at any moment: whatever the watch has
\* nothing left to do about, a reload would not put in force either, but for what
\* overtook a target file that waits and for collector files that were not those
\* listed when the reload began (reloadChanged, apply and install of config.go).
THEOREM ChangesAreRead == WatchSpec => []NoChangeSleptThrough
<1>1. WatchInv => NoChangeSleptThrough
  BY NoneSleptThrough
<1> QED BY <1>1, WatchInvHolds, PTL

=============================================================================
