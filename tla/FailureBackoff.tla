---------------------------- MODULE FailureBackoff ----------------------------
(***************************************************************************)
(* The targets a collector with failure_backoff is kept from, after enough *)
(* failed trips, until a wait has passed (internal/exporter/backoff.go).   *)
(* One trip at a time is then let through, the trial, whose failure makes  *)
(* the wait longer.  What is remembered is of the collector as a reload    *)
(* last defined it, bounded, and given up when a trip succeeds.            *)
(*                                                                         *)
(* A target's state is an object the trial keeps a pointer to, while       *)
(* others may forget the target, and remember it again as another object.  *)
(* Waits are told apart as passing and passed, and failures are counted up *)
(* to `after', beyond which only the length of the wait depends on them.   *)
(***************************************************************************)
EXTENDS Following, Sequences, FiniteSets, SequencesExt

CONSTANTS
  Turns,            \* the trips of a collector (backoffTurn)
  CacheKeys,        \* what trips are told apart by (probeCacheKey)
  Objects,          \* states of targets: more than may be remembered and pointed to
  BackoffCollector, \* the collector, one of Names
  After,            \* failure_backoff.after, not 0
  Limit             \* maxBackoffTargets, not 0

ASSUME BackoffAssumption ==
  /\ BackoffCollector \in Names /\ None \notin Objects
  /\ After \in Nat \ {0} /\ Limit \in Nat \ {0}
  /\ IsFiniteSet(Turns) /\ IsFiniteSet(Objects)
  /\ Cardinality(Objects) > Limit + Cardinality(Turns)

VARIABLES
  going,    \* trips: idle, begun (the collector read) or gone to the target
  readAt,   \* the generation a trip read its collector at
  key,      \* its key
  trial,    \* backoffTurn.trial: the object it is the trial of
  object,   \* backoffTarget, as [key, failures, wait, trial, read]
  order     \* collectorBackoffs: the objects remembered, as they last failed

bvars == <<force, followed, going, readAt, key, trial, object, order>>
trips == <<going, readAt, key, trial>>

\* An object that is not in use: a target that has not failed.
Blank == [key |-> None, failures |-> 0, wait |-> "none", trial |-> FALSE, read |-> 0]

Remembered == ToSet(order)

\* The state remembered of a key, as the set of it or of none.
StateOf(k) == {o \in Remembered : object[o].key = k}

\* What is left of the objects is what is remembered or pointed to.
Keeps(objects) ==
  object' = [o \in Objects |-> IF o \in ToSet(order') \/ \E t \in Turns : trial'[t] = o
                                 THEN objects[o] ELSE Blank]

-----------------------------------------------------------------------------

reloads(defs) == Install(defs) /\ UNCHANGED <<trips, object, order>>

\* A following forgets the targets of a collector it retires (forgetLocked).
forgetLocked ==
  /\ Follow
  /\ order' = IF BackoffCollector \in stale(followed, followed') THEN <<>> ELSE order
  /\ UNCHANGED trips
  /\ Keeps(object)

\* A trip reads its collector in the configuration in force.
begins(t, k) ==
  /\ going[t] = "idle"
  /\ followed.config = force /\ BackoffCollector \in Named(force)
  /\ going' = [going EXCEPT ![t] = "begun"]
  /\ readAt' = [readAt EXCEPT ![t] = followed.generation]
  /\ key' = [key EXCEPT ![t] = k]
  /\ UNCHANGED <<force, followed, trial, object, order>>

\* Whether the state of a target lets a trip through: it has not failed
\* `after' times, or its wait has passed and no trial is in progress.
Lets(o) ==
  \/ object[o].wait = "none"
  \/ object[o].wait = "passed" /\ ~object[o].trial

\* A trip is let through to its target, as a trial when its wait has passed.
admit(t) ==
  /\ going[t] = "begun"
  /\ \A o \in StateOf(key[t]) : Lets(o)
  /\ going' = [going EXCEPT ![t] = "gone"]
  /\ LET tried == {o \in StateOf(key[t]) : object[o].wait # "none"} IN
       /\ object' = [o \in Objects |-> IF o \in tried THEN [object[o] EXCEPT !.trial = TRUE]
                                                    ELSE object[o]]
       /\ trial' = [trial EXCEPT ![t] = IF tried = {} THEN None ELSE CHOOSE o \in tried : TRUE]
  /\ UNCHANGED <<force, followed, readAt, key, order>>

\* Or it is refused, and changes nothing.
refuse(t) ==
  /\ going[t] = "begun"
  /\ \E o \in StateOf(key[t]) : ~Lets(o)
  /\ going' = [going EXCEPT ![t] = "idle"]
  /\ readAt' = [readAt EXCEPT ![t] = 0] /\ key' = [key EXCEPT ![t] = None]
  /\ UNCHANGED <<force, followed, trial, object, order>>

\* TrialOver, but for trips that say nothing of their target.
TrialOver_Known(t, outcome) ==
  [o \in Objects |-> IF o = trial[t] /\ outcome # "unknown"
                       THEN [object[o] EXCEPT !.trial = FALSE] ELSE object[o]]

\* The objects when trip t has ended, its trial over whatever came of it.
TrialOver(t, outcome) ==
  [o \in Objects |-> IF o = trial[t] THEN [object[o] EXCEPT !.trial = FALSE] ELSE object[o]]

\* One more failure of the target of x, by a trip that read its collector at r.
Failed(x, r) ==
  LET n == IF x.failures < After THEN x.failures + 1 ELSE After IN
  [x EXCEPT !.failures = n, !.read = r, !.wait = IF n < After THEN "none" ELSE "passing"]

\* Those remembered but object o.
Without(o) == RemoveAt(order, CHOOSE i \in DOMAIN order : order[i] = o)

\* Those remembered, with room for one more: the longest failed makes it.
Evicted == IF Len(order) >= Limit THEN Tail(order) ELSE order

\* The failure of a trip is remembered, the last of all, by the state of its
\* target or a new one.
remember(t, objects) ==
  LET known == StateOf(key[t])
      o == IF known = {} THEN CHOOSE x \in Objects : object[x] = Blank
                         ELSE CHOOSE x \in known : TRUE
  IN
  /\ order' = Append(IF known = {} THEN Evicted ELSE Without(o), o)
  /\ Keeps([objects EXCEPT ![o] = Failed([@ EXCEPT !.key = key[t]], readAt[t])])

\* Counts, but for reloads.
Counts_Any(t, outcome) == outcome # "unknown"

\* Whether the outcome of a trip says something of a target of its collector.
Counts(t, outcome) == outcome # "unknown" /\ stands(BackoffCollector, readAt[t])

\* A trip ends: it says its target failed, or did not, or nothing of it, when
\* it was refused, turned away or cut short, or panicked.
settle(t, outcome) ==
  /\ going[t] = "gone"
  /\ going' = [going EXCEPT ![t] = "idle"]
  /\ readAt' = [readAt EXCEPT ![t] = 0] /\ key' = [key EXCEPT ![t] = None]
  /\ trial' = [trial EXCEPT ![t] = None]
  /\ UNCHANGED <<force, followed>>
  /\ LET objects == TrialOver(t, outcome) IN
       \/ Counts(t, outcome) /\ outcome = "failed" /\ remember(t, objects)
       \/ /\ Counts(t, outcome) /\ outcome = "succeeded"
          /\ order' = IF StateOf(key[t]) = {} THEN order
                      ELSE Without(CHOOSE o \in StateOf(key[t]) : TRUE)
          /\ Keeps(objects)
       \/ /\ ~Counts(t, outcome)
          /\ UNCHANGED order
          /\ Keeps(objects)

\* Time passes: the wait of a target is over.
WaitPasses(o) ==
  /\ o \in Remembered /\ object[o].wait = "passing"
  /\ object' = [object EXCEPT ![o].wait = "passed"]
  /\ UNCHANGED <<force, followed, trips, order>>

-----------------------------------------------------------------------------

Outcomes == {"unknown", "failed", "succeeded"}

BackoffInit ==
  /\ FollowingInit
  /\ going = [t \in Turns |-> "idle"] /\ readAt = [t \in Turns |-> 0]
  /\ key = [t \in Turns |-> None]
  /\ trial = [t \in Turns |-> None]
  /\ object = [o \in Objects |-> Blank]
  /\ order = <<>>

BackoffNext ==
  \/ \E d \in [Names -> Definitions \cup {None}] : reloads(d)
  \/ forgetLocked
  \/ \E t \in Turns :
       \/ \E k \in CacheKeys : begins(t, k)
       \/ admit(t) \/ refuse(t)
       \/ \E outcome \in Outcomes : settle(t, outcome)
  \/ \E o \in Objects : WaitPasses(o)

BackoffSpec == BackoffInit /\ [][BackoffNext]_bvars

-----------------------------------------------------------------------------
(* Properties. *)

\* Part of TrialHeld: every variable has its type, and a trial is of its trip's
\* target.
BackoffTypeOK ==
  /\ FollowingTypeOK
  /\ going \in [Turns -> {"idle", "begun", "gone"}] /\ readAt \in [Turns -> Nat]
  /\ key \in [Turns -> CacheKeys \cup {None}] /\ trial \in [Turns -> Objects \cup {None}]
  /\ \A t \in Turns : trial[t] # None => object[trial[t]].key = key[t]
  /\ \A o \in Objects :
       /\ object[o].key \in CacheKeys \cup {None} /\ object[o].failures \in 0 .. After
       /\ object[o].wait \in {"none", "passing", "passed"}
       /\ object[o].trial \in BOOLEAN /\ object[o].read \in Nat
  /\ order \in Seq(Objects)

\* A target whose trial is in progress has the one trip that will end it: it
\* is never kept from for good by a trial that is over, nor tried twice at a
\* time, whatever forgets it and remembers it again meanwhile.
TrialHeld ==
  /\ BackoffTypeOK
  /\ \A o \in Objects :
       /\ Cardinality({t \in Turns : trial[t] = o}) = IF object[o].trial THEN 1 ELSE 0
       /\ \A t \in Turns : trial[t] = o => going[t] = "gone"

\* Part of Remembering: nothing is remembered of a definition that is gone: a
\* reload that changes the collector starts it with no failures, whatever its
\* last trips tell.
NoneRetired == \A o \in Remembered : stands(BackoffCollector, object[o].read)

\* Part of Remembering: the targets remembered are so many and no more, one
\* state each, which has failed, and which says so if it has often enough.
RememberedOnce ==
  /\ Len(order) <= Limit /\ IsInjective(order)
  /\ \A k \in CacheKeys : Cardinality(StateOf(k)) <= 1
  /\ \A o \in Remembered :
       /\ object[o].failures > 0
       /\ object[o].wait = "none" <=> object[o].failures < After

\* What is remembered is of the definition in force, and in its bounds.
Remembering == NoneRetired /\ RememberedOnce

\* The trial of a target has the one trip that ends it, and what is remembered
\* is of the definition in force, in its bounds.
BackoffHeld == TrialHeld /\ Remembering

=============================================================================
