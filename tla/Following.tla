------------------------------ MODULE Following ------------------------------
(***************************************************************************)
(* The configuration in force and the one the exporter's per-collector     *)
(* state follows (internal/exporter/reconcile.go), as those that keep such *)
(* state are promised it: following a reload is one step, in which what is *)
(* kept for the collectors the reload retired is dropped.  Reconcile shows *)
(* that the steps of the code are such a step.                             *)
(*                                                                         *)
(* Configurations are told apart by n, as the code tells them by their     *)
(* pointers, and say what defines each collector, None for one they lack.  *)
(***************************************************************************)
EXTENDS Naturals

CONSTANTS
  Names,         \* collector names
  Definitions,   \* what may define a collector (its fingerprint)
  None,
  MaxReloads     \* bound: reloads

ASSUME FollowingAssumption ==
  None \notin Definitions /\ MaxReloads \in Nat

VARIABLES
  force,     \* the configuration in force (config.Manager)
  followed   \* the one followed: followedConfig, as [config, generation, defined]

following == <<force, followed>>

Config == [n : 0 .. MaxReloads, defs : [Names -> Definitions \cup {None}]]

Named(cfg) == {c \in Names : cfg.defs[c] # None}

\* From which generation each collector of cfg has had its definition.
definedFrom(previous, cfg, generation) ==
  [c \in Named(cfg) |-> IF previous.config.defs[c] = cfg.defs[c]
                          THEN previous.defined[c] ELSE generation]

\* The following of cfg, when previous is followed.
planFollowing(previous, cfg) ==
  [config     |-> cfg,
   generation |-> previous.generation + 1,
   defined    |-> definedFrom(previous, cfg, previous.generation + 1)]

\* The collectors a following retires: those gone, and those changed.
stale(previous, next) ==
  {c \in Named(previous.config) : next.config.defs[c] # previous.config.defs[c]}

\* Whether collector c is still the one read at a generation.
stands(c, generation) ==
  c \in DOMAIN followed.defined /\ followed.defined[c] <= generation

\* A reload puts a configuration in force.  The one before it was followed
\* first: reloads are made one at a time, and each follows what it installs.
Install(defs) ==
  /\ followed.config = force
  /\ force.n < MaxReloads
  /\ force' = [n |-> force.n + 1, defs |-> defs]
  /\ UNCHANGED followed

\* Whoever comes first follows it.
Follow ==
  /\ followed.config # force
  /\ followed' = planFollowing(followed, force)
  /\ UNCHANGED force

\* The exporter starts following the configuration it starts with.
FollowingInit ==
  /\ force \in {[n |-> 0, defs |-> d] : d \in [Names -> Definitions \cup {None}]}
  /\ followed = [config |-> force, generation |-> 1,
                 defined |-> [c \in Named(force) |-> 1]]

FollowingNext == Follow \/ \E d \in [Names -> Definitions \cup {None}] : Install(d)

FollowingSpec == FollowingInit /\ [][FollowingNext]_following

FollowingTypeOK ==
  /\ force \in Config
  /\ followed.config \in Config /\ followed.generation \in Nat \ {0}
  /\ followed.defined \in [Named(followed.config) -> 1 .. followed.generation]

=============================================================================
