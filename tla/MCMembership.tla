------------------------------ MODULE MCMembership ------------------------------
(***************************************************************************)
(* Membership for TLC: three replicas, two versions of the input files and *)
(* two static targets, placed as Placement places them.                    *)
(***************************************************************************)
EXTENDS Membership

MCMembers  == {1, 2, 3}
MCTwo      == {1, 2}
MCTargets  == {"t", "u"}
MCInputs   == {"v1", "v2"}
MCOneInput == {"v1"}

\* The second version has the first's targets, one of them under another
\* shard key, and its own configuration.
MCTargetsOf(v) == MCTargets
MCIntervalOf(v, t) == IF t = "t" THEN 1 ELSE 2
MCbundleOf(v, share) == [config |-> v, static |-> share]

shardKey(v, t) == IF t = "t" THEN IF v = "v1" THEN 1 ELSE 3 ELSE 2

MCScore(m, k) == (5 * m * m + 3 * k + 7 * m * k) % 16

P == INSTANCE Placement WITH
       Keys <- 1 .. 3, Names <- MCMembers,
       Score <- MCScore, unitOrder <- LAMBDA k : k, rank <- LAMBDA x : x,
       HashBits <- 4, LogBits <- 2, Milli <- 4

Placed(v, list) ==
  LET keys  == {shardKey(v, t) : t \in MCTargetsOf(v)}
      owner == P!place([k \in keys |-> 4], list, 5).owner
  IN  IF list = NoMembers THEN NoMembers
      ELSE [t \in MCTargetsOf(v) |-> owner[shardKey(v, t)]]

\* Every placement there is, worked out once.
MCPlacements == {<<v, list, Placed(v, list)>> : v \in MCInputs, list \in MemberLists}

MCPlace(v, list) == (CHOOSE p \in MCPlacements : p[1] = v /\ p[2] = list)[3]

=============================================================================
