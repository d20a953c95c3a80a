---------------------------------- MODULE Sums ----------------------------------
(***************************************************************************)
(* What the pool's connections in use, and the weights and capacities of   *)
(* a placement, add up to.                                                 *)
(***************************************************************************)
EXTENDS Integers, FiniteSets

\* The sum of the numbers a function takes, none of them negative.
SumOf(f) == Cardinality(UNION {{x} \X (1 .. f[x]) : x \in DOMAIN f})

=============================================================================
