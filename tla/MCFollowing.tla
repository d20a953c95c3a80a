----------------------------- MODULE MCFollowing -----------------------------
(***************************************************************************)
(* What follows reloads, for TLC: the following of them, with probes that  *)
(* follow with the reload; the trips that identical probes share; and what *)
(* is remembered of two failing targets, of which one is at a time, so     *)
(* that each failure may forget the other's.  They share no state but the  *)
(* configuration that is followed, so a behaviour is of one part.          *)
(***************************************************************************)
EXTENDS Reconcile, ProbeSharing, FailureBackoff, TLC

VARIABLE part

CONSTANTS c, d1, d2, k1, k2, t1, t2, reload

MCNames == {c}
MCDefinitions == {d1, d2}
MCKeys == {k1, k2}
MCTrips == {t1, t2}

shared  == <<probes, flights, trip, entry>>
backoff == <<trips, object, order>>

\* Probes and trips to failing targets see a reload followed in one step, when
\* what Reconcile follows it by is as a following leaves it.
InOneStep ==
  /\ since' = followed'.defined /\ applied' = followed'.generation
  /\ UNCHANGED <<doing, asked, cfg, mine, stats, kept>>

MCInit ==
  /\ part \in {"following", "probes", "backoff"}
  /\ ReconcileInit /\ Init /\ BackoffInit

MCNext ==
  /\ UNCHANGED part
  /\ \/ part = "following" /\ ReconcileNext /\ UNCHANGED <<shared, backoff>>
     \/ part = "probes" /\ Next /\ force'.n <= 2 /\ InOneStep /\ UNCHANGED backoff
     \/ part = "backoff" /\ BackoffNext /\ force'.n <= 2 /\ InOneStep /\ UNCHANGED shared

MCSpec == MCInit /\ [][MCNext]_<<part, rvars, vars, bvars>>

Symmetric ==
  Permutations(MCTrips) \cup Permutations(MCKeys) \cup Permutations(MCDefinitions)

=============================================================================
