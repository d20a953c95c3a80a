---------------------------- MODULE MCConnections ----------------------------
(***************************************************************************)
(* What trips keep for those after them, for TLC: the connections of a sql *)
(* collector, to two databases by two scrapes or to three by one; the      *)
(* token of a login; and the Python workers.  They share no state, so a    *)
(* behaviour is of one part, and their values may be the same.             *)
(***************************************************************************)
EXTENDS SQLConnections, LoginCache, PythonPool

VARIABLE part

CONSTANTS a1, a2, a3, b1, b2

MCDatabases == {a1, a2, a3}
MCScrapes == {b1, b2}

MCInit ==
  /\ part \in {"scrapes", "databases", "login", "python"}
  /\ SQLInit /\ LoginInit /\ PythonInit
  /\ part # "python" => script = {} /\ maxWorkers = 1

MCNext ==
  /\ UNCHANGED part
  /\ \/ /\ part = "scrapes" /\ SQLNext /\ UNCHANGED <<lvars, pvars>>
        /\ Cardinality({p[1] : p \in DOMAIN pools'}) <= 2
        /\ closed' = 0 \/ agent'[Pinger].at = "rests"
     \/ /\ part = "databases" /\ SQLNext /\ UNCHANGED <<lvars, pvars>>
        /\ Cardinality({s \in SQLScrapes : agent'[s].at # "rests"}) <= 1
     \/ part = "login" /\ LoginNext /\ UNCHANGED <<sqlvars, pvars>>
     \/ part = "python" /\ PythonNext /\ UNCHANGED <<sqlvars, lvars>>

MCSpec == MCInit /\ [][MCNext]_<<part, sqlvars, lvars, pvars>>

Symmetric == Permutations(MCDatabases) \cup Permutations(MCScrapes)

=============================================================================
