--------------------------- MODULE MCStaticScrapes ---------------------------
(***************************************************************************)
(* What a scrape of a static target goes through, for TLC: the schedule    *)
(* sets it off, it waits in line for the slot of a trip, and its points    *)
(* wait to go out over OTLP.  These share no state, so a behaviour is of   *)
(* one of them.                                                            *)
(***************************************************************************)
EXTENDS StaticSchedule, TripLimiter, OTLPQueue

VARIABLE part

CONSTANTS a, b, s1, s2, s3, s4, p1

MCTargets == {1}
MCHash == [t \in Targets |-> t]

\* The slots of a are contended for by three scrapes and the probe.
MCScrapes == {s1, s2, s3, s4}
MCProbes == {p1}
MCCollectors == {a, b}
MCCollectorOf(t) == IF t = s3 THEN b ELSE a

\* A reload changes the limit of a between 1 and 2.
MCLimitsOf(c) == IF c = a THEN {1, 2} ELSE {1}

\* All behaviours but those of the schedule have a schedule that is over;
\* those of the slots have either the fourth scrape or the probe.
MCInit ==
  /\ \/ part = "schedule" /\ ScheduleInit
     \/ part \in {"scrapes", "probe", "points"} /\ Unplanned /\ loop = Left /\ stop = "stopped"
  /\ concurrency = 1
  /\ Init
  /\ QueueInit

MCNext ==
  \/ part = "schedule" /\ ScheduleNext /\ UNCHANGED <<part, vars, qvars>>
  \/ part = "schedule" /\ stop = "stopped" /\ UNCHANGED <<part, svars, vars, qvars>>
  \/ /\ part \in {"scrapes", "probe"} /\ Next /\ UNCHANGED <<part, svars, qvars>>
     /\ at'[IF part = "scrapes" THEN p1 ELSE s4] = "idle"
  \/ part = "points" /\ QueueNext /\ UNCHANGED <<part, svars, vars>>

MCSpec ==
  /\ MCInit /\ [][MCNext]_<<part, svars, vars, qvars>>
  /\ ScheduleFairness /\ Fairness

=============================================================================
