------------------------------ MODULE PythonPool ------------------------------
(***************************************************************************)
(* The Python workers of the exporter                                      *)
(* (internal/transform/pythonworker.go): the runs of scripts that ask for  *)
(* one, wait in line for one at --python.max-workers, and give it back;    *)
(* the idle ones, which a run takes, which are stopped for their age or to *)
(* make room, and of which reloads stop those of scripts and of            *)
(* collectors that are gone; and what is counted of them.                  *)
(*                                                                         *)
(* The scripts are of one collector, and are what workers are kept by; its *)
(* statistics are told by a number, and are retired with the collector.    *)
(* What a run of a collector that is gone counts in is Departed.           *)
(***************************************************************************)
EXTENDS Integers, FiniteSets, Sequences, SequencesExt

CONSTANTS
  Runs,         \* the runs of scripts under way at a time
  Scripts,      \* the scripts the collector may have
  WorkerLimits, \* what --python.max-workers may be
  MaxIdle,      \* --python.max-idle-workers
  MaxRetained   \* bound: the reloads

ASSUME PythonAssumption ==
  /\ IsFiniteSet(Runs) /\ IsFiniteSet(Scripts)
  /\ WorkerLimits \subseteq Nat \ {0} /\ {MaxIdle, MaxRetained} \subseteq Nat

VARIABLES
  script,    \* the one of the configuration in force, none without the collector
  stay,      \* the number of the statistics kept, Departed without the collector
  under,     \* of each script, the statistics it was last in force with, if any
  pending,   \* what the reload under way has yet to have the pool do
  reloads,   \* how many there were
  run,       \* what each run is doing
  maxWorkers, \* PythonPool.maxWorkers
  idle,      \* PythonPool.idle, the one idle longest first
  line,      \* PythonPool.waiting
  live,      \* PythonPool.live
  obsolete,  \* PythonPool.obsolete
  tally      \* PythonPool.stats, and departed

ofReloads == <<script, stay, under, pending, reloads>>
pvars  == <<ofReloads, run, maxWorkers, idle, line, live, obsolete, tally>>

Departed == 0
Worker(k, s) == [script |-> k, stats |-> s]
Away == [at |-> "away"]
Numbers == 0..(MaxRetained + 1)

PythonInit ==
  /\ script \in {{}} \cup {{k} : k \in Scripts}
  /\ stay = IF script = {} THEN Departed ELSE 1
  /\ under = [k \in Scripts |-> IF k \in script THEN stay ELSE Departed]
  /\ pending = {} /\ reloads = 0
  /\ run = [r \in Runs |-> Away]
  /\ maxWorkers \in WorkerLimits /\ idle = <<>> /\ line = <<>> /\ live = 0 /\ obsolete = {}
  /\ tally = [s \in Numbers |-> [starting |-> 0, busy |-> 0, alive |-> 0]]

-----------------------------------------------------------------------------
(* What the steps share, which hold the pool's mutex. *)

Retired(s) == s = Departed \/ s # stay

\* countedLocked.
countedLocked_Own(s) == s
countedLocked(s) == IF Retired(s) THEN Departed ELSE s

Counted(c, s, field, n) == [c EXCEPT ![countedLocked(s)][field] = @ + n]

\* The stops of workers are counted, each where it is counted.
StopsCounted(c, workers) ==
  [s \in Numbers |->
     [c[s] EXCEPT !.alive =
        @ - Cardinality({i \in DOMAIN workers : countedLocked(workers[i].stats) = s})]]

\* Those in use.
Busy(runs, k) == {r \in Runs : runs[r].at = "busy" /\ runs[r].of.script = k}

\* notifyLocked, as often: the first in line are woken.
notifyLocked(runs, n) ==
  /\ line' = SubSeq(line, n + 1, Len(line))
  /\ run' = [r \in Runs |-> IF \E i \in 1..n : i <= Len(line) /\ line[i] = r
                              THEN [runs[r] EXCEPT !.at = "woken"]
                              ELSE runs[r]]

\* unbusyLocked: the script of a run that ends is obsolete no more when no
\* other run is of it.
unbusyLocked(r) ==
  LET k == run[r].of.script
  IN obsolete' = IF Busy(run, k) = {r} THEN obsolete \ {k} ELSE obsolete

-----------------------------------------------------------------------------
(* A run. *)

\* A trip hands the run a script, which it may have read before a reload, and
\* the statistics; a debug probe and a trip whose collector is gone Departed.
begin(r, k, s) ==
  /\ run[r].at = "away"
  /\ s \in {Departed, stay} /\ (s # Departed => under[k] = s)
  /\ run' = [run EXCEPT ![r] = [at |-> "asks", of |-> Worker(k, s), reused |-> FALSE]]
  /\ UNCHANGED <<ofReloads, idle, line, live, obsolete, tally>>

\* The idle workers without some of them, in the order they had.
IdleWithout(gone) ==
  LET left == DOMAIN idle \ gone
      place(j) == Cardinality({l \in left : l <= j})
  IN [i \in 1..Cardinality(left) |-> idle[CHOOSE j \in left : place(j) = i]]

\* The idle workers a run may have, the last n of them.
FitFor_Script(r) == {i \in DOMAIN idle : idle[i].script = run[r].of.script}
FitFor(r) == {i \in DOMAIN idle : idle[i] = run[r].of}
LastFit(r, n) == {i \in FitFor(r) : Cardinality({j \in FitFor(r) : j > i}) < n}

RunGoes(r, to) == [run EXCEPT ![r].at = to]

\* It is given the one that went idle last, but for some that have died.
reuseWorker(r, died) ==
  LET dead == [i \in 1..died |-> run[r].of]
  IN
  /\ idle' = IdleWithout(LastFit(r, died + 1))
  /\ live' = live - died
  /\ tally' = Counted(StopsCounted(tally, dead), run[r].of.stats, "busy", 1)
  /\ notifyLocked([run EXCEPT ![r].at = "busy", ![r].reused = TRUE], died)

\* It starts one, for which the one idle longest is stopped at the limit.
startWorker(r, died) ==
  LET dead == [i \in 1..died |-> run[r].of]
      rest == IdleWithout(FitFor(r))
      stops == IF live - died < maxWorkers THEN dead ELSE Append(dead, Head(rest))
  IN
  /\ live - died < maxWorkers \/ rest # <<>>
  /\ idle' = IF live - died < maxWorkers THEN rest ELSE Tail(rest)
  /\ live' = live - Len(stops) + 1
  /\ tally' = Counted(StopsCounted(tally, stops), run[r].of.stats, "starting", 1)
  /\ notifyLocked([run EXCEPT ![r].at = "starting", ![r].reused = FALSE], Len(stops))

\* It waits: at the head of the line when it was woken, for another to have
\* taken what it was woken for.
waitInLine(r) ==
  /\ live >= maxWorkers /\ idle = <<>>
  /\ line' = IF run[r].at = "woken" THEN <<r>> \o line ELSE Append(line, r)
  /\ run' = RunGoes(r, "waits")
  /\ UNCHANGED <<idle, live, tally>>

\* acquire, under the mutex.  What it does first, reapLocked, is reap.
acquireWorker(r) ==
  /\ run[r].at \in {"asks", "woken"}
  /\ LET fit == Cardinality(FitFor(r))
     IN \/ \E died \in 0..(fit - 1) : reuseWorker(r, died)
        \/ startWorker(r, fit)
        \/ fit = 0 /\ waitInLine(r)
  /\ UNCHANGED <<ofReloads, obsolete>>

\* The run's context ends: a wake it was given goes to the next in line.
leaveLine_Keeping(r) ==
  /\ \/ run[r].at = "waits" /\ line' = RemoveAt(line, CHOOSE i \in DOMAIN line : line[i] = r)
     \/ run[r].at = "woken" /\ UNCHANGED line
  /\ run' = [run EXCEPT ![r] = Away]
  /\ UNCHANGED <<ofReloads, idle, live, obsolete, tally>>

leaveLine(r) ==
  /\ \/ /\ run[r].at = "waits"
        /\ line' = RemoveAt(line, CHOOSE i \in DOMAIN line : line[i] = r)
        /\ run' = [run EXCEPT ![r] = Away]
     \/ /\ run[r].at = "woken"
        /\ notifyLocked([run EXCEPT ![r] = Away], 1)
  /\ UNCHANGED <<ofReloads, idle, live, obsolete, tally>>

\* The worker is started, or fails to.
workerStarted(r) ==
  LET s == run[r].of.stats
      over == Counted(tally, s, "starting", -1)
  IN
  /\ run[r].at = "starting"
  /\ \/ /\ run' = RunGoes(r, "busy")
        /\ tally' = Counted(Counted(over, s, "busy", 1), s, "alive", 1)
        /\ UNCHANGED <<line, live>>
     \/ /\ live' = live - 1
        /\ tally' = over
        /\ notifyLocked([run EXCEPT ![r] = Away], 1)
  /\ UNCHANGED <<ofReloads, idle, obsolete>>

\* A busy worker is stopped as its run ends.
stopLocked(r, to) ==
  LET w == run[r].of
  IN
  /\ live' = live - 1
  /\ tally' = Counted(StopsCounted(tally, <<w>>), w.stats, "busy", -1)
  /\ notifyLocked([run EXCEPT ![r] = to], 1)
  /\ UNCHANGED idle

\* discard: the call fails, or was the worker's last; a run that was given a
\* worker that had died while it was idle asks for another.
discard(r) ==
  /\ run[r].at = "busy"
  /\ \/ stopLocked(r, Away)
     \/ run[r].reused /\ stopLocked(r, [run[r] EXCEPT !.at = "asks"])
  /\ unbusyLocked(r)
  /\ UNCHANGED ofReloads

\* The workers of the script that are idle.
IdleWorkers(k) == {i \in DOMAIN idle : idle[i].script = k}

\* release: the worker is stopped when a reload removed its script or its
\* collector, or enough are idle, and is idle otherwise.
Unwanted_Obsolete(w) ==
  w.script \in obsolete \/ Cardinality(IdleWorkers(w.script)) >= MaxIdle
Unwanted(w) ==
  \/ w.script \in obsolete \/ Retired(w.stats)
  \/ Cardinality(IdleWorkers(w.script)) >= MaxIdle

releaseWorker(r) ==
  LET w == run[r].of
  IN
  /\ run[r].at = "busy"
  /\ IF Unwanted(w)
       THEN stopLocked(r, Away)
       ELSE /\ idle' = Append(idle, w)
            /\ tally' = Counted(tally, w.stats, "busy", -1)
            /\ notifyLocked([run EXCEPT ![r] = Away], 1)
            /\ UNCHANGED live
  /\ unbusyLocked(r)
  /\ UNCHANGED ofReloads

-----------------------------------------------------------------------------
(* The age of idle workers, and reloads. *)

\* Idle workers are stopped.
Stops(gone) ==
  LET going == {i \in DOMAIN idle : i \in gone}
  IN
  /\ idle' = IdleWithout(going)
  /\ live' = live - Cardinality(going)
  /\ notifyLocked(run, Cardinality(going))

\* reapLocked: those that have been idle for too long.
reap(n) ==
  /\ n \in 1..Len(idle)
  /\ Stops(1..n)
  /\ tally' = StopsCounted(tally, [i \in 1..n |-> idle[i]])
  /\ UNCHANGED <<ofReloads, obsolete>>

\* A configuration with another script, or without the collector, or with it
\* again, is in force.
reloadScript(to) ==
  /\ pending = {} /\ reloads < MaxRetained /\ to # script
  /\ reloads' = reloads + 1
  /\ script' = to
  /\ stay' = IF script = {} THEN reloads' + 1 ELSE stay
  /\ under' = [k \in Scripts |-> IF k \in to THEN stay' ELSE under[k]]
  /\ pending' = IF to = {} THEN {"retain", "retire"} ELSE {"retain"}
  /\ UNCHANGED <<run, idle, line, live, obsolete, tally>>

\* Retain, by the configuration manager.
Retain ==
  LET gone == {i \in DOMAIN idle : idle[i].script \notin script}
  IN
  /\ "retain" \in pending /\ pending' = pending \ {"retain"}
  /\ obsolete' = (obsolete \ script) \cup {k \in Scripts \ script : Busy(run, k) # {}}
  /\ Stops(gone)
  /\ tally' = StopsCounted(tally, [i \in gone |-> idle[i]])
  /\ UNCHANGED <<script, stay, under, reloads>>

\* Retire, by whatever follows the configuration first.
Retire_Counts ==
  /\ "retire" \in pending /\ pending' = pending \ {"retire"}
  /\ stay' = Departed
  /\ tally' = [tally EXCEPT ![stay] = [f \in DOMAIN @ |-> 0],
                              ![Departed] = [f \in DOMAIN @ |-> @[f] + tally[stay][f]]]
  /\ UNCHANGED <<script, under, reloads, run, idle, line, live, obsolete>>

Retire ==
  LET moved == [tally EXCEPT ![stay] = [f \in DOMAIN @ |-> 0],
                              ![Departed] = [f \in DOMAIN @ |-> @[f] + tally[stay][f]]]
      gone == {i \in DOMAIN idle : idle[i].stats = stay}
  IN
  /\ "retire" \in pending /\ pending' = pending \ {"retire"}
  /\ stay' = Departed
  /\ Stops(gone)
  /\ tally' = [moved EXCEPT ![Departed].alive = @ - Cardinality(gone)]
  /\ UNCHANGED <<script, under, reloads, obsolete>>

PythonSteps ==
  \/ \E r \in Runs :
       \/ \E k \in Scripts, s \in Numbers : begin(r, k, s)
       \/ acquireWorker(r) \/ leaveLine(r)
       \/ workerStarted(r) \/ discard(r) \/ releaseWorker(r)
  \/ \E n \in DOMAIN idle : reap(n)
  \/ \E to \in {{}} \cup {{k} : k \in Scripts} : reloadScript(to)
  \/ Retain \/ Retire

PythonNext == PythonSteps /\ UNCHANGED maxWorkers

PythonSpec == PythonInit /\ [][PythonNext]_pvars

-----------------------------------------------------------------------------
(* What must hold. *)

Are(where) == {r \in Runs : run[r].at = where}

\* Part of WorkersServe: every worker has one place, of as many as there may
\* be, whether it is starting, busy or idle; scripts keep no more idle workers
\* than they may; and one that is obsolete has workers, none of them idle.
PlacesCounted ==
  /\ live = Cardinality(Are("starting")) + Cardinality(Are("busy")) + Len(idle)
  /\ live <= maxWorkers
  /\ \A k \in Scripts : Cardinality(IdleWorkers(k)) <= MaxIdle
  /\ \A k \in obsolete : Busy(run, k) # {} /\ IdleWorkers(k) = {}

\* Part of WorkersServe: what is counted of a collector is of the workers
\* started for it, and of the others Departed, which keeps none idle.
CountsOfStay ==
  /\ \A s \in Numbers :
       LET of(where) == {r \in Are(where) : countedLocked(run[r].of.stats) = s}
           its == {i \in DOMAIN idle : idle[i].stats = s}
       IN tally[s] = [starting |-> Cardinality(of("starting")),
                      busy |-> Cardinality(of("busy")),
                      alive |-> Cardinality(of("busy")) + Cardinality(its)]
  /\ \A i \in DOMAIN idle : ~Retired(idle[i].stats)

\* Part of WorkersServe: no run waits while it could go on: as many of those in
\* line as there are places and idle workers have been woken, and have yet to
\* look.
NoWakeLost ==
  line # <<>> => Cardinality(Are("woken")) >= maxWorkers - live + Len(idle)

\* The pool's counts are those of its workers, of the places they have and of
\* what each collector, as long as it is there, is shown to have started; and
\* what they leave free is given to those that wait.
WorkersServe == PlacesCounted /\ CountsOfStay /\ NoWakeLost

=============================================================================
