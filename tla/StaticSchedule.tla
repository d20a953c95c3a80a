--------------------------- MODULE StaticSchedule ---------------------------
(***************************************************************************)
(* The schedule of the static targets                                      *)
(* (internal/exporter/statictargetschedule.go): the loop that looks which  *)
(* targets are due, the scrapes it sets off, each a goroutine that waits   *)
(* for one of the file's slots, the flag by which the end of a scrape      *)
(* wakes the loop, reloads that change, remove and bring back targets or   *)
(* change the number of slots, and the shutdown.                           *)
(*                                                                         *)
(* Times are kept as what is left until them, and are past when negative.  *)
(* Time passes while the loop sleeps, which it may do too long.  A reload  *)
(* waits for a look to end: the look reads what is in force once, and a    *)
(* scrape it sets off is held to that, whenever the reload comes after.    *)
(***************************************************************************)
EXTENDS Integers, FiniteSets, FiniteSetsExt

CONSTANTS
  Targets,        \* the targets there may be, in the file's order
  Intervals,      \* the intervals a target may be given
  Hash,           \* of the name of each target
  FirstWindow,    \* firstScrapeWindow
  CheckInterval,  \* scheduleCheckInterval
  LateShare,      \* lateFirstScrapeShare
  Limits,         \* the concurrencies the file may be given
  NoState,        \* a target the schedule does not know
  MaxReloads,     \* bound: the reloads
  Overrun,        \* bound: how long after its deadline a scrape may end
  Stall           \* bound: how late the loop may wake

ASSUME ScheduleAssumption ==
  /\ IsFiniteSet(Targets) /\ Targets \subseteq Nat
  /\ Intervals \subseteq Nat \ {0} /\ Limits \subseteq Nat \ {0}
  /\ Hash \in [Targets -> Nat]
  /\ {FirstWindow, CheckInterval} \subseteq Nat \ {0}
  /\ LateShare \in Nat /\ LateShare > 1
  /\ {MaxReloads, Overrun, Stall} \subseteq Nat

ASSUME NoStateAssumption ==
  NoState \notin [since : Nat, interval : Int, next : Int, cadence : Int, first : BOOLEAN,
                  putOff : BOOLEAN, waiting : BOOLEAN, until : Int]

VARIABLES
  generation,  \* followedConfig.generation
  stay,        \* the generation each target has been as it is since, 0 for none
  interval,    \* of each target
  concurrency, \* of the file in force
  schedule,    \* targetSchedule.states
  planned,     \* the generation the schedule was last brought in step with
  running,     \* staticTargetState.running, of the state each target has
  awaited,     \* staticTargetState.awaited
  loop,        \* where the loop is
  timer,       \* what is left until it wakes by itself
  ended,       \* the channel that wakes it holds a signal
  slots,       \* the channel of slots scrapes are given, told by its number
  scrapes,     \* the scrapes in flight
  stop         \* how far the shutdown is

inForce  == <<generation, stay, interval, concurrency>>
flags    == <<running, awaited>>
svars    == <<inForce, schedule, planned, flags, loop, timer, ended, slots, scrapes, stop>>

Asleep   == [at |-> "asleep", todo |-> {}]
Left     == [at |-> "left", todo |-> {}]
Plan(S)  == [at |-> "plan", todo |-> S]
Of(t)    == {s \in scrapes : s.target = t /\ s.own}
Defined  == {t \in Targets : stay[t] # 0}

\* Nothing has been planned yet.
Unplanned ==
  /\ generation = 1
  /\ stay = [t \in Targets |-> 1] /\ interval \in [Targets -> Intervals]
  /\ concurrency \in Limits
  /\ schedule = [t \in Targets |-> NoState] /\ planned = 0
  /\ running = [t \in Targets |-> FALSE] /\ awaited = [t \in Targets |-> FALSE]
  /\ timer = 0 /\ ended = FALSE
  /\ slots = [number |-> 0, limit |-> 0]
  /\ scrapes = {}

ScheduleInit == Unplanned /\ loop = Asleep /\ stop = "no"

-----------------------------------------------------------------------------
(* One look of the loop. *)

\* The loop wakes, and makes the channel of slots anew for another concurrency.
\* It may wake once more though it is to stop.
wakes ==
  /\ loop = Asleep
  /\ ended \/ timer <= 0
  /\ ended' = FALSE
  /\ slots' = IF slots.limit = concurrency
                THEN slots
                ELSE [number |-> slots.number + 1, limit |-> concurrency]
  /\ loop' = Plan(Defined)
  /\ UNCHANGED <<inForce, schedule, planned, flags, timer, scrapes, stop>>

\* scheduleOffset.
scheduleOffset(t, within) == Hash[t] % within

\* A target new to the schedule, or one of another stay than its state's,
\* starts again.
Restarts(t) ==
  \/ schedule[t] = NoState
  \/ planned # generation /\ stay[t] > schedule[t].since

Started(t) ==
  [since |-> stay[t], interval |-> interval[t],
   next |-> scheduleOffset(t, Min({interval[t], FirstWindow})),
   cadence |-> scheduleOffset(t, interval[t]),
   first |-> TRUE, putOff |-> FALSE, waiting |-> FALSE, until |-> 0]

\* The state a look has of a target.
Looked(t) == IF Restarts(t) THEN Started(t) ELSE schedule[t]

\* The first point of a cadence from a time on.
CadenceFrom(point, every, time) ==
  IF point >= time THEN point ELSE point + every * ((time - point + every - 1) \div every)

\* Began, but for a first scrape made late.
Began_Due(st) == st.next

\* When the first scrape of a target, made now, counts as begun.
Began(st) == IF st.putOff \/ -st.next > st.interval \div LateShare THEN 0 ELSE st.next

\* The state once the first scrape is set off.
AfterFirst(st) ==
  [st EXCEPT !.next = CadenceFrom(st.cadence, st.interval, Began(st) + st.interval),
             !.cadence = 0, !.first = FALSE, !.putOff = FALSE]

\* The state once a turn of the cadence has come.
AtTurn(st) ==
  LET next == CadenceFrom(st.next, st.interval, 1)
  IN [st EXCEPT !.next = next, !.waiting = TRUE, !.until = next]

\* A scrape of the target is set off, to end by a deadline.
SetOff(t, deadline) ==
  /\ running' = [running EXCEPT ![t] = TRUE]
  /\ scrapes' = scrapes \cup
       {[target |-> t, own |-> TRUE, asked |-> FALSE, read |-> generation,
         left |-> deadline, slots |-> slots, at |-> "slot"]}

\* The look at one target goes on to the next one with the target's state.
Goes(t, st) ==
  /\ schedule' = [schedule EXCEPT ![t] = st]
  /\ loop' = Plan(loop.todo \ {t})

\* What waits for the target's scrape to have ended is set off: the first
\* scrape, or a turn, with what is left of it unless it came just now.
Sets(t, st, came) ==
  IF st.first
    THEN Goes(t, AfterFirst(st)) /\ SetOff(t, st.interval)
    ELSE /\ Goes(t, [st EXCEPT !.waiting = FALSE, !.until = 0])
         /\ SetOff(t, IF came THEN st.interval ELSE st.until)

\* InFlight, but for a target that starts.
InFlight_Turn(t) == running[t] /\ ~Looked(t).first

\* Whether a scrape of the target runs, at the first look at its flag.
InFlight(t) == running[t]

\* planFollowed, of one target, as far as that look.
plan(t) ==
  LET st   == Looked(t)
      came == st.next <= 0 /\ ~st.first
      now  == IF came THEN AtTurn(st) ELSE st
  IN
  /\ loop.at = "plan" /\ t \in loop.todo
  /\ \A other \in loop.todo : t <= other
  /\ IF (now.first /\ now.next > 0) \/ (~now.first /\ ~now.waiting)
       THEN Goes(t, now) /\ UNCHANGED <<running, scrapes>>
       ELSE IF InFlight(t)
              THEN /\ schedule' = [schedule EXCEPT ![t] = now]
                   /\ loop' = [at |-> "ask", todo |-> loop.todo, target |-> t, came |-> came]
                   /\ UNCHANGED <<running, scrapes>>
              ELSE Sets(t, now, came)
  /\ UNCHANGED <<inForce, planned, awaited, timer, ended, slots, stop>>

\* awaitScrape asks for the loop to be woken, and then looks again.
ask ==
  /\ loop.at = "ask"
  /\ awaited' = [awaited EXCEPT ![loop.target] = TRUE]
  /\ loop' = [loop EXCEPT !.at = "again"]
  /\ UNCHANGED <<inForce, schedule, planned, running, timer, ended, slots, scrapes, stop>>

\* StillRunning, but for the second look.
StillRunning_Asked(t) == TRUE

\* What it finds then.
StillRunning(t) == running[t]

\* A first scrape that finds another in flight is put off; a turn waits.
again ==
  /\ loop.at = "again"
  /\ LET t == loop.target
         st == schedule[t]
     IN IF StillRunning(t)
          THEN /\ Goes(t, [st EXCEPT !.putOff = st.first])
               /\ UNCHANGED <<running, scrapes>>
          ELSE Sets(t, st, loop.came)
  /\ UNCHANGED <<inForce, planned, awaited, timer, ended, slots, stop>>

\* When the target is to be looked at again.
Look(st) == IF st.first /\ st.next <= 0 THEN CheckInterval ELSE st.next

\* The look ends: targets no longer in force are forgotten, and the loop
\* sleeps.  A scrape of a forgotten one goes on with the flag it had.
sleep ==
  /\ loop = Plan({})
  /\ schedule' = [t \in Targets |-> IF t \in Defined THEN schedule[t] ELSE NoState]
  /\ scrapes' = {IF s.target \in Defined \/ ~s.own THEN s
                 ELSE [s EXCEPT !.own = FALSE, !.asked = awaited[s.target]] : s \in scrapes}
  /\ running' = [t \in Targets |-> running[t] /\ t \in Defined]
  /\ awaited' = [t \in Targets |-> awaited[t] /\ t \in Defined]
  /\ planned' = generation
  /\ loop' = Asleep
  /\ timer' = Max({0, Min({CheckInterval} \cup {Look(schedule[t]) : t \in Defined})})
  /\ UNCHANGED <<inForce, ended, slots, stop>>

-----------------------------------------------------------------------------
(* A scrape, and the shutdown. *)

Moves(s, to) == scrapes' = (scrapes \ {s}) \cup {[s EXCEPT !.at = to]}

\* A slot of the channel the scrape was given.  Taken as the loop stops, it is
\* given back.
takeSlot(s) ==
  /\ s.at = "slot"
  /\ Cardinality({r \in scrapes : r.at = "scraping" /\ r.slots = s.slots}) < s.slots.limit
  /\ Moves(s, IF stop = "no" THEN "scraping" ELSE "over")
  /\ UNCHANGED <<inForce, schedule, planned, flags, loop, timer, ended, slots, stop>>

\* giveUp, but for scrapeEnded, had it been deferred where the slot is.
giveUp_Running(s) ==
  /\ s.at = "slot"
  /\ s.left <= 0 \/ stop # "no"
  /\ scrapes' = scrapes \ {s}
  /\ UNCHANGED <<inForce, schedule, planned, flags, loop, timer, ended, slots, stop>>

\* No slot came free by the deadline, or the exporter stops.
giveUp(s) ==
  /\ s.at = "slot"
  /\ s.left <= 0 \/ stop # "no"
  /\ Moves(s, "over")
  /\ UNCHANGED <<inForce, schedule, planned, flags, loop, timer, ended, slots, stop>>

\* The scrape is made, or is cut short, and its slot is free.
scraped(s) ==
  /\ s.at = "scraping"
  /\ Moves(s, "over")
  /\ UNCHANGED <<inForce, schedule, planned, flags, loop, timer, ended, slots, stop>>

\* scrapeEnded: the flag is cleared ...
clearRunning(s) ==
  /\ s.at = "over"
  /\ running' = IF s.own THEN [running EXCEPT ![s.target] = FALSE] ELSE running
  /\ Moves(s, "wake")
  /\ UNCHANGED <<inForce, schedule, planned, awaited, loop, timer, ended, slots, stop>>

\* ... and the loop woken when it waits for that.
wakeLoop(s) ==
  LET asked == IF s.own THEN awaited[s.target] ELSE s.asked
  IN
  /\ s.at = "wake"
  /\ awaited' = IF s.own THEN [awaited EXCEPT ![s.target] = FALSE] ELSE awaited
  /\ ended' = (ended \/ asked)
  /\ scrapes' = scrapes \ {s}
  /\ UNCHANGED <<inForce, schedule, planned, running, loop, timer, slots, stop>>

\* stopLoops, and AbortStaticScrapes at once after it.
stops ==
  /\ stop = "no"
  /\ stop' = "stopping"
  /\ UNCHANGED <<inForce, schedule, planned, flags, loop, timer, ended, slots, scrapes>>

\* The loop looks no more ...
leaves ==
  /\ loop = Asleep /\ stop = "stopping"
  /\ loop' = Left
  /\ UNCHANGED <<inForce, schedule, planned, flags, timer, ended, slots, scrapes, stop>>

\* ... and returns once its scrapes have ended.
returns ==
  /\ loop = Left /\ scrapes = {}
  /\ stop = "stopping" /\ stop' = "stopped"
  /\ UNCHANGED <<inForce, schedule, planned, flags, loop, timer, ended, slots, scrapes>>

-----------------------------------------------------------------------------
(* Reloads and time. *)

\* A target is changed, its interval with it, or brought back.
changeTarget(t, i) ==
  /\ stay' = [stay EXCEPT ![t] = generation + 1]
  /\ interval' = [interval EXCEPT ![t] = i]
  /\ UNCHANGED concurrency

removeTarget(t) ==
  /\ stay[t] # 0
  /\ stay' = [stay EXCEPT ![t] = 0]
  /\ UNCHANGED <<interval, concurrency>>

changeLimit(l) ==
  /\ l # concurrency
  /\ concurrency' = l
  /\ UNCHANGED <<stay, interval>>

reload ==
  /\ loop = Asleep /\ stop = "no"
  /\ generation <= MaxReloads
  /\ generation' = generation + 1
  /\ \/ \E t \in Targets : removeTarget(t) \/ \E i \in Intervals : changeTarget(t, i)
     \/ \E l \in Limits : changeLimit(l)
  /\ UNCHANGED <<schedule, planned, flags, loop, timer, ended, slots, scrapes, stop>>

\* A scrape is ended with its deadline, and may take a while over it.  Once
\* the loop is to stop, nothing waits for a time any more.
tick ==
  /\ loop = Asleep /\ stop = "no"
  /\ timer > -Stall
  /\ \A s \in scrapes : s.left > -Overrun
  /\ timer' = timer - 1
  /\ scrapes' = {[s EXCEPT !.left = @ - 1] : s \in scrapes}
  /\ schedule' = [t \in Targets |->
       IF schedule[t] = NoState THEN NoState
       ELSE [schedule[t] EXCEPT !.next = @ - 1,
                                !.cadence = IF schedule[t].first THEN @ - 1 ELSE 0,
                                !.until = IF schedule[t].waiting THEN @ - 1 ELSE 0]]
  /\ UNCHANGED <<inForce, planned, flags, loop, ended, slots, stop>>

Looks == wakes \/ (\E t \in Targets : plan(t)) \/ ask \/ again \/ sleep
Ends(s) == giveUp(s) \/ scraped(s) \/ clearRunning(s) \/ wakeLoop(s)

ScheduleNext ==
  \/ Looks \/ leaves \/ returns
  \/ \E s \in scrapes : takeSlot(s) \/ Ends(s)
  \/ stops \/ reload \/ tick

ScheduleSpec == ScheduleInit /\ [][ScheduleNext]_svars

\* The loop and the scrapes are goroutines that are never held for good, and
\* time passes.
ScheduleFairness ==
  /\ WF_svars(Looks) /\ WF_svars(leaves) /\ WF_svars(returns) /\ WF_svars(tick)
  /\ WF_svars(\E s \in scrapes : Ends(s))

ScheduleFairSpec == ScheduleSpec /\ ScheduleFairness

-----------------------------------------------------------------------------
(* What must hold. *)

\* Every variable has its type; the loop asks for the end of scrapes of
\* targets it has a state for, and the flag of a target says whether one of
\* its scrapes has yet to end.
ScheduleTypeOK ==
  /\ generation \in 1..(MaxReloads + 1) /\ planned \in 0..generation
  /\ stay \in [Targets -> 0..generation]
  /\ interval \in [Targets -> Intervals] /\ concurrency \in Limits
  /\ \A t \in Targets :
       \/ schedule[t] = NoState /\ ~running[t] /\ ~awaited[t]
       \/ /\ schedule[t].since \in 1..generation /\ schedule[t].interval \in Intervals
          /\ {schedule[t].next, schedule[t].cadence, schedule[t].until} \subseteq Int
          /\ {schedule[t].first, schedule[t].putOff, schedule[t].waiting} \subseteq BOOLEAN
  /\ running = [t \in Targets |-> \E s \in Of(t) : s.at # "wake"]
  /\ awaited \in [Targets -> BOOLEAN]
  /\ loop.at \in {"asleep", "plan", "ask", "again", "left"} /\ loop.todo \subseteq Targets
  /\ loop.at \in {"ask", "again"} => schedule[loop.target] # NoState
  /\ timer \in (-Stall)..CheckInterval /\ ended \in BOOLEAN
  /\ slots.number \in Nat /\ slots.limit \in Limits \cup {0}
  /\ \A s \in scrapes :
       /\ s.target \in Targets /\ {s.own, s.asked} \subseteq BOOLEAN /\ s.read \in 1..generation
       /\ s.left >= -Overrun /\ s.at \in {"slot", "scraping", "over", "wake"}
  /\ stop \in {"no", "stopping", "stopped"}

\* What configRead.targetStands says of a scrape: it may publish its result.
Stands(s) == stay[s.target] # 0 /\ stay[s.target] <= s.read

\* Two scrapes of a target never run at once, whatever reloads do between
\* them.  The exception is a target forgotten and brought back, whose old
\* scrape goes on: it may not publish.
OneAtATime ==
  /\ ScheduleTypeOK
  /\ \A s, r \in scrapes :
       s # r /\ s.target = r.target /\ {s.at, r.at} \cap {"wake"} = {} => ~s.own \/ ~r.own
  /\ \A s \in scrapes : Stands(s) => s.own

\* Part of WaitsEnd: the loop never sleeps on a scrape that has ended: while a turn waits or a
\* first scrape is put off, the scrape waited for is to wake the loop, or has
\* done so.
WakeKept ==
  \A t \in Targets :
    loop = Asleep /\ schedule[t] # NoState /\ (schedule[t].waiting \/ schedule[t].putOff) =>
      ended \/ (awaited[t] /\ Of(t) # {})

\* Part of WaitsEnd: a turn waits for no scrape that is given as long as the
\* turn has: the scrape's deadline is before the turn after it, so the turn is lost only
\* when a scrape outlasts its deadline or the loop is held up.
WaitsWithinTurn ==
  \A t \in Targets : \A s \in Of(t) :
    schedule[t] # NoState /\ schedule[t].waiting /\ s.at # "wake" => s.left < schedule[t].until

\* A target whose scrape is in flight as its turn comes is not forgotten: the
\* scrape wakes the loop, before the turn is over.
WaitsEnd == WakeKept /\ WaitsWithinTurn

\* Every target has its turn again and again: while it is in force, and as it
\* is by then, a scrape of it is set off; unless the exporter stops, and then
\* the loop returns.
TurnsCome ==
  /\ \A t \in Targets :
       []<>(stay[t] = 0 \/ stop # "no" \/ \E s \in Of(t) : s.read >= stay[t])
  /\ stop = "stopping" ~> stop = "stopped"

=============================================================================
