-------------------------- MODULE StaticScrapesProofs --------------------------
(***************************************************************************)
(* What a scrape of a static target goes through, for any targets,         *)
(* intervals, limits and reloads: a target's scrapes never run at once and *)
(* the loop never sleeps on one that has ended; the slots their trips wait *)
(* for are counted and handed on; and of every point they leave to be      *)
(* exported it is known what became of it.                                 *)
(***************************************************************************)
EXTENDS StaticSchedule, TripLimiter, OTLPQueue, CountingLemmas, FiniteSetTheorems,
        WellFoundedInduction, TLAPS

-----------------------------------------------------------------------------
(* Numbers. *)

\* A cadence goes on from a time at one of its points, no earlier than the
\* time, and at another point than the one it was at when that had passed.
LEMMA CadenceGoesOn ==
  ASSUME NEW point \in Int, NEW every \in Nat \ {0}, NEW time \in Int
  PROVE  /\ CadenceFrom(point, every, time) \in Int
         /\ CadenceFrom(point, every, time) >= time
         /\ point < time => CadenceFrom(point, every, time) >= point + every
<1> DEFINE beyond == time - point + every - 1
           turns == beyond \div every
<1>1. CASE point >= time
  BY <1>1 DEF CadenceFrom
<1>2. CASE point < time
  <2>1. CadenceFrom(point, every, time) = point + every * turns
    BY <1>2 DEF CadenceFrom
  <2>2. beyond \in Int /\ turns \in Int /\ every * turns \in Int
    OBVIOUS
  <2>3. every * turns > beyond - every
    BY <2>2
  <2>4. turns >= 1
    <3>1. beyond >= every
      BY <1>2
    <3> QED BY <2>2, <2>3, <3>1
  <2>5. every * turns >= every
    BY <2>2, <2>4
  <2> HIDE DEF turns
  <2> QED BY <1>2, <2>1, <2>2, <2>3, <2>5
<1> QED BY <1>1, <1>2

\* A finite set has a member that none is greater than: one with as few
\* greater than it as any has.
LEMMA Maximal ==
  ASSUME NEW S, IsFiniteSet(S), S # {}, NEW R,
         \A s \in S : <<s, s>> \notin R,
         \A s, t, u \in S : <<s, t>> \in R /\ <<t, u>> \in R => <<s, u>> \in R
  PROVE  \E t \in S : \A s \in S : <<t, s>> \notin R
<1> DEFINE above(t) == {s \in S : <<t, s>> \in R}
           sizes == {Cardinality(above(t)) : t \in S}
<1>1. \A t \in S : above(t) \in SUBSET S /\ IsFiniteSet(above(t)) /\ Cardinality(above(t)) \in Nat
  BY FS_Subset, FS_CardinalityType
<1>2. sizes \in SUBSET Nat /\ sizes # {}
  <2>1. PICK t \in S : TRUE
    OBVIOUS
  <2>2. Cardinality(above(t)) \in sizes
    OBVIOUS
  <2>3. ASSUME NEW n \in sizes PROVE n \in Nat
    <3>1. PICK s \in S : n = Cardinality(above(s))
      OBVIOUS
    <3> HIDE DEF above, sizes
    <3> QED BY <1>1, <3>1
  <2> QED BY <2>2, <2>3
<1>3. PICK n \in sizes : \A m \in sizes : ~(<<m, n>> \in OpToRel(<, Nat))
  BY <1>2, NatLessThanWellFounded, WFMin
<1>4. PICK t \in S : Cardinality(above(t)) = n
  BY <1>3
<1>5. ASSUME NEW s \in S, <<t, s>> \in R PROVE FALSE
  <2>1. above(s) \in SUBSET above(t) /\ s \in above(t) /\ s \notin above(s)
    BY <1>5
  <2>2. Cardinality(above(s)) <= Cardinality(above(t)) /\ Cardinality(above(s)) # Cardinality(above(t))
    BY <1>1, <2>1, FS_Subset
  <2>3. Cardinality(above(s)) \in sizes
    OBVIOUS
  <2>4. Cardinality(above(s)) \in Nat /\ n \in Nat /\ Cardinality(above(s)) < n
    BY <1>1, <1>4, <2>2
  <2> HIDE DEF sizes, above
  <2> QED BY <1>3, <2>3, <2>4 DEF OpToRel
<1> QED BY <1>5

\* A finite set of integers has a least member.
LEMMA LeastOfIntegers ==
  ASSUME NEW S \in SUBSET Int, S # {}, IsFiniteSet(S)
  PROVE  \E x \in S : \A y \in S : x <= y
<1> DEFINE R == {p \in S \X S : p[2] < p[1]}
<1>1. \A x, y \in S : <<x, y>> \in R <=> y < x
  OBVIOUS
<1> HIDE DEF R
<1>2. PICK x \in S : \A y \in S : <<x, y>> \notin R
  <2>1. \A s \in S : <<s, s>> \notin R
    BY <1>1
  <2>2. \A s, t, u \in S : <<s, t>> \in R /\ <<t, u>> \in R => <<s, u>> \in R
    BY <1>1
  <2> QED BY <2>1, <2>2, Maximal
<1>3. ASSUME NEW y \in S PROVE x <= y
  <2>1. ~(y < x) /\ x \in Int /\ y \in Int
    BY <1>1, <1>2
  <2> QED BY <2>1
<1> QED BY <1>3

\* The least and the greatest of two numbers.
LEMMA OfTwo ==
  ASSUME NEW x \in Int, NEW y \in Int
  PROVE  /\ Min({x, y}) \in {x, y} /\ Min({x, y}) <= x /\ Min({x, y}) <= y
         /\ Max({x, y}) \in {x, y} /\ Max({x, y}) >= x /\ Max({x, y}) >= y
<1>1. \E a \in {x, y} : \A c \in {x, y} : a <= c
  BY x <= y \/ y <= x
<1>2. \E a \in {x, y} : \A c \in {x, y} : a >= c
  BY x <= y \/ y <= x
<1> QED BY <1>1, <1>2 DEF Min, Max

\* The scrape of an offset is within the time it is in.
LEMMA OffsetsAreTimes ==
  ASSUME NEW t \in Targets, NEW within \in Nat \ {0}
  PROVE  scheduleOffset(t, within) \in Int
BY ScheduleAssumption DEF scheduleOffset

-----------------------------------------------------------------------------
(* The schedule. *)

States == [since : Nat, interval : Intervals, next : Int, cadence : Int, first : BOOLEAN,
           putOff : BOOLEAN, waiting : BOOLEAN, until : Int]
Channels == [number : Nat, limit : Limits \cup {0}]
Scraping == [target : Targets, own : BOOLEAN, asked : BOOLEAN, read : Nat, left : Int,
             slots : Channels, at : {"slot", "scraping", "over", "wake"}]
Loops == [at : {"asleep", "plan", "left"}, todo : SUBSET Targets]
           \cup [at : {"ask", "again"}, todo : SUBSET Targets, target : Targets, came : BOOLEAN]

Typed ==
  /\ generation \in 1..(MaxReloads + 1) /\ planned \in 0..generation
  /\ stay \in [Targets -> 0..generation]
  /\ interval \in [Targets -> Intervals] /\ concurrency \in Limits
  /\ schedule \in [Targets -> States \cup {NoState}]
  /\ running \in [Targets -> BOOLEAN] /\ awaited \in [Targets -> BOOLEAN]
  /\ loop \in Loops
  /\ timer \in (-Stall)..CheckInterval /\ ended \in BOOLEAN
  /\ slots \in Channels
  /\ scrapes \subseteq Scraping
  /\ stop \in {"no", "stopping", "stopped"}

\* The scrapes of a target that its state has, and those of them that have yet
\* to end.
Has(t)  == {s \in scrapes : s.target = t /\ s.own}
Runs(s) == s.own /\ s.at # "wake"

\* The state of a target: its turn waits until the turn after it, and only a
\* first scrape that is due is put off.
Fits(st) ==
  /\ st.since \in 1..generation
  /\ st.waiting => ~st.first /\ st.until = st.next
  /\ st.putOff => st.first /\ st.next <= 0
StatesFit == \A t \in Targets : schedule[t] # NoState => Fits(schedule[t])

\* Nothing runs for a target that is not known.
UnknownIdle == \A t \in Targets : schedule[t] = NoState => ~running[t] /\ ~awaited[t]

\* The flag of a target is that of its scrapes.
FlagsFit == \A t \in Targets : running[t] <=> \E s \in scrapes : s.target = t /\ Runs(s)

ScrapesFit ==
  \A s \in scrapes :
    s.read \in 1..generation /\ s.left >= -Overrun /\ (Stands(s) => s.own)

OneRuns ==
  \A s, r \in scrapes : Runs(s) /\ Runs(r) /\ s.target = r.target => s = r

\* A look is of targets in force, knows those it is done with, and waits for the
\* end of a scrape only where a first scrape or a turn does.
LookFits ==
  /\ loop.todo \subseteq Defined
  /\ loop.at \in {"ask", "again"} =>
       LET st == schedule[loop.target]
       IN  /\ loop.target \in loop.todo /\ st # NoState
           /\ IF st.first THEN st.next <= 0 ELSE st.waiting /\ st.next > 0
  /\ loop.at = "again" => ended \/ awaited[loop.target]
  /\ loop.at \in {"plan", "ask", "again"} =>
       \A t \in Defined \ loop.todo : schedule[t] # NoState

\* WakeKept, while a look is under way of the targets it is done with.
Settled(t) == loop.at = "asleep" \/ (loop.at # "left" /\ t \in Defined \ loop.todo)
WakesToCome ==
  \A t \in Targets :
    Settled(t) /\ schedule[t] # NoState /\ (schedule[t].waiting \/ schedule[t].putOff) =>
      ended \/ (awaited[t] /\ Has(t) # {})

\* The time a scrape has is over before the turn after the next, and before the
\* next one while that waits for it.
Before(s, st) == s.left < st.next + st.interval /\ (st.waiting => s.left < st.next)
InTurn ==
  \A s \in scrapes :
    LET st == schedule[s.target]
    IN Runs(s) /\ st # NoState => st.first \/ Before(s, st)

ScheduleInv ==
  /\ Typed /\ StatesFit /\ UnknownIdle /\ FlagsFit /\ ScrapesFit /\ OneRuns
  /\ LookFits /\ WakesToCome /\ InTurn

LEMMA HasOf == \A t \in Targets : Has(t) = Of(t)
BY DEF Has, Of

LEMMA InitialSchedule == ScheduleInit => ScheduleInv
<1> SUFFICES ASSUME ScheduleInit PROVE ScheduleInv
  OBVIOUS
<1> USE DEF ScheduleInit, Unplanned
<1>1. Typed
  <2>1. 0 \in Nat /\ slots \in Channels
    BY DEF Channels
  <2>2. loop \in Loops
    BY DEF Loops, Asleep
  <2>3. 1 \in 1..(MaxReloads + 1) /\ 0 \in 0..1 /\ 1 \in 0..1 /\ 0 \in (-Stall)..CheckInterval
    BY ScheduleAssumption
  <2>4. stay \in [Targets -> 0..generation] /\ schedule \in [Targets -> States \cup {NoState}]
    BY <2>3
  <2>5. running \in [Targets -> BOOLEAN] /\ awaited \in [Targets -> BOOLEAN]
    OBVIOUS
  <2> QED BY <2>1, <2>2, <2>3, <2>4, <2>5 DEF Typed
<1>2. \A t \in Targets : schedule[t] = NoState /\ ~running[t] /\ ~awaited[t]
  OBVIOUS
<1>3. LookFits
  BY DEF LookFits, Asleep
<1> QED BY <1>1, <1>2, <1>3
        DEF ScheduleInv, StatesFit, UnknownIdle, FlagsFit, ScrapesFit, OneRuns, WakesToCome, InTurn

-----------------------------------------------------------------------------
(* The look at one target. *)

\* What the look goes by of one state, the scrapes and the flags being as they
\* are: its facts, what is to come of it, and the scrapes of the target.
Sound(t, st) ==
  /\ st \in States /\ Fits(st)
  /\ st.waiting \/ st.putOff => ended \/ (awaited[t] /\ Has(t) # {})
  /\ \A s \in scrapes : s.target = t /\ Runs(s) => st.first \/ Before(s, st)

LEMMA NoStateIsNone == NoState \notin States
<1>1. \A n \in Intervals : n \in Int
  BY ScheduleAssumption
<1>2. States \subseteq [since : Nat, interval : Int, next : Int, cadence : Int, first : BOOLEAN,
                        putOff : BOOLEAN, waiting : BOOLEAN, until : Int]
  BY <1>1 DEF States
<1> QED BY <1>2, NoStateAssumption

\* The look goes on to the next target with a sound state of this one.
LEMMA LookGoesOn ==
  ASSUME ScheduleInv, loop.at \in {"plan", "ask", "again"}, NEW t \in loop.todo, NEW st, Sound(t, st), Goes(t, st),
         UNCHANGED <<inForce, planned, flags, timer, ended, slots, scrapes, stop>>
  PROVE  ScheduleInv'
<1> USE DEF ScheduleInv, Typed
<1>1. t \in Targets /\ loop.todo \in SUBSET Targets
  BY DEF Loops
<1>2. schedule' = [schedule EXCEPT ![t] = st] /\ loop' = Plan(loop.todo \ {t})
  BY DEF Goes
<1>3. \A r \in Targets : schedule'[r] = IF r = t THEN st ELSE schedule[r]
  BY <1>1, <1>2
<1>4. loop'.at = "plan" /\ loop'.todo = loop.todo \ {t} /\ loop' \in Loops
  BY <1>1, <1>2 DEF Plan, Loops
<1>5. st # NoState
  BY NoStateIsNone DEF Sound
<1>6. Typed'
  <2>1. schedule' \in [Targets -> States \cup {NoState}]
    BY <1>2 DEF Sound
  <2> QED BY <2>1, <1>4 DEF inForce, flags
<1>7. StatesFit'
  BY <1>3 DEF StatesFit, Sound, Fits, inForce
<1>8. UnknownIdle'
  BY <1>3, <1>5 DEF UnknownIdle, flags
<1>9. FlagsFit' /\ ScrapesFit' /\ OneRuns'
  BY DEF FlagsFit, ScrapesFit, OneRuns, Runs, Stands, flags, inForce
<1>10. LookFits'
  <2>1. \A r \in Defined : r \in Targets
    BY DEF Defined
  <2> QED BY <1>3, <1>4, <1>5, <2>1 DEF LookFits, Loops, Defined, inForce
<1>11. WakesToCome'
  <2>1. ASSUME NEW r \in Targets, Settled(r)', r # t
        PROVE  Settled(r) /\ schedule'[r] = schedule[r]
    BY <1>3, <1>4, <2>1 DEF Settled, Defined, inForce
  <2>2. \A r \in Targets : Has(r)' = Has(r)
    BY DEF Has
  <2> QED BY <1>3, <2>1, <2>2 DEF WakesToCome, Sound, flags
<1>12. InTurn'
  <2>1. \A s \in scrapes : s.target \in Targets
    BY DEF Scraping
  <2>2. \A s \in scrapes : Runs(s)' = Runs(s) /\ Before(s, schedule[s.target])' = Before(s, schedule'[s.target])
    BY DEF Runs, Before
  <2> QED BY <1>3, <2>1 DEF InTurn, Sound, Runs, Before
<1> QED BY <1>6, <1>7, <1>8, <1>9, <1>10, <1>11, <1>12

\* The look sets off a scrape of a target that none runs of.
LEMMA LookSetsOff ==
  ASSUME ScheduleInv, loop.at \in {"plan", "ask", "again"}, NEW t \in loop.todo, ~running[t],
         NEW st \in States, Fits(st), ~st.first, ~st.waiting, ~st.putOff,
         NEW deadline \in Nat, deadline < st.next + st.interval,
         Goes(t, st), SetOff(t, deadline),
         UNCHANGED <<inForce, planned, awaited, timer, ended, slots, stop>>
  PROVE  ScheduleInv'
<1> USE DEF ScheduleInv, Typed
<1> DEFINE new == [target |-> t, own |-> TRUE, asked |-> FALSE, read |-> generation,
                   left |-> deadline, slots |-> slots, at |-> "slot"]
<1>1. t \in Targets /\ loop.todo \in SUBSET Targets /\ t \in Defined
  BY DEF Loops, LookFits
<1>2. schedule' = [schedule EXCEPT ![t] = st] /\ loop' = Plan(loop.todo \ {t})
  BY DEF Goes
<1>3. \A r \in Targets : schedule'[r] = IF r = t THEN st ELSE schedule[r]
  BY <1>1, <1>2
<1>4. loop'.at = "plan" /\ loop'.todo = loop.todo \ {t} /\ loop' \in Loops
  BY <1>1, <1>2 DEF Plan, Loops
<1>5. st # NoState
  BY NoStateIsNone
<1>6. scrapes' = scrapes \cup {new} /\ running' = [running EXCEPT ![t] = TRUE]
  BY DEF SetOff
<1>7. /\ new \in Scraping /\ Runs(new) /\ new.target = t /\ new.left = deadline
      /\ new.read = generation /\ new.own
  BY <1>1 DEF Scraping, Runs
<1> HIDE DEF new
<1>8. \A r \in Targets : running'[r] = (r = t \/ running[r])
  BY <1>1, <1>6
<1>9. \A s \in scrapes : ~(Runs(s) /\ s.target = t)
  BY <1>1 DEF FlagsFit
<1>10. \A s \in scrapes : s.target \in Targets
  BY DEF Scraping
<1>11. Typed'
  <2>1. schedule' \in [Targets -> States \cup {NoState}]
    BY <1>2
  <2>2. scrapes' \subseteq Scraping /\ running' \in [Targets -> BOOLEAN]
    BY <1>6, <1>7
  <2> QED BY <2>1, <2>2, <1>4 DEF inForce
<1>12. StatesFit'
  BY <1>3 DEF StatesFit, Fits, inForce
<1>13. UnknownIdle'
  BY <1>3, <1>5, <1>8 DEF UnknownIdle
<1>14. FlagsFit'
  BY <1>6, <1>7, <1>8 DEF FlagsFit, Runs
<1>15. ScrapesFit'
  <2>1. new.read \in 1..generation /\ new.left >= -Overrun
    BY <1>7, ScheduleAssumption
  <2> QED BY <2>1, <1>6, <1>7 DEF ScrapesFit, Stands, inForce
<1>16. OneRuns'
  BY <1>6, <1>7, <1>9 DEF OneRuns, Runs
<1>17. LookFits'
  <2>1. \A r \in Defined : r \in Targets
    BY DEF Defined
  <2> QED BY <1>3, <1>4, <1>5, <2>1 DEF LookFits, Loops, Defined, inForce
<1>18. WakesToCome'
  <2>1. ASSUME NEW r \in Targets, Settled(r)', r # t
        PROVE  Settled(r) /\ schedule'[r] = schedule[r]
    BY <1>3, <1>4, <2>1 DEF Settled, Defined, inForce
  <2>2. \A r \in Targets : Has(r) # {} => Has(r)' # {}
    BY <1>6 DEF Has
  <2> QED BY <1>3, <2>1, <2>2 DEF WakesToCome
<1>19. InTurn'
  <2>1. Before(new, st) /\ schedule'[new.target] = st
    BY <1>1, <1>3, <1>7 DEF Before
  <2>2. ASSUME NEW s \in scrapes, Runs(s), schedule'[s.target] # NoState
        PROVE  schedule'[s.target].first \/ Before(s, schedule'[s.target])
    <3>1. schedule'[s.target] = schedule[s.target]
      BY <1>3, <1>9, <1>10, <2>2
    <3> QED BY <2>2, <3>1 DEF InTurn
  <2> QED BY <1>6, <2>1, <2>2 DEF InTurn, Runs, Before
<1> QED BY <1>11, <1>12, <1>13, <1>14, <1>15, <1>16, <1>17, <1>18, <1>19

\* What a look finds of a target, as a state of it or to start it again with:
\* the next turn comes once its scrapes are over.
Found(t, st) ==
  /\ st \in States /\ Fits(st)
  /\ \A s \in scrapes : s.target = t /\ Runs(s) => st.first \/ Before(s, st)

LEMMA LookedAt ==
  ASSUME ScheduleInv, NEW t \in Targets, t \in Defined
  PROVE  Found(t, Looked(t))
<1> USE DEF ScheduleInv, Typed
<1>1. interval[t] \in Intervals /\ interval[t] \in Nat \ {0} /\ stay[t] \in 1..generation /\ stay[t] \in Nat
  <2>1. stay[t] \in 0..generation /\ stay[t] # 0 /\ generation \in Int
    BY DEF Defined
  <2>2. interval[t] \in Intervals
    OBVIOUS
  <2>3. \A i \in Intervals : i \in Nat \ {0}
    BY ScheduleAssumption
  <2>4. stay[t] \in 1..generation /\ stay[t] \in Nat
    BY <2>1
  <2> QED BY <2>2, <2>3, <2>4
<1>2. CASE Restarts(t)
  <2>1. Min({interval[t], FirstWindow}) \in Nat \ {0}
    <3>1. interval[t] \in Int /\ FirstWindow \in Int /\ FirstWindow \in Nat \ {0}
      BY <1>1, ScheduleAssumption
    <3>2. Min({interval[t], FirstWindow}) \in {interval[t], FirstWindow}
      BY <3>1, OfTwo
    <3> QED BY <1>1, <3>1, <3>2
  <2>2. /\ scheduleOffset(t, Min({interval[t], FirstWindow})) \in Int
        /\ scheduleOffset(t, interval[t]) \in Int
    BY <1>1, <2>1, OffsetsAreTimes
  <2>3. Started(t) \in States /\ Started(t).first /\ ~Started(t).waiting /\ ~Started(t).putOff
        /\ Started(t).since = stay[t]
    BY <1>1, <2>2 DEF Started, States
  <2> QED BY <1>1, <1>2, <2>3 DEF Looked, Found, Fits
<1>3. CASE ~Restarts(t)
  <2>1. Looked(t) = schedule[t] /\ schedule[t] # NoState /\ schedule[t] \in States
    BY <1>3 DEF Looked, Restarts
  <2> QED BY <2>1 DEF Found, StatesFit, InTurn
<1> QED BY <1>2, <1>3

\* So it is once a turn has come and waits, and the turn after it is to come.
LEMMA TurnsTaken ==
  ASSUME ScheduleInv, NEW t \in Targets, NEW st, Found(t, st), ~st.first, st.next <= 0
  PROVE  /\ Found(t, AtTurn(st))
         /\ ~AtTurn(st).first /\ AtTurn(st).waiting /\ AtTurn(st).next > 0
<1> USE DEF ScheduleInv, Typed
<1> DEFINE next == CadenceFrom(st.next, st.interval, 1)
<1>1. st \in States /\ st.interval \in Nat \ {0} /\ st.next \in Int
  BY ScheduleAssumption DEF Found, States
<1>2. next \in Int /\ next >= 1 /\ next >= st.next + st.interval
  <2>1. st.next < 1 /\ 1 \in Int
    BY <1>1
  <2> QED BY <1>1, <2>1, CadenceGoesOn
<1> HIDE DEF next
<1>3. AtTurn(st) = [st EXCEPT !.next = next, !.waiting = TRUE, !.until = next]
  BY DEF AtTurn, next
<1>4. /\ AtTurn(st) \in States
      /\ AtTurn(st).next = next /\ AtTurn(st).waiting /\ AtTurn(st).until = next
      /\ AtTurn(st).first = st.first /\ AtTurn(st).putOff = st.putOff
      /\ AtTurn(st).since = st.since /\ AtTurn(st).interval = st.interval
  BY <1>1, <1>2, <1>3 DEF States
<1>5. Fits(AtTurn(st))
  BY <1>4 DEF Found, Fits
<1>6. ASSUME NEW s \in scrapes, s.target = t, Runs(s)
      PROVE  Before(s, AtTurn(st))
  <2>1. s.left < st.next + st.interval /\ s.left \in Int
    BY <1>6 DEF Found, Before, Scraping
  <2>2. s.left < next /\ s.left < next + st.interval
    BY <1>1, <1>2, <2>1
  <2> QED BY <1>4, <2>2 DEF Before
<1> QED BY <1>2, <1>4, <1>5, <1>6 DEF Found

\* What waits for the end of the scrapes of a target is set off.
LEMMA LookSets ==
  ASSUME ScheduleInv, loop.at \in {"plan", "ask", "again"}, NEW t \in loop.todo, ~running[t],
         NEW st \in States, Fits(st), st.first \/ (st.waiting /\ st.next > 0),
         NEW came \in BOOLEAN, Sets(t, st, came),
         UNCHANGED <<inForce, planned, awaited, timer, ended, slots, stop>>
  PROVE  ScheduleInv'
<1>1. st.interval \in Nat \ {0} /\ st.next \in Int /\ st.cadence \in Int
  BY ScheduleAssumption DEF States
<1>2. CASE st.first
  <2> DEFINE next == CadenceFrom(st.cadence, st.interval, Began(st) + st.interval)
             new  == AfterFirst(st)
  <2>1. Began(st) \in Int /\ Began(st) + st.interval >= 1
    <3> DEFINE late == st.interval \div LateShare
    <3>1. late \in Int /\ late < st.interval
      BY <1>1, ScheduleAssumption
    <3> HIDE DEF late
    <3>2. Began(st) = 0 \/ (Began(st) = st.next /\ -st.next <= late)
      BY <1>1, <3>1 DEF Began, late
    <3> QED BY <1>1, <3>1, <3>2
  <2>2. next \in Int /\ next >= 1
    <3> DEFINE from == Began(st) + st.interval
    <3>1. from \in Int /\ from >= 1
      BY <1>1, <2>1
    <3> HIDE DEF from
    <3>2. /\ CadenceFrom(st.cadence, st.interval, from) \in Int
          /\ CadenceFrom(st.cadence, st.interval, from) >= from
      BY <1>1, <3>1, CadenceGoesOn
    <3> QED BY <3>1, <3>2 DEF from
  <2> HIDE DEF next
  <2>3. new = [st EXCEPT !.next = next, !.cadence = 0, !.first = FALSE, !.putOff = FALSE]
    BY DEF AfterFirst, next
  <2>4. /\ new \in States /\ new.next = next /\ ~new.first /\ ~new.putOff
        /\ new.waiting = st.waiting /\ new.interval = st.interval /\ new.since = st.since
    <3>1. new \in States
      BY <2>2, <2>3, 0 \in Int DEF States
    <3> HIDE DEF new
    <3> QED BY <2>3, <3>1 DEF States
  <2>5. Fits(new) /\ ~new.waiting
    BY <1>2, <2>4 DEF Fits
  <2>6. st.interval \in Nat /\ st.interval < new.next + new.interval
    BY <1>1, <2>2, <2>4
  <2>7. Goes(t, new) /\ SetOff(t, st.interval)
    BY <1>2 DEF Sets
  <2> HIDE DEF new
  <2> QED BY <2>4, <2>5, <2>6, <2>7, LookSetsOff
<1>3. CASE ~st.first
  <2> DEFINE new      == [st EXCEPT !.waiting = FALSE, !.until = 0]
             deadline == IF came THEN st.interval ELSE st.until
  <2>1. /\ new \in States /\ new.next = st.next /\ ~new.first /\ ~new.waiting
        /\ new.putOff = st.putOff /\ new.interval = st.interval /\ new.since = st.since
    <3>1. new \in States
      BY 0 \in Int DEF States
    <3>2. new.waiting = FALSE /\ new.first = st.first
      BY DEF States
    <3> QED BY <1>3, <3>1, <3>2 DEF States
  <2>2. Fits(new) /\ ~new.putOff
    BY <1>3, <2>1 DEF Fits
  <2>3. deadline \in Nat /\ deadline < new.next + new.interval
    BY <1>1, <1>3, <2>1 DEF Fits
  <2>4. Goes(t, new) /\ SetOff(t, deadline)
    BY <1>3 DEF Sets
  <2> HIDE DEF new, deadline
  <2> QED BY <2>1, <2>2, <2>3, <2>4, LookSetsOff
<1> QED BY <1>2, <1>3

\* The look finds a scrape of the target in flight, and goes on to ask for the
\* end of it.
LEMMA LookAsks ==
  ASSUME ScheduleInv, loop.at = "plan", NEW t \in loop.todo, NEW now, Found(t, now),
         IF now.first THEN now.next <= 0 ELSE now.waiting /\ now.next > 0,
         NEW came \in BOOLEAN,
         schedule' = [schedule EXCEPT ![t] = now],
         loop' = [at |-> "ask", todo |-> loop.todo, target |-> t, came |-> came],
         UNCHANGED <<inForce, planned, flags, timer, ended, slots, scrapes, stop>>
  PROVE  ScheduleInv'
<1> USE DEF ScheduleInv, Typed
<1>1. t \in Targets /\ loop.todo \in SUBSET Targets
  BY DEF Loops
<1>2. \A r \in Targets : schedule'[r] = IF r = t THEN now ELSE schedule[r]
  BY <1>1
<1>3. loop' \in Loops
  BY <1>1 DEF Loops
<1>4. now # NoState /\ now \in States
  BY NoStateIsNone DEF Found
<1>5. Typed'
  <2>1. schedule' \in [Targets -> States \cup {NoState}]
    BY <1>4
  <2> QED BY <2>1, <1>3 DEF inForce, flags
<1>6. StatesFit'
  BY <1>2 DEF StatesFit, Found, Fits, inForce
<1>7. UnknownIdle'
  BY <1>2, <1>4 DEF UnknownIdle, flags
<1>8. FlagsFit' /\ ScrapesFit' /\ OneRuns'
  BY DEF FlagsFit, ScrapesFit, OneRuns, Runs, Stands, flags, inForce
<1>9. LookFits'
  BY <1>1, <1>2, <1>4 DEF LookFits, Defined, inForce
<1>10. WakesToCome'
  <2>1. ASSUME NEW r \in Targets, Settled(r)'
        PROVE  Settled(r) /\ schedule'[r] = schedule[r]
    BY <1>2, <2>1 DEF Settled, Defined, inForce
  <2>2. \A r \in Targets : Has(r)' = Has(r)
    BY DEF Has
  <2> QED BY <2>1, <2>2 DEF WakesToCome, flags
<1>11. InTurn'
  <2>1. \A s \in scrapes : s.target \in Targets
    BY DEF Scraping
  <2> QED BY <1>2, <2>1 DEF InTurn, Found, Runs, Before
<1> QED BY <1>5, <1>6, <1>7, <1>8, <1>9, <1>10, <1>11

LEMMA PlanKeeps ==
  ASSUME ScheduleInv, NEW t \in Targets, plan(t)
  PROVE  ScheduleInv'
<1> DEFINE st   == Looked(t)
           came == st.next <= 0 /\ ~st.first
           now  == IF came THEN AtTurn(st) ELSE st
<1>1. loop.at = "plan" /\ t \in loop.todo /\ t \in Defined
  BY DEF plan, ScheduleInv, LookFits
<1>2. Found(t, st) /\ st.next \in Int /\ st.first \in BOOLEAN
  BY <1>1, LookedAt DEF Found, States
<1> HIDE DEF st
<1>3. Found(t, now) /\ (~now.first => now.next > 0)
  BY <1>2, TurnsTaken
<1>4. now.next \in Int /\ now \in States /\ Fits(now) /\ came \in BOOLEAN
  BY <1>3 DEF Found, States
<1>5. IF (now.first /\ now.next > 0) \/ (~now.first /\ ~now.waiting)
        THEN Goes(t, now) /\ UNCHANGED <<running, scrapes>>
        ELSE IF running[t]
               THEN /\ schedule' = [schedule EXCEPT ![t] = now]
                    /\ loop' = [at |-> "ask", todo |-> loop.todo, target |-> t, came |-> came]
                    /\ UNCHANGED <<running, scrapes>>
               ELSE Sets(t, now, came)
  BY DEF plan, InFlight, st
<1>6. UNCHANGED <<inForce, planned, awaited, timer, ended, slots, stop>>
  BY DEF plan
<1> HIDE DEF now, came
<1>7. CASE (now.first /\ now.next > 0) \/ (~now.first /\ ~now.waiting)
  <2>1. ~now.waiting /\ ~now.putOff
    BY <1>4, <1>7 DEF Fits
  <2>2. Sound(t, now)
    BY <1>3, <2>1 DEF Sound, Found
  <2> QED BY <1>1, <1>5, <1>6, <1>7, <2>2, LookGoesOn DEF flags
<1>8. CASE ~((now.first /\ now.next > 0) \/ (~now.first /\ ~now.waiting))
  <2>1. IF now.first THEN now.next <= 0 ELSE now.waiting /\ now.next > 0
    BY <1>3, <1>4, <1>8
  <2>2. CASE running[t]
    BY <1>1, <1>3, <1>4, <1>5, <1>6, <1>8, <2>1, <2>2, LookAsks DEF flags
  <2>3. CASE ~running[t]
    BY <1>1, <1>4, <1>5, <1>6, <1>8, <2>1, <2>3, LookSets
  <2> QED BY <2>2, <2>3
<1> QED BY <1>7, <1>8

LEMMA AskKeeps == ScheduleInv /\ ask => ScheduleInv'
<1> SUFFICES ASSUME ScheduleInv, ask PROVE ScheduleInv'
  OBVIOUS
<1> USE DEF ScheduleInv, Typed, ask
<1>1. /\ loop.at = "ask" /\ loop.target \in Targets /\ loop.came \in BOOLEAN
      /\ loop.todo \in SUBSET Targets
      /\ loop' \in Loops /\ loop'.at = "again"
      /\ loop'.todo = loop.todo /\ loop'.target = loop.target
  BY DEF Loops
<1>2. \A t \in Targets : awaited'[t] = (t = loop.target \/ awaited[t])
  BY <1>1
<1>3. Typed'
  <2>1. awaited' \in [Targets -> BOOLEAN]
    OBVIOUS
  <2> QED BY <1>1, <2>1 DEF inForce
<1>4. schedule[loop.target] # NoState
  BY <1>1 DEF LookFits
<1>5. StatesFit' /\ FlagsFit' /\ ScrapesFit' /\ OneRuns' /\ InTurn'
  BY DEF StatesFit, Fits, FlagsFit, ScrapesFit, OneRuns, InTurn, Before, Runs, Stands, inForce
<1>6. UnknownIdle'
  BY <1>2, <1>4 DEF UnknownIdle
<1>7. LookFits'
  BY <1>1, <1>2 DEF LookFits, Defined, inForce
<1>8. WakesToCome'
  <2>1. \A t \in Targets : (Settled(t)' => Settled(t)) /\ Has(t)' = Has(t)
    BY <1>1 DEF Settled, Has, Defined, inForce
  <2> QED BY <1>2, <2>1 DEF WakesToCome
<1> QED BY <1>3, <1>5, <1>6, <1>7, <1>8

LEMMA AgainKeeps == ScheduleInv /\ again => ScheduleInv'
<1> SUFFICES ASSUME ScheduleInv, again PROVE ScheduleInv'
  OBVIOUS
<1> DEFINE t  == loop.target
           st == schedule[t]
<1>1. /\ loop.at = "again" /\ t \in loop.todo /\ t \in Targets /\ loop.came \in BOOLEAN
  BY DEF ScheduleInv, Typed, LookFits, Loops, again
<1>2. /\ st \in States /\ Fits(st) /\ st # NoState
      /\ IF st.first THEN st.next <= 0 ELSE st.waiting /\ st.next > 0
      /\ ended \/ awaited[t]
  BY <1>1 DEF ScheduleInv, Typed, LookFits, StatesFit
<1>3. /\ running[t] => Goes(t, [st EXCEPT !.putOff = st.first]) /\ UNCHANGED <<running, scrapes>>
      /\ ~running[t] => Sets(t, st, loop.came)
      /\ UNCHANGED <<inForce, planned, awaited, timer, ended, slots, stop>>
  BY DEF again, StillRunning
<1>4. CASE running[t]
  <2> DEFINE new == [st EXCEPT !.putOff = st.first]
  <2>1. /\ new \in States /\ new.putOff = st.first /\ new.first = st.first /\ new.next = st.next
        /\ new.waiting = st.waiting /\ new.until = st.until /\ new.interval = st.interval
        /\ new.since = st.since
    BY <1>2 DEF States
  <2>2. Fits(new)
    BY <1>2, <2>1 DEF Fits
  <2>3. Has(t) # {}
    BY <1>1, <1>4 DEF ScheduleInv, FlagsFit, Has, Runs
  <2>4. \A s \in scrapes : s.target = t /\ Runs(s) => new.first \/ Before(s, new)
    BY <1>1, <1>2, <2>1 DEF ScheduleInv, InTurn, Before
  <2>5. Sound(t, new)
    BY <1>2, <2>1, <2>2, <2>3, <2>4 DEF Sound
  <2> HIDE DEF new, st, t
  <2>6. Goes(t, new) /\ UNCHANGED <<running, scrapes>>
    BY <1>3, <1>4 DEF new
  <2> QED BY <1>1, <1>3, <2>5, <2>6, LookGoesOn DEF flags
<1>5. CASE ~running[t]
  <2> HIDE DEF st, t
  <2> QED BY <1>1, <1>2, <1>3, <1>5, LookSets
<1> QED BY <1>4, <1>5

-----------------------------------------------------------------------------
(* The rest of a look. *)

LEMMA WakeKeeps == ScheduleInv /\ wakes => ScheduleInv'
<1> SUFFICES ASSUME ScheduleInv, wakes PROVE ScheduleInv'
  OBVIOUS
<1> USE DEF ScheduleInv, Typed, wakes
<1>1. loop' \in Loops /\ loop'.at = "plan" /\ loop'.todo = Defined /\ Defined' = Defined
  BY DEF Loops, Plan, Defined, inForce
<1>2. slots' \in Channels
  <2>1. slots.number + 1 \in Nat
    BY DEF Channels
  <2> QED BY <2>1 DEF Channels
<1>3. Typed'
  BY <1>1, <1>2 DEF inForce, flags
<1>4. StatesFit' /\ UnknownIdle' /\ FlagsFit' /\ ScrapesFit' /\ OneRuns' /\ InTurn'
  BY DEF StatesFit, Fits, UnknownIdle, FlagsFit, ScrapesFit, OneRuns, InTurn, Before, Runs, Stands,
         inForce, flags
<1>5. LookFits' /\ WakesToCome'
  BY <1>1 DEF LookFits, WakesToCome, Settled
<1> QED BY <1>3, <1>4, <1>5

\* When the loop sleeps, it is not for longer than CheckInterval.
LEMMA TimerFits ==
  ASSUME ScheduleInv, NEW f, f = [t \in Defined |-> Look(schedule[t])],
         \A t \in Defined : f[t] \in Int
  PROVE  LET due == {Look(schedule[t]) : t \in Defined}
         IN  Max({0, Min({CheckInterval} \cup due)}) \in 0..CheckInterval
<1> DEFINE due == {Look(schedule[t]) : t \in Defined}
           all == {CheckInterval} \cup due
<1>1. IsFiniteSet(Defined)
  BY FS_Subset, ScheduleAssumption DEF Defined
<1>2. f \in Surjection(Defined, due)
  BY DEF Surjection
<1>3. IsFiniteSet(due)
  <2>1. due \in {T \in {due} : TRUE} /\ \E g : g \in Surjection(Defined, due)
    BY <1>2
  <2> HIDE DEF due
  <2> QED BY <1>1, <1>2, FS_Surjection
<1>4. due \subseteq Int /\ CheckInterval \in Nat
  BY ScheduleAssumption
<1> HIDE DEF due
<1>5. all = due \cup {CheckInterval}
  OBVIOUS
<1>6. IsFiniteSet(due \cup {CheckInterval})
  BY <1>3, FS_AddElement
<1>7. all \in SUBSET Int /\ all # {} /\ IsFiniteSet(all) /\ CheckInterval \in all
  BY <1>4, <1>5, <1>6
<1> HIDE DEF all
<1>8. \E x \in all : \A y \in all : x <= y
  BY <1>7, LeastOfIntegers
<1>9. Min(all) \in all /\ Min(all) <= CheckInterval
  BY <1>7, <1>8 DEF Min
<1>10. Min(all) \in Int /\ 0 \in Int
  <2>1. \A x \in all : x \in Int
    BY <1>7
  <2> QED BY <1>9, <2>1
<1>11. /\ Max({0, Min(all)}) \in {0, Min(all)} /\ Max({0, Min(all)}) >= 0
  BY <1>10, OfTwo
<1>12. Max({0, Min(all)}) \in 0..CheckInterval
  <2>1. PICK least \in Int : least = Min(all)
    BY <1>10
  <2>2. PICK most : most = Max({0, Min(all)})
    OBVIOUS
  <2>3. most = 0 \/ most = least
    BY <1>11, <2>1, <2>2
  <2>4. most \in Int /\ most >= 0 /\ most <= CheckInterval
    BY <1>4, <1>9, <1>11, <2>1, <2>2, <2>3
  <2> QED BY <1>4, <2>2, <2>4
<1> QED BY <1>12 DEF all, due

LEMMA SleepKeeps == ScheduleInv /\ sleep => ScheduleInv'
<1> SUFFICES ASSUME ScheduleInv, sleep PROVE ScheduleInv'
  OBVIOUS
<1> USE DEF ScheduleInv, Typed
<1> DEFINE Kept(s) == IF s.target \in Defined \/ ~s.own THEN s
                      ELSE [s EXCEPT !.own = FALSE, !.asked = awaited[s.target]]
<1>1. /\ scrapes' = {Kept(s) : s \in scrapes}
      /\ schedule' = [t \in Targets |-> IF t \in Defined THEN schedule[t] ELSE NoState]
      /\ running' = [t \in Targets |-> running[t] /\ t \in Defined]
      /\ awaited' = [t \in Targets |-> awaited[t] /\ t \in Defined]
      /\ planned' = generation /\ loop = Plan({}) /\ loop' = Asleep
      /\ UNCHANGED <<inForce, ended, slots, stop>>
  BY DEF sleep
<1>2. loop.at = "plan" /\ loop.todo = {} /\ loop'.at = "asleep" /\ loop'.todo = {} /\ loop' \in Loops
  BY <1>1 DEF Plan, Asleep, Loops
<1>3. ASSUME NEW s \in scrapes
      PROVE  /\ Kept(s) \in Scraping /\ Kept(s).target = s.target /\ Kept(s).at = s.at
             /\ Kept(s).left = s.left /\ Kept(s).read = s.read
             /\ Kept(s).own = (s.own /\ s.target \in Defined)
             /\ s.target \in Targets
  BY DEF Scraping
<1>4. \A s \in scrapes : s.target \in Defined => Kept(s) = s
  OBVIOUS
<1> HIDE DEF Kept
<1>5. \A r \in scrapes' : r.own => r \in scrapes /\ r.target \in Defined
  <2> SUFFICES ASSUME NEW r \in scrapes', r.own PROVE r \in scrapes /\ r.target \in Defined
    OBVIOUS
  <2>1. PICK s \in scrapes : r = Kept(s)
    BY <1>1
  <2>2. s.target \in Defined
    BY <1>3, <2>1
  <2> QED BY <1>4, <2>1, <2>2
<1>6. \A r \in scrapes : r.target \in Defined => r \in scrapes'
  BY <1>1, <1>4
<1>7. Defined \subseteq Targets /\ Defined' = Defined
  BY <1>1 DEF Defined, inForce
<1>8. timer' \in 0..CheckInterval
  <2> DEFINE f == [t \in Defined |-> Look(schedule[t])]
  <2>1. \A t \in Defined : schedule[t] \in States
    BY <1>2, <1>7 DEF LookFits
  <2>2. \A t \in Defined : f[t] \in Int
    BY <2>1, ScheduleAssumption DEF Look, States
  <2>3. timer' = Max({0, Min({CheckInterval} \cup {Look(schedule[t]) : t \in Defined})})
    BY DEF sleep
  <2> HIDE DEF f
  <2>4. f = [t \in Defined |-> Look(schedule[t])]
    BY DEF f
  <2> QED BY <2>2, <2>3, <2>4, TimerFits
<1>9. Typed'
  <2>1. scrapes' \subseteq Scraping
    BY <1>1, <1>3
  <2>2. /\ schedule' \in [Targets -> States \cup {NoState}]
        /\ running' \in [Targets -> BOOLEAN] /\ awaited' \in [Targets -> BOOLEAN]
    BY <1>1
  <2>3. timer' \in (-Stall)..CheckInterval
    BY <1>8, ScheduleAssumption
  <2>4. planned' \in 0..generation
    BY <1>1
  <2> QED BY <1>1, <1>2, <2>1, <2>2, <2>3, <2>4 DEF inForce
<1>10. StatesFit' /\ UnknownIdle'
  BY <1>1, <1>7 DEF StatesFit, Fits, UnknownIdle, inForce
<1>11. FlagsFit'
  <2>1. \A t \in Targets : running'[t] <=> t \in Defined /\ \E s \in scrapes : s.target = t /\ Runs(s)
    BY <1>1 DEF FlagsFit
  <2> QED BY <1>5, <1>6, <2>1 DEF FlagsFit, Runs
<1>12. ScrapesFit'
  <2>1. ASSUME NEW s \in scrapes
        PROVE  /\ Kept(s).read \in 1..generation /\ Kept(s).left >= -Overrun
               /\ stay[s.target] # 0 /\ stay[s.target] <= s.read => Kept(s).own
    BY <1>3 DEF ScrapesFit, Stands, Defined
  <2>2. ASSUME NEW r \in scrapes'
        PROVE  /\ r.read \in 1..generation /\ r.left >= -Overrun
               /\ stay[r.target] # 0 /\ stay[r.target] <= r.read => r.own
    <3>1. PICK s \in scrapes : r = Kept(s)
      BY <1>1
    <3> QED BY <1>3, <2>1, <3>1
  <2> QED BY <1>1, <2>2 DEF ScrapesFit, Stands, inForce
<1>13. OneRuns'
  BY <1>5 DEF OneRuns, Runs
<1>14. LookFits'
  BY <1>2 DEF LookFits
<1>15. WakesToCome'
  <2>1. ASSUME NEW t \in Targets, schedule'[t] # NoState
        PROVE  /\ t \in Defined /\ schedule'[t] = schedule[t] /\ awaited'[t] = awaited[t]
               /\ Settled(t) /\ (Has(t) # {} => Has(t)' # {})
    <3>1. t \in Defined /\ schedule'[t] = schedule[t] /\ awaited'[t] = awaited[t]
      BY <1>1, <2>1
    <3>2. Settled(t)
      BY <1>2, <3>1 DEF Settled
    <3> QED BY <1>6, <3>1, <3>2 DEF Has
  <2> QED BY <1>1, <2>1 DEF WakesToCome
<1>16. InTurn'
  <2>1. \A r \in scrapes' : Runs(r) => r \in scrapes /\ schedule'[r.target] = schedule[r.target]
    BY <1>1, <1>5, <1>7 DEF Runs
  <2> QED BY <2>1 DEF InTurn, Runs, Before
<1> QED BY <1>9, <1>10, <1>11, <1>12, <1>13, <1>14, <1>15, <1>16

-----------------------------------------------------------------------------
(* A scrape, the shutdown, reloads and time. *)

\* A scrape moves on, and to where it has ended only with its flag.
LEMMA MoveKeeps ==
  ASSUME ScheduleInv, NEW s \in scrapes, NEW to \in {"scraping", "over", "wake"}, s.at # "wake",
         Moves(s, to),
         running' = IF to = "wake" /\ s.own THEN [running EXCEPT ![s.target] = FALSE] ELSE running,
         UNCHANGED <<inForce, schedule, planned, awaited, loop, timer, ended, slots, stop>>
  PROVE  ScheduleInv'
<1> USE DEF ScheduleInv, Typed
<1> DEFINE new == [s EXCEPT !.at = to]
<1>1. scrapes' = (scrapes \ {s}) \cup {new} /\ s.target \in Targets /\ s \in Scraping
  BY DEF Moves, Scraping
<1>2. /\ new \in Scraping /\ new.at = to /\ new.target = s.target /\ new.own = s.own
      /\ new.left = s.left /\ new.read = s.read
  BY <1>1 DEF Scraping
<1> HIDE DEF new
<1>3. Typed'
  <2>1. scrapes' \subseteq Scraping /\ running' \in [Targets -> BOOLEAN]
    BY <1>1, <1>2
  <2> QED BY <2>1 DEF inForce
<1>4. \A t \in Targets : running'[t] = (running[t] /\ ~(to = "wake" /\ s.own /\ t = s.target))
  BY <1>1
<1>5. StatesFit' /\ UnknownIdle' /\ LookFits'
  BY <1>4 DEF StatesFit, Fits, UnknownIdle, LookFits, Defined, inForce
<1>6. FlagsFit'
  <2>1. ASSUME NEW t \in Targets, running'[t]
        PROVE  \E r \in scrapes' : r.target = t /\ r.own /\ r.at # "wake"
    <3>1. PICK r \in scrapes : r.target = t /\ Runs(r)
      BY <1>4, <2>1 DEF FlagsFit
    <3>2. CASE r = s
      BY <1>1, <1>2, <1>4, <2>1, <3>1, <3>2 DEF Runs
    <3>3. CASE r # s
      BY <1>1, <3>1, <3>3 DEF Runs
    <3> QED BY <3>2, <3>3
  <2>2. ASSUME NEW t \in Targets, NEW r \in scrapes', r.target = t, r.own, r.at # "wake"
        PROVE  running'[t]
    <3>1. CASE r = new
      BY <1>1, <1>2, <1>4, <2>2, <3>1 DEF FlagsFit, Runs
    <3>2. CASE r # new
      <4>1. r \in scrapes /\ r # s /\ Runs(r) /\ running[t]
        BY <1>1, <2>2, <3>2 DEF FlagsFit, Runs
      <4>2. s.own => t # s.target
        BY <2>2, <4>1 DEF OneRuns, Runs
      <4> QED BY <1>4, <4>1, <4>2
    <3> QED BY <3>1, <3>2
  <2> QED BY <2>1, <2>2, <1>3 DEF FlagsFit, Runs
<1>7. ScrapesFit'
  BY <1>1, <1>2 DEF ScrapesFit, Stands, inForce
<1>8. OneRuns'
  BY <1>1, <1>2 DEF OneRuns, Runs
<1>9. WakesToCome'
  <2>1. \A t \in Targets : Has(t) # {} => Has(t)' # {}
    BY <1>1, <1>2 DEF Has
  <2> QED BY <2>1 DEF WakesToCome, Settled, Defined, inForce
<1>10. InTurn'
  BY <1>1, <1>2 DEF InTurn, Runs, Before
<1> QED BY <1>3, <1>5, <1>6, <1>7, <1>8, <1>9, <1>10

LEMMA WakeLoopKeeps ==
  ASSUME ScheduleInv, NEW s \in scrapes, wakeLoop(s)
  PROVE  ScheduleInv'
<1> USE DEF ScheduleInv, Typed
<1>1. /\ s.at = "wake" /\ s \in Scraping /\ s.target \in Targets
      /\ s.own \in BOOLEAN /\ s.asked \in BOOLEAN
      /\ awaited' = IF s.own THEN [awaited EXCEPT ![s.target] = FALSE] ELSE awaited
      /\ ended' = (ended \/ IF s.own THEN awaited[s.target] ELSE s.asked)
      /\ scrapes' = scrapes \ {s}
      /\ UNCHANGED <<inForce, schedule, planned, running, loop, timer, slots, stop>>
  BY DEF wakeLoop, Scraping
<1>2. \A t \in Targets : awaited'[t] = (awaited[t] /\ ~(s.own /\ t = s.target))
  BY <1>1
<1>3. \A t \in Targets : awaited[t] => awaited'[t] \/ ended'
  BY <1>1, <1>2
<1>4. ended => ended'
  BY <1>1
<1>5. Typed'
  <2>1. awaited' \in [Targets -> BOOLEAN] /\ ended' \in BOOLEAN
    BY <1>1
  <2> QED BY <1>1, <2>1 DEF inForce
<1>6. StatesFit' /\ UnknownIdle'
  BY <1>1, <1>2 DEF StatesFit, Fits, UnknownIdle, inForce
<1>7. FlagsFit' /\ ScrapesFit' /\ OneRuns' /\ InTurn'
  BY <1>1 DEF FlagsFit, ScrapesFit, OneRuns, InTurn, Runs, Before, Stands, inForce
<1>8. LookFits'
  <2>1. loop.at = "again" => loop.target \in Targets
    BY DEF LookFits, Defined
  <2> QED BY <1>1, <1>3, <1>4, <2>1 DEF LookFits, Defined, inForce
<1>9. WakesToCome'
  <2>1. \A t \in Targets : awaited'[t] /\ Has(t) # {} => Has(t)' # {}
    BY <1>1, <1>2 DEF Has
  <2> QED BY <1>1, <1>3, <1>4, <2>1 DEF WakesToCome, Settled, Defined, inForce
<1> QED BY <1>5, <1>6, <1>7, <1>8, <1>9

LEMMA ScrapeKeeps ==
  ASSUME ScheduleInv, NEW s \in scrapes, takeSlot(s) \/ Ends(s)
  PROVE  ScheduleInv'
<1>1. CASE takeSlot(s)
  <2>1. \E to \in {"scraping", "over"} : Moves(s, to)
    BY <1>1 DEF takeSlot
  <2> QED BY <1>1, <2>1, MoveKeeps DEF takeSlot, flags
<1>2. CASE giveUp(s) \/ scraped(s)
  BY <1>2, MoveKeeps DEF giveUp, scraped, flags
<1>3. CASE clearRunning(s)
  BY <1>3, MoveKeeps DEF clearRunning
<1>4. CASE wakeLoop(s)
  BY <1>4, WakeLoopKeeps
<1> QED BY <1>1, <1>2, <1>3, <1>4 DEF Ends

LEMMA StopKeeps == ScheduleInv /\ (stops \/ leaves \/ returns \/ UNCHANGED svars) => ScheduleInv'
<1> SUFFICES ASSUME ScheduleInv, stops \/ leaves \/ returns \/ UNCHANGED svars PROVE ScheduleInv'
  OBVIOUS
<1> USE DEF ScheduleInv, Typed
<1>1. /\ loop' = loop \/ loop' = Left
      /\ stop' \in {"no", "stopping", "stopped"}
      /\ UNCHANGED <<inForce, schedule, planned, flags, timer, ended, slots, scrapes>>
  BY DEF stops, leaves, returns, svars
<1>2. loop' \in Loops
  BY <1>1 DEF Left, Loops
<1>3. Typed'
  BY <1>1, <1>2 DEF inForce, flags
<1>4. StatesFit' /\ UnknownIdle' /\ FlagsFit' /\ ScrapesFit' /\ OneRuns' /\ InTurn'
  BY <1>1 DEF StatesFit, Fits, UnknownIdle, FlagsFit, ScrapesFit, OneRuns, InTurn, Before, Runs,
              Stands, inForce, flags
<1>5. LookFits' /\ WakesToCome'
  <2>1. CASE loop' = Left
    BY <2>1 DEF LookFits, WakesToCome, Settled, Left
  <2>2. CASE loop' = loop
    <3>1. Defined' = Defined /\ \A t \in Targets : Has(t)' = Has(t)
      BY <1>1 DEF Defined, Has, inForce
    <3> QED BY <1>1, <2>2, <3>1 DEF LookFits, WakesToCome, Settled, flags
  <2> QED BY <1>1, <2>1, <2>2
<1> QED BY <1>3, <1>4, <1>5

LEMMA ReloadKeeps == ScheduleInv /\ reload => ScheduleInv'
<1> SUFFICES ASSUME ScheduleInv, reload PROVE ScheduleInv'
  OBVIOUS
<1> USE DEF ScheduleInv, Typed
<1>1. /\ loop = Asleep /\ loop.at = "asleep" /\ loop.todo = {}
      /\ generation <= MaxReloads /\ generation' = generation + 1 /\ generation \in Nat
      /\ UNCHANGED <<schedule, planned, flags, loop, timer, ended, slots, scrapes, stop>>
  BY DEF reload, Asleep
<1>2. /\ interval' \in [Targets -> Intervals] /\ concurrency' \in Limits
      /\ stay' \in [Targets -> 0..generation']
      /\ \A t \in Targets : stay'[t] \in {0, generation + 1, stay[t]}
  <2>1. CASE \E t \in Targets : removeTarget(t)
    BY <1>1, <2>1 DEF removeTarget
  <2>2. CASE \E t \in Targets, i \in Intervals : changeTarget(t, i)
    BY <1>1, <2>2 DEF changeTarget
  <2>3. CASE \E l \in Limits : changeLimit(l)
    BY <1>1, <2>3 DEF changeLimit
  <2> QED BY <2>1, <2>2, <2>3 DEF reload
<1>3. Typed'
  <2>1. generation' \in 1..(MaxReloads + 1) /\ planned' \in 0..generation'
    BY <1>1, ScheduleAssumption
  <2> QED BY <1>1, <1>2, <2>1 DEF flags
<1>4. StatesFit' /\ UnknownIdle' /\ FlagsFit' /\ OneRuns' /\ InTurn'
  BY <1>1 DEF StatesFit, Fits, UnknownIdle, FlagsFit, OneRuns, InTurn, Before, Runs, flags
<1>5. ScrapesFit'
  <2>1. ASSUME NEW s \in scrapes
        PROVE  /\ s.read \in 1..generation' /\ s.left >= -Overrun
               /\ stay'[s.target] # 0 /\ stay'[s.target] <= s.read => s.own
    <3>1. s.target \in Targets /\ s.read \in 1..generation
      BY DEF Scraping, ScrapesFit
    <3> QED BY <1>1, <1>2, <3>1 DEF ScrapesFit, Stands
  <2> QED BY <1>1, <2>1 DEF ScrapesFit, Stands
<1>6. LookFits' /\ WakesToCome'
  BY <1>1 DEF LookFits, WakesToCome, Settled, Has, flags
<1> QED BY <1>3, <1>4, <1>5, <1>6

LEMMA TickKeeps == ScheduleInv /\ tick => ScheduleInv'
<1> SUFFICES ASSUME ScheduleInv, tick PROVE ScheduleInv'
  OBVIOUS
<1> USE DEF ScheduleInv, Typed
<1> DEFINE Later(s) == [s EXCEPT !.left = @ - 1]
           Nearer(st) == [st EXCEPT !.next = @ - 1,
                                    !.cadence = IF st.first THEN @ - 1 ELSE 0,
                                    !.until = IF st.waiting THEN @ - 1 ELSE 0]
<1>1. /\ loop = Asleep /\ loop.at = "asleep" /\ loop.todo = {}
      /\ timer > -Stall /\ timer' = timer - 1
      /\ \A s \in scrapes : s.left > -Overrun
      /\ scrapes' = {Later(s) : s \in scrapes}
      /\ schedule' = [t \in Targets |-> IF schedule[t] = NoState THEN NoState ELSE Nearer(schedule[t])]
      /\ UNCHANGED <<inForce, planned, flags, loop, ended, slots, stop>>
  BY DEF tick, Asleep
<1>2. ASSUME NEW s \in scrapes
      PROVE  /\ Later(s) \in Scraping /\ Later(s).target = s.target /\ Later(s).at = s.at
             /\ Later(s).own = s.own /\ Later(s).read = s.read /\ Later(s).left = s.left - 1
             /\ s.target \in Targets /\ s.left \in Int
  BY DEF Scraping
<1>3. ASSUME NEW st \in States
      PROVE  /\ Nearer(st).since = st.since /\ Nearer(st).interval = st.interval
             /\ Nearer(st).next = st.next - 1 /\ Nearer(st).first = st.first
             /\ Nearer(st).putOff = st.putOff /\ Nearer(st).waiting = st.waiting
             /\ st.waiting => Nearer(st).until = st.until - 1
             /\ Nearer(st).cadence \in Int /\ Nearer(st).until \in Int
             /\ st.next \in Int
  BY 0 \in Int DEF States
<1>4. ASSUME NEW st \in States
      PROVE  Nearer(st) \in States
  <2> DEFINE point == IF st.first THEN st.cadence - 1 ELSE 0
             turn  == IF st.waiting THEN st.until - 1 ELSE 0
  <2>1. st.next - 1 \in Int /\ point \in Int /\ turn \in Int
    BY DEF States
  <2>2. Nearer(st) = [st EXCEPT !.next = st.next - 1, !.cadence = point, !.until = turn]
    OBVIOUS
  <2> HIDE DEF Nearer, point, turn
  <2> QED BY <2>1, <2>2 DEF States
<1> HIDE DEF Later, Nearer
<1>5. \A t \in Targets : schedule[t] # NoState =>
        schedule[t] \in States /\ schedule'[t] = Nearer(schedule[t])
  BY <1>1
<1>6. \A t \in Targets : schedule'[t] # NoState => schedule[t] # NoState
  BY <1>1
<1>7. \A t \in Targets : schedule[t] = NoState => schedule'[t] = NoState
  BY <1>1
<1>8. Typed'
  <2>1. schedule' \in [Targets -> States \cup {NoState}]
    BY <1>1, <1>4
  <2>2. scrapes' \subseteq Scraping
    BY <1>1, <1>2
  <2>3. timer' \in (-Stall)..CheckInterval
    BY <1>1, ScheduleAssumption
  <2> QED BY <1>1, <2>1, <2>2, <2>3 DEF inForce, flags
<1>9. StatesFit'
  <2>1. \A st \in States : Fits(st) => Fits(Nearer(st))
    BY <1>3 DEF Fits
  <2> QED BY <1>1, <1>5, <1>6, <2>1 DEF StatesFit, Fits, inForce
<1>10. UnknownIdle'
  <2>1. \A t \in Targets : schedule'[t] = NoState => schedule[t] = NoState
    BY <1>4, <1>5, NoStateIsNone
  <2> QED BY <1>1, <2>1 DEF UnknownIdle, flags
<1>11. FlagsFit' /\ OneRuns'
  BY <1>1, <1>2 DEF FlagsFit, OneRuns, Runs, flags
<1>12. ScrapesFit'
  <2>1. \A s \in scrapes : Later(s).left >= -Overrun
    BY <1>1, <1>2, ScheduleAssumption
  <2> QED BY <1>1, <1>2, <2>1 DEF ScrapesFit, Stands, inForce
<1>13. LookFits'
  BY <1>1 DEF LookFits
<1>14. WakesToCome'
  <2>1. \A t \in Targets : Has(t) # {} => Has(t)' # {}
    BY <1>1, <1>2 DEF Has
  <2>2. ASSUME NEW t \in Targets, schedule'[t] # NoState
        PROVE  /\ schedule[t] # NoState /\ schedule'[t].waiting = schedule[t].waiting
               /\ schedule'[t].putOff = schedule[t].putOff
    BY <1>3, <1>5, <1>6, <2>2
  <2> QED BY <1>1, <2>1, <2>2 DEF WakesToCome, Settled, flags
<1>15. InTurn'
  <2>1. ASSUME NEW s \in scrapes, Runs(s), schedule'[s.target] # NoState
        PROVE  schedule'[s.target].first \/ Before(Later(s), schedule'[s.target])
    <3> DEFINE st == schedule[s.target]
    <3>1. st \in States /\ st # NoState /\ schedule'[s.target] = Nearer(st)
      BY <1>2, <1>5, <1>6, <2>1
    <3>2. st.first \/ Before(s, st)
      BY <2>1, <3>1 DEF InTurn
    <3>3. st.interval \in Int
      <4>1. \A i \in Intervals : i \in Int
        BY ScheduleAssumption
      <4> QED BY <3>1, <4>1 DEF States
    <3> HIDE DEF st
    <3> QED BY <1>2, <1>3, <3>1, <3>2, <3>3 DEF Before
  <2> QED BY <1>1, <1>2, <2>1 DEF InTurn, Runs, Before
<1> QED BY <1>8, <1>9, <1>10, <1>11, <1>12, <1>13, <1>14, <1>15

LEMMA ScheduleStepInv == ScheduleInv /\ [ScheduleNext]_svars => ScheduleInv'
<1> SUFFICES ASSUME ScheduleInv, [ScheduleNext]_svars PROVE ScheduleInv'
  OBVIOUS
<1>1. CASE Looks
  BY <1>1, WakeKeeps, PlanKeeps, AskKeeps, AgainKeeps, SleepKeeps DEF Looks
<1>2. CASE \E s \in scrapes : takeSlot(s) \/ Ends(s)
  BY <1>2, ScrapeKeeps
<1>3. CASE stops \/ leaves \/ returns \/ UNCHANGED svars
  BY <1>3, StopKeeps
<1>4. CASE reload
  BY <1>4, ReloadKeeps
<1>5. CASE tick
  BY <1>5, TickKeeps
<1> QED BY <1>1, <1>2, <1>3, <1>4, <1>5 DEF ScheduleNext

-----------------------------------------------------------------------------
(* What the schedule promises. *)

\* ScheduleTypeOK says of the variables what Typed and the facts about states,
\* scrapes and flags say of them.
LEMMA TypedSchedule == ScheduleInv => ScheduleTypeOK
<1> SUFFICES ASSUME ScheduleInv PROVE ScheduleTypeOK
  OBVIOUS
<1> USE DEF ScheduleInv, Typed
<1>1. ASSUME NEW t \in Targets
      PROVE  \/ schedule[t] = NoState /\ ~running[t] /\ ~awaited[t]
             \/ /\ schedule[t].since \in 1..generation /\ schedule[t].interval \in Intervals
                /\ {schedule[t].next, schedule[t].cadence, schedule[t].until} \subseteq Int
                /\ {schedule[t].first, schedule[t].putOff, schedule[t].waiting} \subseteq BOOLEAN
  BY DEF UnknownIdle, StatesFit, Fits, States
<1>2. running = [t \in Targets |-> \E s \in Of(t) : s.at # "wake"]
  BY DEF FlagsFit, Runs, Of
<1>3. /\ loop.at \in {"asleep", "plan", "ask", "again", "left"} /\ loop.todo \subseteq Targets
      /\ loop.at \in {"ask", "again"} => schedule[loop.target] # NoState
  BY DEF Loops, LookFits
<1>4. slots.number \in Nat /\ slots.limit \in Limits \cup {0}
  BY DEF Channels
<1>5. \A s \in scrapes :
       /\ s.target \in Targets /\ {s.own, s.asked} \subseteq BOOLEAN /\ s.read \in 1..generation
       /\ s.left >= -Overrun /\ s.at \in {"slot", "scraping", "over", "wake"}
  BY DEF Scraping, ScrapesFit
<1> QED BY <1>1, <1>2, <1>3, <1>4, <1>5 DEF ScheduleTypeOK

LEMMA ScheduleInvariance == ScheduleSpec => []ScheduleInv
<1>1. ScheduleInit => ScheduleInv
  BY InitialSchedule
<1>2. ScheduleInv /\ [ScheduleNext]_svars => ScheduleInv'
  BY ScheduleStepInv
<1> QED BY <1>1, <1>2, PTL DEF ScheduleSpec

\* Two scrapes of a target never run at once, and one that may publish is the
\* target's own: the flag that a look goes by before it sets off a scrape
\* (planFollowed) is that of the one scrape there is, through every reload
\* between the looks.
THEOREM ScrapesOneAtATime == ScheduleSpec => []OneAtATime
<1>1. ScheduleInv => OneAtATime
  <2> SUFFICES ASSUME ScheduleInv PROVE OneAtATime
    OBVIOUS
  <2>1. \A s, r \in scrapes :
          s # r /\ s.target = r.target /\ {s.at, r.at} \cap {"wake"} = {} => ~s.own \/ ~r.own
    BY DEF ScheduleInv, OneRuns, Runs
  <2>2. \A s \in scrapes : Stands(s) => s.own
    BY DEF ScheduleInv, ScrapesFit
  <2> QED BY <2>1, <2>2, TypedSchedule DEF OneAtATime
<1> QED BY <1>1, ScheduleInvariance, PTL

\* The loop never sleeps on a scrape that has ended, though the flag it waits
\* for is cleared, and asked for, at any time; and no turn waits for a scrape
\* that is given as long as the turn has.
THEOREM WaitsAlwaysEnd == ScheduleSpec => []WaitsEnd
<1>1. ScheduleInv => WaitsEnd
  <2> SUFFICES ASSUME ScheduleInv PROVE WaitsEnd
    OBVIOUS
  <2>1. WakeKept
    <3>1. loop = Asleep => loop.at = "asleep"
      BY DEF Asleep
    <3> QED BY <3>1, HasOf DEF WakeKept, ScheduleInv, WakesToCome, Settled
  <2>2. WaitsWithinTurn
    <3>1. ASSUME NEW t \in Targets, NEW s \in Of(t),
                 schedule[t] # NoState, schedule[t].waiting, s.at # "wake"
          PROVE  s.left < schedule[t].until
      <4>1. s \in scrapes /\ s.target = t /\ Runs(s)
        BY <3>1 DEF Of, Runs
      <4>2. schedule[t].until = schedule[t].next /\ ~schedule[t].first
        BY <3>1 DEF ScheduleInv, StatesFit, Fits
      <4> QED BY <3>1, <4>1, <4>2 DEF ScheduleInv, InTurn, Before
    <3> QED BY <3>1 DEF WaitsWithinTurn
  <2> QED BY <2>1, <2>2 DEF WaitsEnd
<1> QED BY <1>1, ScheduleInvariance, PTL

-----------------------------------------------------------------------------
(* The slots of trips. *)

\* The trips are finitely many.
LEMMA TripsCounted ==
  \A S, T : S \subseteq T /\ T \subseteq Trips =>
    IsFiniteSet(S) /\ IsFiniteSet(T) /\ Cardinality(S) \in Nat /\ Cardinality(T) \in Nat
    /\ Cardinality(S) <= Cardinality(T)
<1> TAKE S, T
<1> HAVE S \subseteq T /\ T \subseteq Trips
<1>1. T \in SUBSET Trips /\ S \in SUBSET T
  OBVIOUS
<1>2. IsFiniteSet(T)
  BY <1>1, LimiterAssumption, FS_Subset
<1>3. IsFiniteSet(S) /\ Cardinality(S) <= Cardinality(T)
  BY <1>1, <1>2, FS_Subset
<1> QED BY <1>2, <1>3, FS_CardinalityType

-----------------------------------------------------------------------------

\* A slot is handed to who waits or has stopped waiting and not left yet.
HandedOver == \A t \in granted : at[t] \in {"waiting", "leaving"}

\* Of a collector, no more trips that read a limit of m or less than m have a
\* slot: what a limit lets begin is counted with all that had begun.
Under(c, m) == {t \in Holders(c) : limit[t] <= m}
WithinLimits == \A c \in Collectors, m \in Nat : Cardinality(Under(c, m)) <= m
CeilingKept == Ceiling > 0 => total <= Ceiling

SlotsInv ==
  /\ TypeOK /\ SlotsCounted /\ LineHeld /\ NoneLeftWaiting
  /\ HandedOver /\ WithinLimits /\ CeilingKept

\* The highest limit one of a collector's trips read is not exceeded.
LEMMA LimitsKept == SlotsInv => LimitKept
<1> HAVE SlotsInv
<1> SUFFICES ASSUME NEW c \in Collectors, inFlight[c] > 0
             PROVE  \E t \in Holders(c) : inFlight[c] <= limit[t]
  BY DEF LimitKept, SlotsInv, CeilingKept
<1> DEFINE H == Holders(c)
           R == {p \in H \X H : limit[p[1]] < limit[p[2]]}
<1>1. IsFiniteSet(H) /\ Cardinality(H) = inFlight[c] /\ H \subseteq Trips
  BY TripsCounted DEF Holders, Holding, SlotsInv, SlotsCounted
<1>2. H # {}
  BY <1>1, FS_EmptySet
<1>3. \A t \in H : limit[t] \in Nat
  BY <1>1 DEF SlotsInv, TypeOK
<1>4. \E t \in H : \A s \in H : <<t, s>> \notin R
  <2>3. \A t, s \in H : <<t, s>> \in R <=> limit[t] < limit[s]
    OBVIOUS
  <2>1. \A s \in H : <<s, s>> \notin R
    BY <1>3, <2>3
  <2>2. \A s, t, u \in H : <<s, t>> \in R /\ <<t, u>> \in R => <<s, u>> \in R
    <3> HIDE DEF R, H
    <3> QED BY <1>3, <2>3
  <2> HIDE DEF R, H
  <2> QED BY <1>1, <1>2, <2>1, <2>2, Maximal
<1>5. PICK t \in H : \A s \in H : <<t, s>> \notin R
  BY <1>4
<1>6. ASSUME NEW s \in H PROVE limit[s] <= limit[t]
  <2>1. <<t, s>> \in H \X H /\ <<t, s>>[1] = t /\ <<t, s>>[2] = s
    OBVIOUS
  <2>2. ~(limit[t] < limit[s])
    BY <1>5, <2>1
  <2> QED BY <1>3, <2>2
<1>7. Under(c, limit[t]) = H
  BY <1>6 DEF Under
<1>8. Cardinality(H) <= limit[t]
  BY <1>3, <1>7 DEF SlotsInv, WithinLimits
<1> QED BY <1>1, <1>8

LEMMA InitialSlots == Init => SlotsInv
<1> HAVE Init
<1>1. Holding = {} /\ \A c : Holders(c) = {}
  BY DEF Init, Holding, Holders
<1>2. \A c, m : Under(c, m) = {}
  BY <1>1 DEF Under
<1>3. Cardinality({}) = 0
  BY FS_EmptySet
<1>4. TypeOK
  BY DEF Init, TypeOK, Trips
<1>5. SlotsCounted /\ WithinLimits
  <2>1. SlotsCounted
    BY <1>1, <1>3 DEF Init, SlotsCounted
  <2>2. \A m \in Nat : 0 <= m
    OBVIOUS
  <2>3. \A c, m : Cardinality(Under(c, m)) = 0
    BY <1>2, <1>3
  <2>4. WithinLimits
    BY <2>2, <2>3 DEF WithinLimits
  <2> QED BY <2>1, <2>4
<1>6. LineHeld /\ NoneLeftWaiting /\ HandedOver
  BY DEF Init, LineHeld, NoneLeftWaiting, HandedOver
<1>7. CeilingKept
  BY LimiterAssumption DEF Init, CeilingKept
<1> QED BY <1>4, <1>5, <1>6, <1>7 DEF SlotsInv

\* Nothing changes for the slots when the same trips have them.
LEMMA SameHold ==
  ASSUME SlotsInv, Holding' = Holding, UNCHANGED <<inFlight, total>>,
         \A t \in Holding : limit'[t] = limit[t]
  PROVE  SlotsCounted' /\ WithinLimits' /\ CeilingKept'
<1>1. \A c : Holders(c)' = Holders(c) /\ Under(c, 0)' = Under(c, 0)
  BY DEF Holders, Under
<1>2. \A c, m : Under(c, m)' = Under(c, m)
  BY <1>1 DEF Under, Holders
<1>3. SlotsCounted'
  BY <1>1 DEF SlotsInv, SlotsCounted
<1>4. WithinLimits'
  BY <1>2 DEF SlotsInv, WithinLimits
<1>5. CeilingKept'
  BY DEF SlotsInv, CeilingKept
<1> QED BY <1>3, <1>4, <1>5

\* The line is the same when nobody joins it, leaves it or is handed a slot.
LEMMA SameLine ==
  ASSUME SlotsInv, UNCHANGED line,
         \A t \in Trips \ granted' :
           at'[t] \in {"waiting", "leaving"} <=> at[t] \in {"waiting", "leaving"} /\ t \notin granted,
         \A t \in granted' : t \notin waiting
  PROVE  LineHeld'
<1>1. waiting' = {t \in Trips : at'[t] \in {"waiting", "leaving"}} \ granted'
  BY DEF SlotsInv, LineHeld, line
<1> QED BY <1>1 DEF SlotsInv, LineHeld, line

\* A trip takes a slot that is free.
LEMMA TakenKeeps ==
  ASSUME SlotsInv, NEW t \in Trips, at[t] = "idle",
         NEW max \in LimitsOf(CollectorOf(t)), ~Full(t, max),
         limit' = [limit EXCEPT ![t] = max], at' = [at EXCEPT ![t] = "running"],
         takeLocked(CollectorOf(t)), UNCHANGED <<line, granted, expired>>
  PROVE  SlotsInv'
<1> DEFINE c == CollectorOf(t)
<1>1. c \in Collectors /\ max \in Nat
  BY LimiterAssumption
<1>2. TypeOK /\ t \notin granted /\ t \notin waiting
  BY DEF SlotsInv, HandedOver, LineHeld
<1>3. TypeOK'
  BY <1>1, <1>2 DEF TypeOK, takeLocked, line
<1>4. Holding \subseteq Trips /\ t \notin Holding /\ Holding' = Holding \cup {t}
  BY <1>2 DEF Holding, TypeOK
<1>5. /\ Holders(c) \subseteq Trips /\ t \notin Holders(c) /\ Holders(c)' = Holders(c) \cup {t}
      /\ \A d \in Collectors : d # c => Holders(d)' = Holders(d)
  BY <1>4 DEF Holders
<1>6. IsFiniteSet(Holding) /\ IsFiniteSet(Holders(c))
  BY <1>4, <1>5, TripsCounted
<1>7. /\ Cardinality(Holding \cup {t}) = Cardinality(Holding) + 1
      /\ Cardinality(Holders(c) \cup {t}) = Cardinality(Holders(c)) + 1
  BY <1>4, <1>5, <1>6, FS_AddElement
<1>8. SlotsCounted'
  <2>1. total' = Cardinality(Holding')
    BY <1>4, <1>7 DEF SlotsInv, SlotsCounted, takeLocked
  <2>2. ASSUME NEW d \in Collectors PROVE inFlight'[d] = Cardinality(Holders(d)')
    <3>1. inFlight[d] = Cardinality(Holders(d))
      BY DEF SlotsInv, SlotsCounted
    <3>2. inFlight'[d] = IF d = c THEN inFlight[d] + 1 ELSE inFlight[d]
      BY <1>1, <1>2 DEF TypeOK, takeLocked
    <3> QED BY <1>5, <1>7, <3>1, <3>2
  <2> QED BY <2>1, <2>2 DEF SlotsCounted
<1>9. LineHeld'
  <2>1. \A s \in Trips \ granted' :
          at'[s] \in {"waiting", "leaving"} <=> at[s] \in {"waiting", "leaving"} /\ s \notin granted
    BY <1>2 DEF TypeOK
  <2>2. \A s \in granted' : s \notin waiting
    BY DEF SlotsInv, LineHeld
  <2> QED BY <2>1, <2>2, SameLine
<1>10. NoneLeftWaiting'
  <2>1. SUFFICES ASSUME NEW s \in waiting PROVE Full(s, limit[s])'
    BY DEF NoneLeftWaiting, line
  <2>2. s \in Trips /\ s # t /\ CollectorOf(s) \in Collectors /\ limit'[s] = limit[s] /\ limit[s] \in Nat
    BY <1>2, LimiterAssumption DEF TypeOK, Trips
  <2>3. /\ inFlight[CollectorOf(s)] \in Nat /\ total \in Nat /\ Ceiling \in Nat /\ total' = total + 1
        /\ inFlight'[CollectorOf(s)] >= inFlight[CollectorOf(s)]
        /\ inFlight'[CollectorOf(s)] \in Nat
    BY <1>1, <1>2, <2>2, LimiterAssumption DEF TypeOK, takeLocked
  <2>4. Full(s, limit[s])
    BY DEF SlotsInv, NoneLeftWaiting
  <2> QED BY <2>2, <2>3, <2>4 DEF Full, fullLocked
<1>11. HandedOver'
  BY <1>2 DEF SlotsInv, HandedOver, TypeOK
<1>12. /\ inFlight[c] < max /\ inFlight[c] = Cardinality(Holders(c))
       /\ Ceiling > 0 => total < Ceiling
  BY <1>1, <1>2, LimiterAssumption DEF Full, fullLocked, SlotsInv, SlotsCounted, TypeOK
<1>13. WithinLimits'
  <2>1. SUFFICES ASSUME NEW d \in Collectors, NEW m \in Nat PROVE Cardinality(Under(d, m)') <= m
    BY DEF WithinLimits
  <2>2. Cardinality(Under(d, m)) <= m
    BY DEF SlotsInv, WithinLimits
  <2>3. \A s \in Holding : s \in Trips /\ limit'[s] = limit[s]
    BY <1>2, <1>4 DEF TypeOK
  <2>4. limit'[t] = max
    BY <1>2 DEF TypeOK
  <2>5. CASE d = c /\ max <= m
    <3>1. Under(d, m)' \subseteq Holders(c)' /\ Holders(c)' \subseteq Trips
      BY <1>5, <2>5 DEF Under
    <3>2. Cardinality(Under(d, m)') <= Cardinality(Holders(c)')
      BY <3>1, TripsCounted
    <3>3. Cardinality(Under(d, m)') \in Nat /\ Cardinality(Holders(c)) \in Nat
      BY <1>5, <3>1, TripsCounted
    <3> QED BY <1>1, <1>5, <1>7, <1>12, <2>5, <3>2, <3>3
  <2>6. CASE ~(d = c /\ max <= m)
    <3>1. Under(d, m)' = Under(d, m)
      BY <1>4, <1>5, <2>3, <2>4, <2>6 DEF Under, Holders
    <3> QED BY <2>2, <3>1
  <2> QED BY <2>5, <2>6
<1>14. CeilingKept'
  BY <1>2, <1>12, LimiterAssumption DEF CeilingKept, takeLocked, TypeOK
<1> QED BY <1>3, <1>8, <1>9, <1>10, <1>11, <1>13, <1>14 DEF SlotsInv

\* Some of the line have a last one: all the others are before it.
LEMMA LastInLine ==
  ASSUME SlotsInv, NEW Q \in SUBSET waiting, Q # {}
  PROVE  \E s \in Q : \A q \in Q \ {s} : q \in ahead[s]
<1> DEFINE R == {p \in Q \X Q : p[1] \in ahead[p[2]]}
<1>1. waiting \subseteq Trips
  BY DEF SlotsInv, LineHeld
<1>2. IsFiniteSet(Q)
  BY <1>1, TripsCounted
<1>3. \A s \in Q : s \notin ahead[s] /\ \A q \in Q \ {s} : q \in ahead[s] <=> s \notin ahead[q]
  BY DEF SlotsInv, LineHeld
<1>4. \A q, s, u \in Q : q \in ahead[s] /\ s \in ahead[u] => q \in ahead[u]
  BY DEF SlotsInv, LineHeld
<1>5. \A q, s \in Q : <<q, s>> \in R <=> q \in ahead[s]
  OBVIOUS
<1>6. (\A s \in Q : <<s, s>> \notin R) /\ (\A q, s, u \in Q : <<q, s>> \in R /\ <<s, u>> \in R => <<q, u>> \in R)
  BY <1>3, <1>4, <1>5
<1> HIDE DEF R
<1>7. PICK s \in Q : \A q \in Q : <<s, q>> \notin R
  BY <1>2, <1>6, Maximal
<1>8. ASSUME NEW q \in Q \ {s} PROVE q \in ahead[s]
  <2>1. s \notin ahead[q]
    BY <1>5, <1>7
  <2> QED BY <1>3, <2>1
<1> QED BY <1>8

\* A trip gives back its slot, and what is then free is handed over.
LEMMA FreedKeeps ==
  ASSUME SlotsInv, NEW t \in Holding, at[t] \in {"running", "leaving"},
         at' = [at EXCEPT ![t] = "idle"], limit' = limit, expired' \subseteq Scrapes,
         releaseLocked(CollectorOf(t))
  PROVE  SlotsInv'
<1> DEFINE c == CollectorOf(t)
           of == [inFlight EXCEPT ![c] = IF @ > 1 THEN @ - 1 ELSE 0]
           all == total - 1
           Kept(d) == Holders(d) \ {t}
           Among(Q, d) == {s \in Q : CollectorOf(s) = d}
<1>1. TypeOK /\ t \in Trips /\ c \in Collectors
  BY LimiterAssumption DEF SlotsInv, Holding
<1>2. PICK P \in SUBSET waiting :
        /\ Served(P, of, all)
        /\ inFlight' = [d \in Collectors |-> of[d] + TakenBy(P, d)]
        /\ total' = all + Cardinality(P)
        /\ granted' = P \cup {s \in granted : at'[s] # "idle"}
        /\ outOfLine(P)
  BY DEF releaseLocked
<1>3. /\ waiting \subseteq Scrapes /\ waiting \subseteq Trips /\ t \notin waiting /\ waiting \cap Holding = {}
      /\ \A s \in waiting : at[s] \in {"waiting", "leaving"} /\ s \notin granted
      /\ \A s \in granted : s \in Trips /\ at[s] \in {"waiting", "leaving"}
  BY <1>1 DEF SlotsInv, TypeOK, LineHeld, HandedOver, Holding, Trips
<1>4. \A s \in Trips : at'[s] = IF s = t THEN "idle" ELSE at[s]
  BY <1>1 DEF TypeOK
<1>5. granted' = P \cup (granted \ {t})
  BY <1>2, <1>3, <1>4
<1>6. Holding' = (Holding \ {t}) \cup P
  BY <1>2, <1>3, <1>4, <1>5 DEF Holding
<1>7. \A d : Holders(d)' = Kept(d) \cup Among(P, d)
  BY <1>6 DEF Holders
<1>8. /\ Holding \subseteq Trips /\ IsFiniteSet(Holding) /\ IsFiniteSet(Holding \ {t})
      /\ Cardinality(Holding) = total /\ Cardinality(Holding \ {t}) = all
      /\ all \in Nat
  <2>1. Holding \subseteq Trips /\ Holding \ {t} \subseteq Holding
    BY DEF Holding
  <2>2. IsFiniteSet(Holding) /\ IsFiniteSet(Holding \ {t}) /\ Cardinality(Holding \ {t}) \in Nat
    BY <2>1, TripsCounted
  <2>3. Cardinality(Holding) = total
    BY DEF SlotsInv, SlotsCounted
  <2> QED BY <2>1, <2>2, <2>3, FS_RemoveElement
<1>9. \A d \in Collectors : IsFiniteSet(Kept(d)) /\ Cardinality(Kept(d)) = of[d] /\ of[d] \in Nat
  <2> TAKE d \in Collectors
  <2>1. Holders(d) \subseteq Trips /\ Kept(d) \subseteq Holders(d)
    BY <1>8 DEF Holders
  <2>2. IsFiniteSet(Holders(d)) /\ IsFiniteSet(Kept(d)) /\ Cardinality(Kept(d)) \in Nat /\ Cardinality(Holders(d)) \in Nat
    BY <2>1, TripsCounted
  <2>3. Cardinality(Holders(d)) = inFlight[d] /\ inFlight[d] \in Nat
    BY <1>1 DEF SlotsInv, SlotsCounted, TypeOK
  <2>4. Cardinality(Kept(d)) = IF t \in Holders(d) THEN inFlight[d] - 1 ELSE inFlight[d]
    BY <2>2, <2>3, FS_RemoveElement
  <2>5. t \in Holders(d) <=> d = c
    BY DEF Holders
  <2>6. of[d] = IF d = c THEN (IF inFlight[d] > 1 THEN inFlight[d] - 1 ELSE 0) ELSE inFlight[d]
    BY <1>1 DEF TypeOK
  <2> HIDE DEF of, Kept, c
  <2> QED BY <2>2, <2>3, <2>4, <2>5, <2>6
<1>10. \A Q, d : Q \subseteq P => /\ IsFiniteSet(Q) /\ IsFiniteSet(Among(Q, d))
                                 /\ Cardinality(Q) \in Nat /\ TakenBy(Q, d) \in Nat
                                 /\ TakenBy(Q, d) = Cardinality(Among(Q, d))
                                 /\ TakenBy(Q, d) <= TakenBy(P, d) /\ TakenBy(P, d) \in Nat
                                 /\ Cardinality(Q) <= Cardinality(P) /\ Cardinality(P) \in Nat
  <2> TAKE Q, d
  <2> HAVE Q \subseteq P
  <2>1. Among(Q, d) \subseteq Among(P, d) /\ Among(P, d) \subseteq Trips /\ Q \subseteq P /\ P \subseteq Trips
    BY <1>3
  <2>2. TakenBy(Q, d) = Cardinality(Among(Q, d)) /\ TakenBy(P, d) = Cardinality(Among(P, d))
    BY DEF TakenBy
  <2> HIDE DEF Among
  <2> QED BY <2>1, <2>2, TripsCounted
<1>11. /\ IsFiniteSet(Holding') /\ Cardinality(Holding') = all + Cardinality(P)
       /\ \A d \in Collectors : Cardinality(Holders(d)') = of[d] + TakenBy(P, d)
  <2>1. (Holding \ {t}) \cap P = {} /\ \A d : Kept(d) \cap Among(P, d) = {}
    BY <1>2, <1>3 DEF Holders
  <2>2. IsFiniteSet(P) /\ \A d : IsFiniteSet(Among(P, d)) /\ TakenBy(P, d) = Cardinality(Among(P, d))
    BY <1>10
  <2>3. IsFiniteSet(Holding') /\ Cardinality(Holding') = all + Cardinality(P)
    BY <1>6, <1>8, <2>1, <2>2, CountedApart
  <2>4. ASSUME NEW d \in Collectors PROVE Cardinality(Holders(d)') = of[d] + TakenBy(P, d)
    <3>1. IsFiniteSet(Kept(d)) /\ Cardinality(Kept(d)) = of[d] /\ Holders(d)' = Kept(d) \cup Among(P, d)
      BY <1>7, <1>9
    <3>2. Kept(d) \cap Among(P, d) = {} /\ IsFiniteSet(Among(P, d)) /\ TakenBy(P, d) = Cardinality(Among(P, d))
      BY <2>1, <2>2
    <3> HIDE DEF Kept, Among, of
    <3> QED BY <3>1, <3>2, CountedApart
  <2> QED BY <2>3, <2>4
<1> HIDE DEF of, all
<1>12. SlotsCounted'
  BY <1>2, <1>11 DEF SlotsCounted
<1>13. TypeOK'
  <2>1. inFlight' \in [Collectors -> Nat] /\ total' \in Nat
    <3>1. Cardinality(P) \in Nat /\ \A d \in Collectors : TakenBy(P, d) \in Nat /\ of[d] \in Nat
      BY <1>9, <1>10
    <3>2. \A d \in Collectors : of[d] + TakenBy(P, d) \in Nat
      BY <3>1
    <3> QED BY <1>2, <1>8, <3>1, <3>2
  <2>2. at' \in [Trips -> {"idle", "waiting", "leaving", "running"}] /\ limit' \in [Trips -> Nat]
    BY <1>1 DEF TypeOK
  <2>3. waiting' \subseteq Scrapes /\ ahead' \in [Scrapes -> SUBSET Scrapes] /\ granted' \subseteq Scrapes
    BY <1>1, <1>2, <1>3, <1>5 DEF TypeOK, outOfLine
  <2> QED BY <2>1, <2>2, <2>3 DEF TypeOK
<1>14. \A s \in waiting' : s \in waiting /\ s \notin P /\ s \in Scrapes /\ ahead'[s] = ahead[s] \ P
  BY <1>2, <1>3 DEF outOfLine
<1>15. LineHeld'
  <2>1. waiting' = {s \in Trips : at'[s] \in {"waiting", "leaving"}} \ granted'
    <3>1. waiting' = waiting \ P /\ waiting = {s \in Trips : at[s] \in {"waiting", "leaving"}} \ granted
      BY <1>2 DEF outOfLine, SlotsInv, LineHeld
    <3> QED BY <1>3, <1>4, <1>5, <3>1
  <2>2. waiting' = waiting \ P
    BY <1>2 DEF outOfLine
  <2>3. \A s \in waiting :
          /\ ahead[s] \subseteq waiting \ {s}
          /\ \A u \in waiting \ {s} : u \in ahead[s] <=> s \notin ahead[u]
          /\ \A u \in ahead[s] : ahead[u] \subseteq ahead[s]
    BY DEF SlotsInv, LineHeld
  <2>4. ASSUME NEW s \in waiting'
        PROVE  /\ ahead'[s] \subseteq waiting' \ {s}
               /\ \A u \in waiting' \ {s} : u \in ahead'[s] <=> s \notin ahead'[u]
               /\ \A u \in ahead'[s] : ahead'[u] \subseteq ahead'[s]
    BY <1>14, <2>2, <2>3
  <2> QED BY <2>1, <2>4 DEF LineHeld
<1>16. \A s \in waiting : LET first == P \cap ahead[s]
                               d     == CollectorOf(s)
                           IN  s \in P <=> ~fullLocked(limit[s], of[d] + TakenBy(first, d), all + Cardinality(first))
  BY <1>2 DEF Served
<1>17. \A s \in waiting : limit[s] \in Nat /\ limit'[s] = limit[s] /\ CollectorOf(s) \in Collectors
  BY <1>1, <1>3, LimiterAssumption DEF TypeOK
<1>18. NoneLeftWaiting'
  <2>1. SUFFICES ASSUME NEW s \in waiting' PROVE Full(s, limit[s])'
    BY DEF NoneLeftWaiting
  <2> DEFINE first == P \cap ahead[s]
             d == CollectorOf(s)
  <2>2. fullLocked(limit[s], of[d] + TakenBy(first, d), all + Cardinality(first))
    BY <1>14, <1>16
  <2>3. /\ TakenBy(first, d) \in Nat /\ TakenBy(P, d) \in Nat /\ TakenBy(first, d) <= TakenBy(P, d)
        /\ Cardinality(first) \in Nat /\ Cardinality(P) \in Nat /\ Cardinality(first) <= Cardinality(P)
    BY <1>10
  <2>4. /\ inFlight'[d] = of[d] + TakenBy(P, d) /\ total' = all + Cardinality(P)
        /\ of[d] \in Nat /\ all \in Nat /\ limit[s] \in Nat /\ limit'[s] = limit[s]
    BY <1>2, <1>8, <1>9, <1>14, <1>17
  <2> HIDE DEF first
  <2> QED BY <2>2, <2>3, <2>4, LimiterAssumption DEF Full, fullLocked
<1>19. HandedOver'
  BY <1>3, <1>4, <1>5 DEF HandedOver
<1>20. WithinLimits'
  <2>1. SUFFICES ASSUME NEW d \in Collectors, NEW m \in Nat PROVE Cardinality(Under(d, m)') <= m
    BY DEF WithinLimits
  <2> DEFINE Q == {s \in Among(P, d) : limit[s] <= m}
  <2>2. Under(d, m)' = {s \in Kept(d) : limit[s] <= m} \cup Q
    BY <1>7 DEF Under
  <2>3. CASE Q = {}
    <3>1. Under(d, m)' \subseteq Under(d, m) /\ Under(d, m) \subseteq Trips
      BY <1>8, <2>2, <2>3 DEF Under, Holders
    <3>2. Cardinality(Under(d, m)) <= m
      BY DEF SlotsInv, WithinLimits
    <3>3. /\ Cardinality(Under(d, m)') \in Nat /\ Cardinality(Under(d, m)) \in Nat
          /\ Cardinality(Under(d, m)') <= Cardinality(Under(d, m))
      BY <3>1, TripsCounted
    <3> QED BY <3>2, <3>3
  <2>4. CASE Q # {}
    <3>1. PICK s \in Q : \A q \in Q \ {s} : q \in ahead[s]
      <4>1. Q \in SUBSET waiting
        BY <1>2
      <4> HIDE DEF Q
      <4> QED BY <2>4, <4>1, LastInLine
    <3> DEFINE first == P \cap ahead[s]
    <3>2. s \in P /\ s \in waiting /\ CollectorOf(s) = d /\ limit[s] <= m /\ limit[s] \in Nat
      BY <1>2, <1>17
    <3>3. of[d] + TakenBy(first, d) < limit[s]
      <4>1. ~fullLocked(limit[s], of[d] + TakenBy(first, d), all + Cardinality(first))
        BY <1>16, <3>2
      <4>2. TakenBy(first, d) \in Nat /\ of[d] \in Nat
        BY <1>9, <1>10
      <4> HIDE DEF first
      <4> QED BY <3>2, <4>1, <4>2 DEF fullLocked
    <3>4. Under(d, m)' \subseteq (Kept(d) \cup Among(first, d)) \cup {s}
      BY <2>2, <3>1
    <3>5. /\ IsFiniteSet(Kept(d)) /\ Cardinality(Kept(d)) = of[d] /\ of[d] \in Nat
          /\ IsFiniteSet(Among(first, d)) /\ TakenBy(first, d) = Cardinality(Among(first, d)) /\ TakenBy(first, d) \in Nat
      BY <1>9, <1>10
    <3>6. Kept(d) \cap Among(first, d) = {} /\ s \notin Kept(d) \cup Among(first, d)
      <4>1. s \notin ahead[s]
        BY <3>2 DEF SlotsInv, LineHeld
      <4> QED BY <1>2, <1>3, <3>2, <4>1 DEF Holders
    <3>7. (Kept(d) \cup Among(first, d)) \cup {s} \subseteq Trips
      BY <1>2, <1>3, <1>8, <3>2 DEF Holders
    <3> DEFINE K == Kept(d)
               F == Among(first, d)
               U == Under(d, m)'
    <3> HIDE DEF K, F, U, first
    <3>8. IsFiniteSet(K \cup F) /\ Cardinality(K \cup F) = of[d] + TakenBy(first, d)
      BY <3>5, <3>6, CountedApart DEF K, F
    <3>9. Cardinality((K \cup F) \cup {s}) = of[d] + TakenBy(first, d) + 1
      <4>1. s \notin K \cup F
        BY <3>6 DEF K, F
      <4>2. Cardinality((K \cup F) \cup {s}) = Cardinality(K \cup F) + 1
        BY <3>8, <4>1, FS_AddElement
      <4> QED BY <3>8, <4>2
    <3>10. Cardinality(U) <= Cardinality((K \cup F) \cup {s}) /\ Cardinality(U) \in Nat
      BY <3>4, <3>7, TripsCounted DEF K, F, U
    <3>11. Cardinality(U) <= m
      BY <3>2, <3>3, <3>5, <3>9, <3>10
    <3> QED BY <3>11 DEF U
  <2> QED BY <2>3, <2>4
<1>21. CeilingKept'
  <2>1. SUFFICES ASSUME Ceiling > 0 PROVE total' <= Ceiling
    BY DEF CeilingKept
  <2>2. CASE P = {}
    <3>1. total' = all
      BY <1>2, <1>8, <2>2, FS_EmptySet
    <3> QED BY <1>1, <1>8, <2>1, <3>1, LimiterAssumption DEF SlotsInv, CeilingKept, TypeOK, all
  <2>3. CASE P # {}
    <3>1. PICK s \in P : \A q \in P \ {s} : q \in ahead[s]
      BY <2>3, LastInLine
    <3> DEFINE first == P \cap ahead[s]
    <3>2. ~fullLocked(limit[s], of[CollectorOf(s)] + TakenBy(first, CollectorOf(s)), all + Cardinality(first))
      BY <1>16, <3>1
    <3>3. s \notin first /\ P = first \cup {s}
      BY <3>1 DEF SlotsInv, LineHeld
    <3>4. IsFiniteSet(first) /\ Cardinality(first) \in Nat
      BY <1>10
    <3> HIDE DEF first
    <3>5. Cardinality(P) = Cardinality(first) + 1
      BY <3>3, <3>4, FS_AddElement
    <3> QED BY <1>2, <1>8, <2>1, <3>2, <3>4, <3>5, LimiterAssumption DEF fullLocked
  <2> QED BY <2>2, <2>3
<1> QED BY <1>12, <1>13, <1>15, <1>18, <1>19, <1>20, <1>21 DEF SlotsInv

\* A scrape leaves the line and had no slot.
LEMMA LeftLineKeeps ==
  ASSUME SlotsInv, NEW t \in Scrapes, at[t] = "leaving", t \notin granted,
         at' = [at EXCEPT ![t] = "idle"], expired' = expired \ {t}, outOfLine({t}),
         UNCHANGED <<inFlight, total, granted, limit>>
  PROVE  SlotsInv'
<1>1. TypeOK /\ t \in Trips
  BY DEF SlotsInv, Trips
<1>2. TypeOK'
  BY <1>1 DEF TypeOK, outOfLine
<1>3. \A s \in Trips : at'[s] = IF s = t THEN "idle" ELSE at[s]
  BY <1>1 DEF TypeOK
<1>4. Holding' = Holding
  BY <1>3 DEF Holding
<1>5. SlotsCounted' /\ WithinLimits' /\ CeilingKept'
  BY <1>4, SameHold
<1>6. waiting' = waiting \ {t} /\ \A s \in waiting' : s \in waiting /\ s # t /\ ahead'[s] = ahead[s] \ {t}
  BY <1>1 DEF TypeOK, outOfLine
<1>7. LineHeld'
  <2>1. waiting' = {s \in Trips : at'[s] \in {"waiting", "leaving"}} \ granted'
    BY <1>3, <1>6 DEF SlotsInv, LineHeld
  <2>2. \A s \in waiting :
          /\ ahead[s] \subseteq waiting \ {s}
          /\ \A u \in waiting \ {s} : u \in ahead[s] <=> s \notin ahead[u]
          /\ \A u \in ahead[s] : ahead[u] \subseteq ahead[s]
    BY DEF SlotsInv, LineHeld
  <2>3. ASSUME NEW s \in waiting'
        PROVE  /\ ahead'[s] \subseteq waiting' \ {s}
               /\ \A u \in waiting' \ {s} : u \in ahead'[s] <=> s \notin ahead'[u]
               /\ \A u \in ahead'[s] : ahead'[u] \subseteq ahead'[s]
    BY <1>6, <2>2
  <2> QED BY <2>1, <2>3 DEF LineHeld
<1>8. NoneLeftWaiting'
  BY <1>6 DEF SlotsInv, NoneLeftWaiting, Full
<1>9. HandedOver'
  BY <1>1, <1>3 DEF SlotsInv, HandedOver, TypeOK, Trips
<1> QED BY <1>2, <1>5, <1>7, <1>8, <1>9 DEF SlotsInv

\* A scrape that finds no slot free joins the line behind those in it.
LEMMA JoinedKeeps ==
  ASSUME SlotsInv, NEW t \in Scrapes, at[t] = "idle",
         NEW max \in LimitsOf(CollectorOf(t)), Full(t, max),
         limit' = [limit EXCEPT ![t] = max], at' = [at EXCEPT ![t] = "waiting"],
         waiting' = waiting \cup {t}, ahead' = [ahead EXCEPT ![t] = waiting],
         UNCHANGED <<inFlight, total, granted, expired>>
  PROVE  SlotsInv'
<1>1. TypeOK /\ t \in Trips /\ t \notin granted /\ t \notin waiting /\ max \in Nat
  BY LimiterAssumption DEF SlotsInv, HandedOver, LineHeld, Trips
<1>2. TypeOK'
  BY <1>1 DEF TypeOK
<1>3. \A s \in Trips : /\ at'[s] = IF s = t THEN "waiting" ELSE at[s]
                       /\ limit'[s] = IF s = t THEN max ELSE limit[s]
  BY <1>1 DEF TypeOK
<1>4. Holding' = Holding
  BY <1>1, <1>3 DEF Holding
<1>5. \A s \in Holding : limit'[s] = limit[s]
  BY <1>1, <1>3 DEF Holding
<1>6. SlotsCounted' /\ WithinLimits' /\ CeilingKept'
  BY <1>4, <1>5, SameHold
<1>7. ahead'[t] = waiting /\ \A s \in waiting : s # t /\ s \in Scrapes /\ ahead'[s] = ahead[s]
  BY <1>1 DEF TypeOK
<1>8. LineHeld'
  <2>1. waiting' = {s \in Trips : at'[s] \in {"waiting", "leaving"}} \ granted'
    BY <1>1, <1>3 DEF SlotsInv, LineHeld
  <2>2. \A s \in waiting :
          /\ ahead[s] \subseteq waiting \ {s}
          /\ \A u \in waiting \ {s} : u \in ahead[s] <=> s \notin ahead[u]
          /\ \A u \in ahead[s] : ahead[u] \subseteq ahead[s]
    BY DEF SlotsInv, LineHeld
  <2>3. ASSUME NEW s \in waiting'
        PROVE  /\ ahead'[s] \subseteq waiting' \ {s}
               /\ \A u \in waiting' \ {s} : u \in ahead'[s] <=> s \notin ahead'[u]
               /\ \A u \in ahead'[s] : ahead'[u] \subseteq ahead'[s]
    <3>1. CASE s = t
      BY <1>1, <1>7, <2>2, <3>1
    <3>2. CASE s \in waiting
      BY <1>1, <1>7, <2>2, <3>2
    <3> QED BY <3>1, <3>2
  <2> QED BY <2>1, <2>3 DEF LineHeld
<1>9. NoneLeftWaiting'
  <2>1. \A s \in waiting : limit'[s] = limit[s] /\ Full(s, limit[s])
    BY <1>3, <1>7 DEF SlotsInv, NoneLeftWaiting, Trips
  <2>2. limit'[t] = max
    BY <1>1, <1>3
  <2> QED BY <2>1, <2>2 DEF NoneLeftWaiting, Full
<1>10. HandedOver'
  BY <1>1, <1>3 DEF SlotsInv, HandedOver, TypeOK, Trips
<1> QED BY <1>2, <1>6, <1>8, <1>9, <1>10 DEF SlotsInv

\* A scrape in line looks up: a slot is its own, or its context has ended.
LEMMA LooksUpKeeps ==
  ASSUME SlotsInv, NEW t \in Scrapes, ContextEnds(t) \/ Proceed(t) \/ GiveUp(t)
  PROVE  SlotsInv'
<1>1. TypeOK /\ t \in Trips
  BY DEF SlotsInv, Trips
<1>2. UNCHANGED <<inFlight, total, line, limit>> /\ at[t] = "waiting"
  BY DEF ContextEnds, Proceed, GiveUp
<1>3. TypeOK'
  BY <1>1, <1>2 DEF TypeOK, line, ContextEnds, Proceed, GiveUp
<1>4. \A s \in Trips : s # t => at'[s] = at[s] /\ (s \in granted' <=> s \in granted)
  BY <1>1 DEF TypeOK, ContextEnds, Proceed, GiveUp
<1>5. \/ at'[t] \in {"waiting", "leaving"} /\ (t \in granted' <=> t \in granted)
      \/ at'[t] = "running" /\ t \in granted /\ t \notin granted'
  BY <1>1 DEF TypeOK, ContextEnds, Proceed, GiveUp
<1>6. Holding' = Holding
  BY <1>1, <1>2, <1>4, <1>5 DEF Holding
<1>7. SlotsCounted' /\ WithinLimits' /\ CeilingKept'
  BY <1>2, <1>6, SameHold
<1>8. LineHeld'
  <2>1. waiting' = {s \in Trips : at'[s] \in {"waiting", "leaving"}} \ granted'
    BY <1>1, <1>2, <1>4, <1>5 DEF SlotsInv, LineHeld, line
  <2> QED BY <1>2, <2>1 DEF SlotsInv, LineHeld, line
<1>9. NoneLeftWaiting'
  BY <1>2 DEF SlotsInv, NoneLeftWaiting, Full, line
<1>10. HandedOver'
  BY <1>1, <1>3, <1>4, <1>5 DEF SlotsInv, HandedOver, TypeOK, Trips
<1> QED BY <1>3, <1>7, <1>8, <1>9, <1>10 DEF SlotsInv

LEMMA SlotsStep == SlotsInv /\ [Next]_vars => SlotsInv'
<1> SUFFICES ASSUME SlotsInv, [Next]_vars PROVE SlotsInv'
  OBVIOUS
<1>1. ASSUME NEW t \in Probes, tryAcquire(t) PROVE SlotsInv'
  <2>1. t \in Trips
    BY DEF Trips
  <2> QED BY <1>1, <2>1, TakenKeeps DEF tryAcquire
<1>2. ASSUME NEW t \in Scrapes, acquire(t) PROVE SlotsInv'
  <2>1. t \in Trips /\ at[t] = "idle" /\ UNCHANGED <<granted, expired>>
    BY <1>2 DEF Trips, acquire
  <2>2. PICK max \in LimitsOf(CollectorOf(t)) :
          /\ limit' = [limit EXCEPT ![t] = max]
          /\ \/ /\ ~Full(t, max)
                /\ at' = [at EXCEPT ![t] = "running"]
                /\ takeLocked(CollectorOf(t))
                /\ UNCHANGED line
             \/ /\ Full(t, max)
                /\ at' = [at EXCEPT ![t] = "waiting"]
                /\ waiting' = waiting \cup {t}
                /\ ahead' = [ahead EXCEPT ![t] = waiting]
                /\ UNCHANGED <<inFlight, total>>
    BY <1>2 DEF acquire
  <2>3. CASE ~Full(t, max)
    BY <2>1, <2>2, <2>3, TakenKeeps
  <2>4. CASE Full(t, max)
    BY <2>1, <2>2, <2>4, JoinedKeeps
  <2> QED BY <2>3, <2>4
<1>3. ASSUME NEW t \in Scrapes, ContextEnds(t) \/ Proceed(t) \/ GiveUp(t) PROVE SlotsInv'
  BY <1>3, LooksUpKeeps
<1>4. ASSUME NEW t \in Scrapes, Leave(t) PROVE SlotsInv'
  <2>1. t \in Trips /\ at[t] = "leaving" /\ at' = [at EXCEPT ![t] = "idle"]
        /\ expired' = expired \ {t} /\ limit' = limit /\ expired' \subseteq Scrapes
    BY <1>4 DEF Leave, Trips, SlotsInv, TypeOK
  <2>2. CASE t \in granted
    <3>1. t \in Holding /\ releaseLocked(CollectorOf(t))
      BY <1>4, <2>1, <2>2 DEF Leave, Holding
    <3> QED BY <2>1, <3>1, FreedKeeps
  <2>3. CASE t \notin granted
    BY <1>4, <2>1, <2>3, LeftLineKeeps DEF Leave
  <2> QED BY <2>2, <2>3
<1>5. ASSUME NEW t \in Trips, release(t) PROVE SlotsInv'
  <2>1. /\ t \in Holding /\ at[t] = "running" /\ at' = [at EXCEPT ![t] = "idle"]
        /\ limit' = limit /\ expired' \subseteq Scrapes /\ releaseLocked(CollectorOf(t))
    BY <1>5 DEF release, Holding, SlotsInv, TypeOK
  <2> QED BY <2>1, FreedKeeps
<1>6. CASE UNCHANGED vars
  <2>1. UNCHANGED <<inFlight, total, waiting, ahead, granted, at, limit, expired>>
    BY <1>6 DEF vars, line
  <2>2. Holding' = Holding /\ \A t \in Holding : limit'[t] = limit[t]
    BY <2>1 DEF Holding
  <2>3. SlotsCounted' /\ WithinLimits' /\ CeilingKept'
    BY <2>1, <2>2, SameHold
  <2>4. TypeOK' /\ LineHeld' /\ HandedOver'
    BY <2>1 DEF SlotsInv, TypeOK, LineHeld, HandedOver
  <2>5. NoneLeftWaiting'
    BY <2>1 DEF SlotsInv, NoneLeftWaiting, Full
  <2> QED BY <2>3, <2>4, <2>5 DEF SlotsInv
<1> QED BY <1>1, <1>2, <1>3, <1>4, <1>5, <1>6 DEF Next

\* Slots are counted as trips have them, a trip whose context ends as it is
\* handed one included; no collector has more trips than a limit one of them
\* read and the exporter no more than its ceiling, whatever reloads do; and
\* the line keeps its order and holds nobody a slot is free for, for any
\* collectors, scrapes, probes, limits and ceiling.
THEOREM SlotsAlwaysServed == Spec => []SlotsServed
<1>1. Init => SlotsInv
  BY InitialSlots
<1>2. SlotsInv /\ [Next]_vars => SlotsInv'
  BY SlotsStep
<1>3. SlotsInv => SlotsServed
  BY LimitsKept DEF SlotsInv, SlotsServed
<1> QED BY <1>1, <1>2, <1>3, PTL DEF Spec

-----------------------------------------------------------------------------
(* The queue of points. *)

\* The points of which it is known what became of them.
Known == acked \cup replaced \cup off \cup Points(pending) \cup Points(exporting)

\* A point is of one series.
OfOneSeries ==
  \A s, r \in Series :
    s # r => {pending[s], exporting[s], newest[s]} \cap {pending[r], exporting[r], newest[r]} \subseteq {0}

\* Of a series the point in an export is older than the one waiting, and neither
\* is newer than the newest.
InOrder ==
  \A s \in Series :
    /\ exporting[s] # 0 /\ pending[s] # 0 => exporting[s] < pending[s]
    /\ pending[s] <= newest[s] /\ exporting[s] <= newest[s]

\* What was settled is neither waiting nor being exported.
SettledOnce == (acked \cup replaced \cup off) \cap (Points(pending) \cup Points(exporting)) = {}

\* What an export has yet to settle is in the request it is at, or a later one.
YetToSend == \A s \in Series : exporting[s] # 0 => sending # 0 /\ request[s] >= sending

QueueInv == PointsKept /\ OfOneSeries /\ InOrder /\ SettledOnce /\ YetToSend

\* Points leave a queue, each with the place it had.
LEMMA WithoutPoints ==
  ASSUME NEW q, q \in [Series -> Nat], NEW gone
  PROVE  /\ Without(q, gone) \in [Series -> Nat]
         /\ \A s \in Series : Without(q, gone)[s] \in {0, q[s]}
         /\ \A s \in Series : q[s] \in gone => Without(q, gone)[s] = 0
         /\ \A s \in Series : q[s] \notin gone => Without(q, gone)[s] = q[s]
         /\ Points(Without(q, gone)) = Points(q) \ gone
<1>1. \A s \in Series : Without(q, gone)[s] = IF q[s] \in gone THEN 0 ELSE q[s]
  BY DEF Without
<1>2. Without(q, gone) \in [Series -> Nat]
  BY DEF Without
<1>3. Points(Without(q, gone)) = Points(q) \ gone
  BY <1>1 DEF Points
<1> QED BY <1>1, <1>2, <1>3

\* What the cap drops is counted, when it was known only as waiting.
LEMMA CapCounts ==
  ASSUME NEW q, q \in [Series -> Nat], NEW n \in Nat, NEW settled,
         Points(q) \subseteq 1..n, Points(q) \cap settled = {},
         Capped(q, 0), dropped = Cardinality((1..n) \ (settled \cup Points(q)))
  PROVE  dropped' = Cardinality((1..n) \ (settled \cup Points(pending')))
<1> DEFINE gone   == Oldest(q)
           before == (1..n) \ (settled \cup Points(q))
           after  == (1..n) \ (settled \cup Points(pending'))
<1>1. gone \subseteq Points(q)
  BY DEF Oldest
<1>2. Points(pending') = Points(q) \ gone
  BY WithoutPoints DEF Capped
<1>3. after = before \cup gone /\ before \cap gone = {} /\ after \subseteq 1..n
  BY <1>1, <1>2
<1>4. IsFiniteSet(after)
  <2>1. IsFiniteSet(1..n) /\ after \in SUBSET (1..n)
    BY FS_Interval
  <2> QED BY <2>1, FS_Subset
<1>5. dropped = Cardinality(before) /\ dropped' = dropped + 0 + Cardinality(gone)
  BY DEF Capped
<1> HIDE DEF gone, before, after
<1>6. /\ Cardinality(after) = Cardinality(before) + Cardinality(gone)
      /\ Cardinality(before) \in Nat /\ Cardinality(gone) \in Nat
  BY <1>3, <1>4, CountGone
<1>7. dropped' = Cardinality(after)
  BY <1>5, <1>6
<1> QED BY <1>7 DEF after

LEMMA QueueInitInv == QueueInit => QueueInv
<1> SUFFICES ASSUME QueueInit PROVE QueueInv
  OBVIOUS
<1>1. /\ pending = NoPoints /\ exporting = NoPoints /\ newest = NoPoints
      /\ NoPoints \in [Series -> 0..0] /\ \A s \in Series : NoPoints[s] = 0
      /\ otlpSeq = 0 /\ dropped = 0 /\ acked = {} /\ replaced = {} /\ off = {}
      /\ request \in [Series -> 1..MaxRequests] /\ sending = 0 /\ enabled = TRUE /\ phase = "run"
  BY QueueAssumption DEF QueueInit, NoPoints
<1>2. Points(NoPoints) = {}
  BY <1>1 DEF Points
<1>3. QueueTypeOK
  BY <1>1, QueueAssumption DEF QueueTypeOK
<1>4. Cardinality((1..otlpSeq) \ Known) = 0
  <2>1. (1..otlpSeq) \ Known = {}
    BY <1>1
  <2> QED BY <2>1, FS_EmptySet
<1>5. PointsAccounted
  BY <1>1, <1>3, <1>4 DEF PointsAccounted, Known
<1> QED BY <1>1, <1>2, <1>5
        DEF QueueInv, PointsKept, NewestKept, OfOneSeries, InOrder, SettledOnce, YetToSend

\* QueueTypeOK, but for the count of what was dropped.
QueueTyped ==
  /\ enabled \in BOOLEAN /\ otlpSeq \in 0..MaxPoints
  /\ {pending, exporting, newest} \subseteq [Series -> 0..otlpSeq]
  /\ request \in [Series -> 1..MaxRequests] /\ sending \in 0..MaxRequests
  /\ phase \in {"run", "stopping", "flush", "over"}
  /\ \A points \in {acked, replaced, off} : points \subseteq 1..otlpSeq
  /\ sending = 0 => exporting = NoPoints

\* All points are accounted for when those dropped are counted.
LEMMA AccountedWhenCounted ==
  QueueTyped /\ SettledOnce /\ dropped = Cardinality((1..otlpSeq) \ Known) => PointsAccounted
<1> SUFFICES ASSUME QueueTyped, SettledOnce, dropped = Cardinality((1..otlpSeq) \ Known)
             PROVE  PointsAccounted
  OBVIOUS
<1> DEFINE unknown == (1..otlpSeq) \ Known
<1>1. otlpSeq \in Nat
  BY QueueAssumption DEF QueueTyped
<1>2. IsFiniteSet(1..otlpSeq) /\ Cardinality(1..otlpSeq) = otlpSeq
  BY <1>1, FS_Interval
<1>3. unknown \in SUBSET (1..otlpSeq)
  OBVIOUS
<1>4. dropped = Cardinality(unknown)
  OBVIOUS
<1> HIDE DEF unknown
<1>5. IsFiniteSet(unknown) /\ Cardinality(unknown) <= otlpSeq
  BY <1>2, <1>3, FS_Subset
<1>6. dropped \in 0..otlpSeq
  <2>1. Cardinality(unknown) \in Nat
    BY <1>5, FS_CardinalityType
  <2> QED BY <1>1, <1>4, <1>5, <2>1
<1>7. QueueTypeOK
  BY <1>6 DEF QueueTypeOK, QueueTyped
<1>8. acked \cap (Points(pending) \cup Points(exporting)) = {}
  BY DEF SettledOnce
<1> QED BY <1>7, <1>8 DEF PointsAccounted, Known

\* Points of a result are queued in the place of those of their series.
LEMMA QueueingKeepsInv ==
  ASSUME QueueInv, NEW S \in SUBSET Series, queueOTLPResource(S)
  PROVE  QueueInv'
<1> DEFINE place(s)    == Cardinality({r \in S : r <= s})
           point(s) == otlpSeq + place(s)
           Put(q)   == [s \in Series |-> IF s \in S THEN point(s) ELSE q[s]]
           P == Put(pending)
           c == Cardinality(S)
           m == otlpSeq + c
           settled == acked \cup replaced' \cup off \cup Points(exporting)
<1>1. /\ otlpSeq' = m /\ m <= MaxPoints /\ newest' = Put(newest) /\ Capped(P, 0)
      /\ replaced' = replaced \cup ({pending[s] : s \in S} \ {0})
      /\ UNCHANGED <<enabled, exporting, request, sending, phase, acked, off>>
  BY DEF queueOTLPResource, export
<1>2. QueueTyped /\ otlpSeq \in Nat /\ MaxPoints \in Nat
  BY QueueAssumption DEF QueueInv, PointsKept, PointsAccounted, QueueTypeOK, QueueTyped
<1>3. S \subseteq Nat /\ IsFiniteSet(S)
  BY QueueAssumption, FS_Subset
<1>4. /\ c \in Nat
      /\ \A s \in S : place(s) \in 1..c
      /\ \A s, t \in S : place(s) = place(t) => s = t
      /\ \A i \in 1..c : \E s \in S : place(s) = i
  BY <1>3, Numbering
<1> HIDE DEF place, c
<1>5. /\ m \in Nat /\ \A s \in S : point(s) \in (otlpSeq + 1)..m
      /\ \A s, t \in S : point(s) = point(t) => s = t
  BY <1>2, <1>4
<1>6. \A x \in (otlpSeq + 1)..m : \E s \in S : point(s) = x
  <2> TAKE x \in (otlpSeq + 1)..m
  <2>1. x - otlpSeq \in 1..c
    BY <1>2, <1>4
  <2>2. PICK s \in S : place(s) = x - otlpSeq
    BY <1>4, <2>1
  <2> QED BY <1>2, <2>2
<1> HIDE DEF point
<1>7. /\ {pending, exporting, newest} \subseteq [Series -> 0..otlpSeq]
      /\ acked \cup replaced \cup off \subseteq 1..otlpSeq
  BY <1>2 DEF QueueTyped
<1>8. /\ P \in [Series -> 0..m] /\ newest' \in [Series -> 0..m]
      /\ \A s \in S : P[s] = point(s) /\ newest'[s] = point(s)
      /\ \A s \in Series \ S : P[s] = pending[s] /\ newest'[s] = newest[s]
  BY <1>1, <1>2, <1>4, <1>5, <1>7
<1> HIDE DEF P, Put, m
<1>9. /\ pending' \in [Series -> Nat] /\ Points(pending') \subseteq Points(P)
      /\ \A s \in Series : pending'[s] \in {0, P[s]}
  <2>1. P \in [Series -> Nat]
    BY <1>5, <1>8
  <2> QED BY <1>1, <2>1, WithoutPoints DEF Capped
<1>10. /\ \A s \in S : point(s) > otlpSeq /\ point(s) \in 1..m
       /\ \A x \in 1..m : x > otlpSeq => \E s \in S : point(s) = x
       /\ 1..otlpSeq \subseteq 1..m /\ otlpSeq <= m
  <2>1. otlpSeq <= m
    BY <1>2, <1>4 DEF m
  <2> QED BY <1>2, <1>5, <1>6, <2>1
<1>11. Points(P) \cap settled = {}
  <2> SUFFICES ASSUME NEW s \in Series, P[s] # 0 PROVE P[s] \notin settled
    BY DEF Points
  <2>1. CASE s \in S
    <3>1. P[s] > otlpSeq
      BY <1>8, <1>10, <2>1
    <3>2. \A x \in settled : x \in 0..otlpSeq
      BY <1>1, <1>7 DEF Points
    <3> QED BY <1>2, <3>1, <3>2
  <2>2. CASE s \notin S
    <3>1. P[s] = pending[s]
      BY <1>8, <2>2
    <3>2. P[s] \notin acked \cup replaced \cup off
      BY <3>1 DEF QueueInv, SettledOnce, Points
    <3>3. \A r \in Series : r # s => pending[s] # pending[r] /\ pending[s] # exporting[r]
      BY <3>1 DEF QueueInv, OfOneSeries
    <3>4. pending[s] # exporting[s]
      BY <1>2, <1>7, <3>1 DEF QueueInv, InOrder
    <3> QED BY <1>1, <2>2, <3>1, <3>2, <3>3, <3>4 DEF Points
  <2> QED BY <2>1, <2>2
<1>12. (1..m) \ (settled \cup Points(P)) = (1..otlpSeq) \ Known
  <2>1. ASSUME NEW x \in 1..m, x > otlpSeq PROVE x \in Points(P)
    <3>1. PICK s \in S : point(s) = x
      BY <1>10, <2>1
    <3> QED BY <1>8, <3>1 DEF Points
  <2>2. ASSUME NEW x \in 1..otlpSeq PROVE x \in settled \cup Points(P) <=> x \in Known
    <3>1. \A s \in S : P[s] # x
      BY <1>2, <1>8, <1>10
    <3>2. x \in Points(P) <=> \E s \in Series \ S : pending[s] = x
      BY <1>8, <3>1 DEF Points
    <3>3. x \in Points(pending) <=> (\E s \in Series \ S : pending[s] = x) \/ (\E s \in S : pending[s] = x)
      BY DEF Points
    <3>4. x \in settled <=> \/ x \in acked \cup replaced \cup off \cup Points(exporting)
                            \/ \E s \in S : pending[s] = x
      BY <1>1
    <3> HIDE DEF settled
    <3> QED BY <3>2, <3>3, <3>4 DEF Known
  <2>3. \A x \in 1..m : x > otlpSeq \/ x \in 1..otlpSeq
    BY <1>2, <1>5
  <2>4. \A x \in 1..otlpSeq : x \in 1..m /\ ~(x > otlpSeq)
    BY <1>2, <1>10
  <2> HIDE DEF settled
  <2> QED BY <2>1, <2>2, <2>3, <2>4
<1>13. dropped' = Cardinality((1..otlpSeq') \ Known')
  <2>1. P \in [Series -> Nat] /\ Points(P) \subseteq 1..m
    BY <1>5, <1>8 DEF Points
  <2>2. dropped = Cardinality((1..m) \ (settled \cup Points(P)))
    BY <1>12 DEF QueueInv, PointsKept, PointsAccounted, Known
  <2>3. Known' = settled \cup Points(pending')
    BY <1>1 DEF Known
  <2> HIDE DEF settled
  <2>4. dropped' = Cardinality((1..m) \ (settled \cup Points(pending')))
    BY <1>1, <1>5, <1>11, <2>1, <2>2, CapCounts
  <2> QED BY <1>1, <2>3, <2>4
<1>14. QueueTyped'
  <2>1. pending' \in [Series -> 0..m]
    <3>1. \A s \in Series : P[s] \in 0..m /\ 0 \in 0..m
      BY <1>5, <1>8
    <3>2. \A s \in Series : pending'[s] \in 0..m
      BY <1>9, <3>1
    <3> QED BY <1>9, <3>2
  <2>2. exporting' \in [Series -> 0..m] /\ otlpSeq' \in 0..MaxPoints
    BY <1>1, <1>2, <1>5, <1>7, <1>10
  <2>3. acked' \subseteq 1..m /\ replaced' \subseteq 1..m /\ off' \subseteq 1..m
    BY <1>1, <1>7, <1>10
  <2> QED BY <1>1, <1>2, <1>8, <2>1, <2>2, <2>3 DEF QueueTyped
<1>15. SettledOnce'
  <2>1. Points(pending') \cap settled = {}
    BY <1>9, <1>11
  <2>2. Points(exporting) \cap (acked \cup replaced \cup off) = {}
    BY DEF QueueInv, SettledOnce
  <2>3. Points(exporting) \cap {pending[s] : s \in S} = {}
    <3> SUFFICES ASSUME NEW r \in Series, NEW s \in S, exporting[r] # 0 PROVE exporting[r] # pending[s]
      BY DEF Points
    <3>1. CASE r = s
      BY <1>2, <1>7, <3>1 DEF QueueInv, InOrder
    <3>2. CASE r # s
      BY <3>2 DEF QueueInv, OfOneSeries
    <3> QED BY <3>1, <3>2
  <2> QED BY <1>1, <2>1, <2>2, <2>3 DEF SettledOnce
<1>16. OfOneSeries'
  <2> SUFFICES ASSUME NEW s \in Series, NEW r \in Series, s # r
               PROVE  {pending'[s], exporting[s], newest'[s]} \cap {pending'[r], exporting[r], newest'[r]} \subseteq {0}
    BY <1>1 DEF OfOneSeries
  <2>1. {pending[s], exporting[s], newest[s]} \cap {pending[r], exporting[r], newest[r]} \subseteq {0}
    BY DEF QueueInv, OfOneSeries
  <2>2. \A t \in Series : {pending[t], exporting[t], newest[t]} \subseteq 0..otlpSeq
    BY <1>7
  <2>3. \A t \in S, x \in 0..otlpSeq : point(t) # x
    BY <1>2, <1>10
  <2>4. s \in S /\ r \in S => point(s) # point(r)
    BY <1>5
  <2>5. \A t \in Series :
          {pending'[t], newest'[t]} \subseteq {0} \cup (IF t \in S THEN {point(t)} ELSE {pending[t], newest[t]})
    BY <1>8, <1>9
  <2> QED BY <2>1, <2>2, <2>3, <2>4, <2>5
<1>17. InOrder' /\ NewestKept'
  <2>1. \A s \in Series : newest'[s] \notin replaced'
    <3> SUFFICES ASSUME NEW s \in Series PROVE newest'[s] \notin replaced \cup ({pending[r] : r \in S} \ {0})
      BY <1>1
    <3>1. CASE s \in S
      BY <1>2, <1>7, <1>8, <1>10, <3>1
    <3>2. CASE s \notin S
      <4>1. newest'[s] = newest[s] /\ newest[s] \notin replaced
        BY <1>8, <3>2 DEF QueueInv, PointsKept, NewestKept
      <4>2. \A r \in S : pending[r] # 0 => newest[s] # pending[r]
        <5> TAKE r \in S
        <5>1. r \in Series /\ s # r
          BY <3>2
        <5>2. {pending[s], exporting[s], newest[s]} \cap {pending[r], exporting[r], newest[r]}
                 \subseteq {0}
          BY <5>1 DEF QueueInv, OfOneSeries
        <5>3. ASSUME newest[s] = pending[r] PROVE pending[r] = 0
          BY <5>2, <5>3
        <5> QED BY <5>3
      <4> QED BY <4>1, <4>2
    <3> QED BY <3>1, <3>2
  <2>2. ASSUME NEW s \in Series
        PROVE  /\ exporting[s] # 0 /\ pending'[s] # 0 => exporting[s] < pending'[s]
               /\ pending'[s] <= newest'[s] /\ exporting[s] <= newest'[s]
    <3>1. {pending[s], exporting[s], newest[s]} \subseteq 0..otlpSeq
      BY <1>7
    <3>2. /\ exporting[s] # 0 /\ pending[s] # 0 => exporting[s] < pending[s]
          /\ pending[s] <= newest[s] /\ exporting[s] <= newest[s]
      BY DEF QueueInv, InOrder
    <3>3. CASE s \in S
      BY <1>2, <1>8, <1>9, <1>10, <3>1, <3>3
    <3>4. CASE s \notin S
      BY <1>2, <1>8, <1>9, <3>1, <3>2, <3>4
    <3> QED BY <3>3, <3>4
  <2> QED BY <1>1, <2>1, <2>2 DEF InOrder, NewestKept
<1>18. YetToSend'
  BY <1>1 DEF QueueInv, YetToSend
<1>19. PointsAccounted'
  <2>1. QueueTyped' /\ SettledOnce' /\ (dropped = Cardinality((1..otlpSeq) \ Known))'
          => PointsAccounted'
    BY AccountedWhenCounted, PTL
  <2> QED BY <1>13, <1>14, <1>15, <2>1
<1> QED BY <1>15, <1>16, <1>17, <1>18, <1>19 DEF QueueInv, PointsKept

\* The request an export was at is settled, and the next one is made or the
\* export ends.
LEMMA NextRequestProps ==
  ASSUME QueueTyped, YetToSend, sending # 0, nextRequest
  PROVE  /\ exporting' \in [Series -> 0..otlpSeq] /\ \A s \in Series : exporting'[s] \in {0, exporting[s]}
         /\ Points(exporting') = Points(exporting) \ OfRequest(sending)
         /\ request' \in [Series -> 1..MaxRequests] /\ sending' \in 0..MaxRequests
         /\ phase' \in {"run", "stopping", "flush", "over"}
         /\ sending' = 0 => exporting' = NoPoints
         /\ YetToSend'
<1>1. /\ exporting \in [Series -> 0..otlpSeq] /\ exporting \in [Series -> Nat]
      /\ request \in [Series -> 1..MaxRequests] /\ sending \in 1..MaxRequests
      /\ MaxRequests \in Nat \ {0} /\ otlpSeq \in Nat
  BY QueueAssumption DEF QueueTyped
<1>2. \A s \in Series : exporting[s] # 0 => request[s] \in Nat /\ request[s] >= sending
  BY <1>1 DEF YetToSend
<1>3. CASE FromRequest(sending + 1) = {}
  <2>1. exported
    BY <1>3 DEF nextRequest
  <2>2. \A s \in Series : exporting[s] # 0 => exporting[s] \in OfRequest(sending)
    <3> TAKE s \in Series
    <3> HAVE exporting[s] # 0
    <3>1. ~(request[s] >= sending + 1)
      BY <1>3 DEF FromRequest
    <3>2. request[s] = sending
      BY <1>1, <1>2, <3>1
    <3> QED BY <3>2 DEF OfRequest
  <2>3. exporting' = NoPoints /\ request' = [s \in Series |-> 1] /\ sending' = 0 /\ phase' = AfterExport
    BY <2>1 DEF exported
  <2>4. NoPoints \in [Series -> 0..otlpSeq] /\ \A s \in Series : NoPoints[s] = 0
    BY <1>1 DEF NoPoints
  <2>5. Points(exporting') = Points(exporting) \ OfRequest(sending)
    BY <2>2, <2>3, <2>4 DEF Points
  <2>6. YetToSend'
    BY <2>3, <2>4 DEF YetToSend
  <2>7. phase' \in {"run", "stopping", "flush", "over"}
    BY <2>3 DEF AfterExport, QueueTyped
  <2> QED BY <1>1, <2>3, <2>4, <2>5, <2>6, <2>7
<1>4. CASE FromRequest(sending + 1) # {}
  <2>1. /\ sending' = sending + 1 /\ exporting' = Without(exporting, OfRequest(sending))
        /\ UNCHANGED <<request, phase>>
    BY <1>4 DEF nextRequest
  <2>2. PICK r \in Series : request[r] >= sending + 1
    BY <1>4 DEF FromRequest
  <2>3. sending + 1 \in 1..MaxRequests
    <3>1. request[r] \in 1..MaxRequests
      BY <1>1
    <3> QED BY <1>1, <2>2, <3>1
  <2>4. /\ exporting' \in [Series -> Nat] /\ \A s \in Series : exporting'[s] \in {0, exporting[s]}
        /\ \A s \in Series : exporting[s] \in OfRequest(sending) => exporting'[s] = 0
        /\ Points(exporting') = Points(exporting) \ OfRequest(sending)
    BY <1>1, <2>1, WithoutPoints
  <2>5. exporting' \in [Series -> 0..otlpSeq]
    <3>1. \A s \in Series : exporting'[s] \in 0..otlpSeq
      BY <1>1, <2>4
    <3> QED BY <2>4, <3>1
  <2>6. YetToSend'
    <3> SUFFICES ASSUME NEW s \in Series, exporting'[s] # 0
                 PROVE  sending' # 0 /\ request'[s] >= sending'
      BY DEF YetToSend
    <3>1. exporting[s] # 0 /\ exporting[s] \notin OfRequest(sending)
      BY <2>4
    <3>2. request[s] # sending
      BY <3>1 DEF OfRequest
    <3> QED BY <1>1, <1>2, <2>1, <3>1, <3>2
  <2> QED BY <1>1, <2>1, <2>3, <2>4, <2>5, <2>6 DEF QueueTyped
<1> QED BY <1>3, <1>4

LEMMA WaitingApart ==
  ASSUME QueueInv
  PROVE  /\ QueueTyped /\ otlpSeq \in Nat
         /\ {pending, exporting, newest} \subseteq [Series -> 0..otlpSeq]
         /\ {pending, exporting, newest} \subseteq [Series -> Nat]
         /\ Points(pending) \cap Points(exporting) = {}
         /\ Points(pending) \subseteq 1..otlpSeq /\ Points(exporting) \subseteq 1..otlpSeq
<1>1. QueueTyped /\ otlpSeq \in Nat
  BY QueueAssumption DEF QueueInv, PointsKept, PointsAccounted, QueueTypeOK, QueueTyped
<1>2. {pending, exporting, newest} \subseteq [Series -> 0..otlpSeq]
  BY <1>1 DEF QueueTyped
<1>3. pending \in [Series -> Nat] /\ exporting \in [Series -> Nat] /\ newest \in [Series -> Nat]
  BY <1>1, <1>2
<1>4. Points(pending) \cap Points(exporting) = {}
  <2> SUFFICES ASSUME NEW s \in Series, NEW r \in Series, pending[s] = exporting[r], pending[s] # 0
               PROVE  FALSE
    BY DEF Points
  <2>1. s # r
    BY <1>3 DEF QueueInv, InOrder
  <2>2. {pending[s], exporting[s], newest[s]} \cap {pending[r], exporting[r], newest[r]} \subseteq {0}
    BY <2>1 DEF QueueInv, OfOneSeries
  <2> QED BY <2>2
<1>5. Points(pending) \subseteq 1..otlpSeq /\ Points(exporting) \subseteq 1..otlpSeq
  BY <1>1, <1>2 DEF Points
<1> QED BY <1>1, <1>2, <1>3, <1>4, <1>5

\* Points of an export are settled: taken by the endpoint, or given up and
\* counted.
LEMMA SettledKeepsInv ==
  ASSUME QueueInv, NEW of, NEW gone, of \subseteq Points(exporting), gone \subseteq of,
         exporting' \in [Series -> 0..otlpSeq], \A s \in Series : exporting'[s] \in {0, exporting[s]},
         Points(exporting') = Points(exporting) \ of, YetToSend',
         request' \in [Series -> 1..MaxRequests], sending' \in 0..MaxRequests,
         phase' \in {"run", "stopping", "flush", "over"}, sending' = 0 => exporting' = NoPoints,
         acked' = acked \cup (of \ gone), dropped' = dropped + Cardinality(gone),
         UNCHANGED <<enabled, otlpSeq, pending, newest, replaced, off>>
  PROVE  QueueInv'
<1>1. /\ QueueTyped /\ otlpSeq \in Nat /\ Points(pending) \cap Points(exporting) = {}
      /\ exporting \in [Series -> Nat] /\ pending \in [Series -> Nat] /\ newest \in [Series -> Nat]
      /\ Points(pending) \subseteq 1..otlpSeq /\ Points(exporting) \subseteq 1..otlpSeq
  BY WaitingApart
<1>2. (acked \cup replaced \cup off) \cap (Points(pending) \cup Points(exporting)) = {}
  BY DEF QueueInv, SettledOnce
<1>3. SettledOnce'
  <2>1. Points(pending)' = Points(pending)
    BY DEF Points
  <2> QED BY <1>1, <1>2, <2>1 DEF SettledOnce
<1>4. QueueTyped'
  <2>1. acked' \subseteq 1..otlpSeq
    BY <1>1 DEF QueueTyped
  <2> QED BY <1>1, <2>1 DEF QueueTyped
<1>5. dropped' = Cardinality((1..otlpSeq') \ Known')
  <2> DEFINE before == (1..otlpSeq) \ Known
             after  == (1..otlpSeq') \ Known'
  <2>1. Points(pending)' = Points(pending)
    BY DEF Points
  <2>2. Known' = acked' \cup replaced \cup off \cup Points(pending) \cup Points(exporting')
    BY <2>1 DEF Known
  <2>3. after = before \cup gone /\ before \cap gone = {} /\ after \subseteq 1..otlpSeq
    BY <1>1, <1>2, <2>2 DEF Known
  <2>4. IsFiniteSet(after)
    <3>1. IsFiniteSet(1..otlpSeq)
      BY <1>1, FS_Interval
    <3>2. after \in SUBSET (1..otlpSeq)
      BY <2>3
    <3> QED BY <3>1, <3>2, FS_Subset
  <2>5. dropped = Cardinality(before)
    BY DEF QueueInv, PointsKept, PointsAccounted, Known
  <2> HIDE DEF before, after
  <2>6. Cardinality(after) = Cardinality(before) + Cardinality(gone)
    BY <2>3, <2>4, CountGone
  <2>7. dropped' = Cardinality(after)
    BY <2>5, <2>6
  <2> QED BY <2>7 DEF after
<1>6. PointsAccounted'
  <2>1. QueueTyped' /\ SettledOnce' /\ (dropped = Cardinality((1..otlpSeq) \ Known))'
          => PointsAccounted'
    BY AccountedWhenCounted, PTL
  <2> QED BY <1>3, <1>4, <1>5, <2>1
<1>7. OfOneSeries'
  <2> SUFFICES ASSUME NEW s \in Series, NEW r \in Series, s # r
               PROVE  {pending[s], exporting'[s], newest[s]} \cap {pending[r], exporting'[r], newest[r]} \subseteq {0}
    BY DEF OfOneSeries
  <2>1. {pending[s], exporting[s], newest[s]} \cap {pending[r], exporting[r], newest[r]} \subseteq {0}
    BY DEF QueueInv, OfOneSeries
  <2>2. exporting'[s] \in {0, exporting[s]} /\ exporting'[r] \in {0, exporting[r]}
    OBVIOUS
  <2> QED BY <2>1, <2>2
<1>8. InOrder' /\ NewestKept'
  <2>1. NewestKept'
    BY DEF QueueInv, PointsKept, NewestKept
  <2>2. ASSUME NEW s \in Series
        PROVE  /\ exporting'[s] # 0 /\ pending[s] # 0 => exporting'[s] < pending[s]
               /\ pending[s] <= newest[s] /\ exporting'[s] <= newest[s]
    <3>1. /\ exporting[s] # 0 /\ pending[s] # 0 => exporting[s] < pending[s]
          /\ pending[s] <= newest[s] /\ exporting[s] <= newest[s] /\ newest[s] \in Nat
      BY <1>1 DEF QueueInv, InOrder
    <3>2. exporting'[s] \in {0, exporting[s]}
      OBVIOUS
    <3> QED BY <3>1, <3>2
  <2> QED BY <2>1, <2>2 DEF InOrder
<1> QED BY <1>3, <1>6, <1>7, <1>8 DEF QueueInv, PointsKept

\* A request that the endpoint takes, refuses, or that the last export does not
\* bring there in time.
LEMMA SendingKeepsInv ==
  ASSUME QueueInv,
         \/ \E rejected \in SUBSET OfRequest(sending) : delivered(rejected)
         \/ refuses
         \/ fails /\ phase = "flush"
  PROVE  QueueInv'
<1>1. /\ QueueTyped /\ otlpSeq \in Nat /\ exporting \in [Series -> 0..otlpSeq]
  BY WaitingApart
<1>2. OfRequest(sending) \subseteq Points(exporting) /\ YetToSend
  BY DEF OfRequest, Points, QueueInv
<1>3. CASE refuses \/ \E rejected \in SUBSET OfRequest(sending) : delivered(rejected)
  <2>1. PICK gone \in SUBSET OfRequest(sending) :
          /\ acked' = acked \cup (OfRequest(sending) \ gone)
          /\ dropped' = dropped + Cardinality(gone)
    <3>1. CASE refuses
      <4>1. acked' = acked \cup (OfRequest(sending) \ OfRequest(sending))
        BY <3>1 DEF refuses
      <4> QED BY <3>1, <4>1 DEF refuses
    <3>2. CASE \E rejected \in SUBSET OfRequest(sending) : delivered(rejected)
      BY <3>2 DEF delivered
    <3> QED BY <1>3, <3>1, <3>2
  <2>2. /\ sending # 0 /\ nextRequest
        /\ UNCHANGED <<enabled, otlpSeq, pending, newest, replaced, off>>
    BY <1>3 DEF refuses, delivered
  <2>3. /\ exporting' \in [Series -> 0..otlpSeq] /\ \A s \in Series : exporting'[s] \in {0, exporting[s]}
        /\ Points(exporting') = Points(exporting) \ OfRequest(sending)
        /\ request' \in [Series -> 1..MaxRequests] /\ sending' \in 0..MaxRequests
        /\ phase' \in {"run", "stopping", "flush", "over"}
        /\ sending' = 0 => exporting' = NoPoints
        /\ YetToSend'
    BY <1>1, <1>2, <2>2, NextRequestProps
  <2> QED BY <1>2, <2>1, <2>2, <2>3, SettledKeepsInv
<1>4. CASE fails /\ phase = "flush"
  <2> DEFINE of == FromRequest(sending)
  <2>1. /\ exporting' = NoPoints /\ request' = [s \in Series |-> 1] /\ sending' = 0
        /\ phase' = AfterExport /\ dropped' = dropped + Cardinality(of) /\ sending # 0
        /\ UNCHANGED <<enabled, otlpSeq, pending, newest, acked, replaced, off>>
    BY <1>4 DEF fails, exported
  <2>2. of = Points(exporting)
    <3>1. \A s \in Series : exporting[s] # 0 => request[s] >= sending
      BY <1>2 DEF YetToSend
    <3> QED BY <3>1 DEF FromRequest, Points
  <2>3. /\ NoPoints \in [Series -> 0..otlpSeq] /\ \A s \in Series : NoPoints[s] = 0
        /\ request' \in [Series -> 1..MaxRequests] /\ 0 \in 0..MaxRequests
    BY <1>1, <2>1, QueueAssumption DEF NoPoints
  <2>4. Points(exporting') = {} /\ YetToSend'
    BY <2>1, <2>3 DEF Points, YetToSend
  <2>5. phase' \in {"run", "stopping", "flush", "over"}
    BY <1>1, <2>1 DEF AfterExport, QueueTyped
  <2>6. acked' = acked \cup (of \ of) /\ of \subseteq of
    BY <2>1
  <2>7. /\ exporting' \in [Series -> 0..otlpSeq] /\ \A s \in Series : exporting'[s] \in {0, exporting[s]}
        /\ Points(exporting') = Points(exporting) \ of /\ sending' \in 0..MaxRequests
        /\ sending' = 0 => exporting' = NoPoints
    BY <2>1, <2>2, <2>3, <2>4
  <2> HIDE DEF of
  <2> QED BY <2>1, <2>2, <2>3, <2>4, <2>5, <2>6, <2>7, SettledKeepsInv
<1> QED BY <1>3, <1>4

\* What an export could not deliver is queued again, where nothing newer waits.
LEMMA RequeueKeepsInv ==
  ASSUME QueueInv, fails, phase # "flush"
  PROVE  QueueInv'
<1> DEFINE left == FromRequest(sending)
           R    == Requeued(left)
           settled == acked \cup replaced' \cup off
<1>1. /\ QueueTyped /\ otlpSeq \in Nat /\ Points(pending) \cap Points(exporting) = {}
      /\ {pending, exporting, newest} \subseteq [Series -> 0..otlpSeq]
      /\ {pending, exporting, newest} \subseteq [Series -> Nat]
      /\ Points(pending) \subseteq 1..otlpSeq /\ Points(exporting) \subseteq 1..otlpSeq
  BY WaitingApart
<1>2. /\ exporting' = NoPoints /\ request' = [s \in Series |-> 1] /\ sending' = 0
      /\ phase' = AfterExport /\ Capped(R, 0)
      /\ replaced' = replaced \cup ((Points(pending) \cup left) \ Points(R))
      /\ UNCHANGED <<enabled, otlpSeq, newest, acked, off>>
  BY DEF fails, exported, requeueOTLP
<1>3. left = Points(exporting)
  <2>1. \A s \in Series : exporting[s] # 0 => request[s] >= sending
    BY DEF QueueInv, YetToSend
  <2> QED BY <2>1 DEF FromRequest, Points
<1>4. \A s \in Series : exporting[s] \in left <=> exporting[s] # 0
  BY <1>3 DEF Points
<1>5. /\ DOMAIN R = Series
      /\ \A s \in Series : R[s] = IF pending[s] = 0 THEN exporting[s] ELSE pending[s]
      /\ R = [s \in Series |-> R[s]]
  BY <1>1, <1>4 DEF Requeued
<1> HIDE DEF R, left
<1>6. R \in [Series -> 0..otlpSeq] /\ R \in [Series -> Nat]
  <2>1. \A s \in Series : R[s] \in 0..otlpSeq /\ R[s] \in Nat
    BY <1>1, <1>5
  <2> QED BY <1>5, <2>1
<1>7. /\ pending' \in [Series -> Nat] /\ \A s \in Series : pending'[s] \in {0, R[s]}
      /\ Points(pending') = Points(R) \ Oldest(R)
  BY <1>2, <1>6, WithoutPoints DEF Capped
<1>8. Points(R) \subseteq Points(pending) \cup Points(exporting) /\ Points(pending) \subseteq Points(R)
  BY <1>5 DEF Points
<1>9. (acked \cup replaced \cup off) \cap (Points(pending) \cup Points(exporting)) = {}
  BY DEF QueueInv, SettledOnce
<1>10. /\ Points(R) \cap settled = {} /\ Points(R) \subseteq 1..otlpSeq
       /\ settled \cup Points(R) = Known
  BY <1>1, <1>2, <1>3, <1>8, <1>9 DEF Known
<1>11. NoPoints \in [Series -> 0..otlpSeq] /\ Points(NoPoints) = {} /\ \A s \in Series : NoPoints[s] = 0
  BY <1>1 DEF NoPoints, Points
<1>12. SettledOnce'
  <2>1. Points(pending)' = Points(pending') /\ Points(exporting)' = {}
    BY <1>2, <1>11 DEF Points
  <2> QED BY <1>2, <1>7, <1>10, <2>1 DEF SettledOnce
<1>13. QueueTyped'
  <2>1. pending' \in [Series -> 0..otlpSeq]
    <3>1. \A s \in Series : pending'[s] \in 0..otlpSeq
      BY <1>1, <1>6, <1>7
    <3> QED BY <1>7, <3>1
  <2>2. replaced' \subseteq 1..otlpSeq
    BY <1>1, <1>2, <1>3 DEF QueueTyped
  <2>3. request' \in [Series -> 1..MaxRequests] /\ 0 \in 0..MaxRequests
    BY <1>2, QueueAssumption
  <2> QED BY <1>1, <1>2, <1>11, <2>1, <2>2, <2>3 DEF QueueTyped, AfterExport
<1>14. dropped' = Cardinality((1..otlpSeq') \ Known')
  <2>1. dropped = Cardinality((1..otlpSeq) \ (settled \cup Points(R)))
    BY <1>10 DEF QueueInv, PointsKept, PointsAccounted, Known
  <2>2. Known' = settled \cup Points(pending')
    <3>1. Points(exporting)' = {} /\ Points(pending)' = Points(pending')
      BY <1>2, <1>11 DEF Points
    <3> QED BY <1>2, <3>1 DEF Known
  <2> HIDE DEF settled
  <2>3. dropped' = Cardinality((1..otlpSeq) \ (settled \cup Points(pending')))
    BY <1>1, <1>2, <1>6, <1>10, <2>1, CapCounts
  <2> QED BY <1>2, <2>2, <2>3
<1>15. PointsAccounted'
  <2>1. QueueTyped' /\ SettledOnce' /\ (dropped = Cardinality((1..otlpSeq) \ Known))'
          => PointsAccounted'
    BY AccountedWhenCounted, PTL
  <2> QED BY <1>12, <1>13, <1>14, <2>1
<1>16. OfOneSeries'
  <2> SUFFICES ASSUME NEW s \in Series, NEW r \in Series, s # r
               PROVE  {pending'[s], exporting'[s], newest[s]} \cap {pending'[r], exporting'[r], newest[r]} \subseteq {0}
    BY <1>2 DEF OfOneSeries
  <2>1. {pending[s], exporting[s], newest[s]} \cap {pending[r], exporting[r], newest[r]} \subseteq {0}
    BY DEF QueueInv, OfOneSeries
  <2>2. \A t \in Series : pending'[t] \in {0, pending[t], exporting[t]} /\ exporting'[t] = 0
    BY <1>2, <1>5, <1>7, <1>11
  <2> QED BY <2>1, <2>2
<1>17. InOrder'
  <2> SUFFICES ASSUME NEW s \in Series
               PROVE  /\ exporting'[s] = 0
                      /\ pending'[s] <= newest[s] /\ exporting'[s] <= newest[s]
    BY <1>2 DEF InOrder
  <2>1. pending[s] <= newest[s] /\ exporting[s] <= newest[s] /\ newest[s] \in Nat
    BY <1>1 DEF QueueInv, InOrder
  <2>2. pending'[s] \in {0, pending[s], exporting[s]} /\ exporting'[s] = 0
    BY <1>2, <1>5, <1>7, <1>11
  <2> QED BY <2>1, <2>2
<1>18. NewestKept'
  <2> SUFFICES ASSUME NEW s \in Series PROVE newest[s] \notin replaced'
    BY <1>2 DEF NewestKept
  <2>1. newest[s] \notin replaced
    BY DEF QueueInv, PointsKept, NewestKept
  <2>2. ASSUME NEW r \in Series, newest[s] = exporting[r], exporting[r] # 0
        PROVE  newest[s] \in Points(R)
    <3>1. CASE r = s
      <4>1. pending[s] = 0
        BY <1>1, <2>2, <3>1 DEF QueueInv, InOrder
      <4> QED BY <1>5, <2>2, <3>1, <4>1 DEF Points
    <3>2. CASE r # s
      <4>1. {pending[s], exporting[s], newest[s]} \cap {pending[r], exporting[r], newest[r]} \subseteq {0}
        BY <3>2 DEF QueueInv, OfOneSeries
      <4> QED BY <2>2, <4>1
    <3> QED BY <3>1, <3>2
  <2>3. newest[s] \in Points(exporting) => newest[s] \in Points(R)
    BY <2>2 DEF Points
  <2> QED BY <1>2, <1>3, <1>8, <2>1, <2>3
<1>19. YetToSend'
  BY <1>2, <1>11 DEF YetToSend
<1> QED BY <1>12, <1>15, <1>16, <1>17, <1>18, <1>19 DEF QueueInv, PointsKept

\* An export begins, or throws away what waits while export is switched off.
LEMMA DrainKeepsInv ==
  ASSUME QueueInv, drainOTLP
  PROVE  QueueInv'
<1>1. /\ QueueTyped /\ otlpSeq \in Nat /\ Points(pending) \cap Points(exporting) = {}
      /\ {pending, exporting, newest} \subseteq [Series -> 0..otlpSeq]
      /\ {pending, exporting, newest} \subseteq [Series -> Nat]
      /\ Points(pending) \subseteq 1..otlpSeq
  BY WaitingApart
<1>2. /\ sending = 0 /\ pending' = NoPoints
      /\ UNCHANGED <<enabled, otlpSeq, dropped, newest, acked, replaced>>
  BY DEF drainOTLP
<1>3. exporting = NoPoints
  BY <1>1, <1>2 DEF QueueTyped
<1>4. NoPoints \in [Series -> 0..otlpSeq] /\ Points(NoPoints) = {} /\ \A s \in Series : NoPoints[s] = 0
  BY <1>1 DEF NoPoints, Points
<1>5. \/ /\ exporting' = pending /\ sending' = 1 /\ request' \in [Series -> 1..MaxRequests]
         /\ UNCHANGED <<phase, off>>
      \/ /\ off' = off \cup Points(pending) /\ phase' = AfterExport
         /\ UNCHANGED <<exporting, request, sending>>
  BY DEF drainOTLP, export
<1>6. /\ exporting' \in {pending, NoPoints}
      /\ off' \cup Points(exporting') = off \cup Points(pending)
      /\ (off' \cup acked \cup replaced) \cap Points(exporting') = {}
  <2>1. (acked \cup replaced \cup off) \cap Points(pending) = {}
    BY DEF QueueInv, SettledOnce
  <2> QED BY <1>3, <1>4, <1>5, <2>1
<1>7. QueueTyped'
  <2>1. exporting' \in [Series -> 0..otlpSeq] /\ off' \subseteq 1..otlpSeq
    BY <1>1, <1>4, <1>5, <1>6 DEF QueueTyped
  <2>2. request' \in [Series -> 1..MaxRequests] /\ sending' \in 0..MaxRequests
          /\ (sending' = 0 => exporting' = NoPoints)
    BY <1>1, <1>2, <1>3, <1>5, QueueAssumption DEF QueueTyped
  <2>3. phase' \in {"run", "stopping", "flush", "over"}
    BY <1>1, <1>5 DEF AfterExport, QueueTyped
  <2> QED BY <1>1, <1>2, <1>4, <2>1, <2>2, <2>3 DEF QueueTyped
<1>8. Points(pending)' = {} /\ Points(exporting)' = Points(exporting')
  BY <1>2, <1>4 DEF Points
<1>9. SettledOnce'
  BY <1>2, <1>6, <1>8 DEF SettledOnce
<1>10. dropped' = Cardinality((1..otlpSeq') \ Known')
  <2>1. Known' = Known
    BY <1>2, <1>3, <1>4, <1>6, <1>8 DEF Known
  <2>2. dropped = Cardinality((1..otlpSeq) \ Known)
    BY DEF QueueInv, PointsKept, PointsAccounted, Known
  <2> QED BY <1>2, <2>1, <2>2
<1>11. PointsAccounted'
  <2>1. QueueTyped' /\ SettledOnce' /\ (dropped = Cardinality((1..otlpSeq) \ Known))'
          => PointsAccounted'
    BY AccountedWhenCounted, PTL
  <2> QED BY <1>7, <1>9, <1>10, <2>1
<1>12. \A s \in Series : pending'[s] = 0 /\ exporting'[s] \in {0, pending[s]}
  BY <1>2, <1>4, <1>6
<1>13. OfOneSeries'
  <2> SUFFICES ASSUME NEW s \in Series, NEW r \in Series, s # r
               PROVE  {pending'[s], exporting'[s], newest[s]} \cap {pending'[r], exporting'[r], newest[r]} \subseteq {0}
    BY <1>2 DEF OfOneSeries
  <2>1. {pending[s], exporting[s], newest[s]} \cap {pending[r], exporting[r], newest[r]} \subseteq {0}
    BY DEF QueueInv, OfOneSeries
  <2> QED BY <1>12, <2>1
<1>14. InOrder'
  <2> SUFFICES ASSUME NEW s \in Series
               PROVE  pending'[s] = 0 /\ pending'[s] <= newest[s] /\ exporting'[s] <= newest[s]
    BY <1>2 DEF InOrder
  <2>1. pending[s] <= newest[s] /\ newest[s] \in Nat
    BY <1>1 DEF QueueInv, InOrder
  <2> QED BY <1>12, <2>1
<1>15. NewestKept'
  BY <1>2 DEF QueueInv, PointsKept, NewestKept
<1>16. YetToSend'
  <2> SUFFICES ASSUME NEW s \in Series, exporting'[s] # 0
               PROVE  sending' # 0 /\ request'[s] >= sending'
    BY DEF YetToSend
  <2>1. sending' = 1 /\ request' \in [Series -> 1..MaxRequests]
    BY <1>3, <1>4, <1>5
  <2>2. request'[s] \in 1..MaxRequests /\ MaxRequests \in Nat
    BY <2>1, QueueAssumption
  <2> QED BY <2>1, <2>2
<1> QED BY <1>9, <1>11, <1>13, <1>14, <1>15, <1>16 DEF QueueInv, PointsKept

\* Whatever is queued, delivered, refused, requeued and switched off, and
\* however the shutdown cuts it short, it is known of every point what became
\* of it, those given up are counted each once, and the newest of a series
\* gives way to none (queueOTLPResource, exportOTLPOnce, requeueOTLP).
THEOREM PointsAlwaysKept == QueueSpec => []PointsKept
<1>1. QueueInv /\ [QueueNext]_qvars => QueueInv'
  <2> SUFFICES ASSUME QueueInv, [QueueNext]_qvars PROVE QueueInv'
    OBVIOUS
  <2>1. CASE \E S \in (SUBSET Series) \ {{}} : queueOTLPResource(S)
    BY <2>1, QueueingKeepsInv
  <2>2. CASE drainOTLP
    BY <2>2, DrainKeepsInv
  <2>3. CASE \/ \E rejected \in SUBSET OfRequest(sending) : delivered(rejected)
             \/ refuses \/ fails
    BY <2>3, SendingKeepsInv, RequeueKeepsInv
  <2>4. CASE switchExport \/ stopExports \/ flushOTLP \/ UNCHANGED qvars
    <3>1. /\ UNCHANGED <<otlpSeq, pending, exporting, request, sending, dropped,
                         newest, acked, replaced, off>>
          /\ enabled' \in {enabled, ~enabled}
          /\ phase' \in {phase, "stopping", "flush", "over"}
      BY <2>4 DEF switchExport, stopExports, flushOTLP, qvars, history, export
    <3>2. QueueTypeOK'
      BY <3>1 DEF QueueInv, PointsKept, PointsAccounted, QueueTypeOK
    <3>3. PointsAccounted'
      BY <3>1, <3>2 DEF QueueInv, PointsKept, PointsAccounted, Points
    <3> QED BY <3>1, <3>3 DEF QueueInv, PointsKept, NewestKept, OfOneSeries, InOrder,
                              SettledOnce, YetToSend, Points
  <2> QED BY <2>1, <2>2, <2>3, <2>4 DEF QueueNext
<1>2. QueueInv => PointsKept
  BY DEF QueueInv
<1> QED BY <1>1, <1>2, QueueInitInv, PTL DEF QueueSpec

=============================================================================
