-------------------------- MODULE PythonPoolProofs --------------------------
(***************************************************************************)
(* What a collector's pool of Python workers keeps, for any runs, scripts, *)
(* limits and number of reloads: the workers it has are within its limit   *)
(* and are counted where they are, in its live count and in the            *)
(* statistics; and a run that waits for a worker while there is room is    *)
(* never left asleep.                                                      *)
(***************************************************************************)
EXTENDS PythonPool, CountingLemmas, FiniteSetTheorems, SequenceTheorems, TLAPS

-----------------------------------------------------------------------------
(* The idle workers, and the line. *)

Workers == [script : Scripts, stats : Numbers]

\* The idle workers without some of them are the others.
LEMMA LeftIdle ==
  ASSUME idle \in Seq(Workers), NEW gone \in SUBSET DOMAIN idle
  PROVE  /\ IdleWithout(gone) \in Seq(Workers)
         /\ Len(IdleWithout(gone)) = Cardinality(DOMAIN idle \ gone)
         /\ \A i \in DOMAIN IdleWithout(gone) :
              \E j \in DOMAIN idle \ gone : IdleWithout(gone)[i] = idle[j]
         /\ \A V : /\ CountIn(IdleWithout(gone), V) = CountIn(idle, V) - CountsAt(idle, gone, V)
                   /\ CountIn(idle, V) \in Nat /\ CountsAt(idle, gone, V) \in Nat
                   /\ CountIn(IdleWithout(gone), V) \in Nat
<1> DEFINE left == DOMAIN idle \ gone
           place(j) == Cardinality({l \in left : l <= j})
           n == Cardinality(left)
           at == [i \in 1..n |-> CHOOSE j \in left : place(j) = i]
           new == IdleWithout(gone)
<1>1. DOMAIN idle = 1..Len(idle) /\ Len(idle) \in Nat /\ \A i \in DOMAIN idle : idle[i] \in Workers
  OBVIOUS
<1>2. left \subseteq Nat /\ IsFiniteSet(left)
  <2>1. IsFiniteSet(DOMAIN idle) /\ left \in SUBSET DOMAIN idle
    BY <1>1, FS_Interval
  <2> QED BY <1>1, <2>1, FS_Subset
<1>3. new = [i \in 1..n |-> idle[at[i]]]
  BY DEF IdleWithout
<1> HIDE DEF left, new
<1>4. /\ n \in Nat /\ \A j \in left : place(j) \in 1..n
      /\ \A j, l \in left : place(j) = place(l) => j = l
      /\ \A i \in 1..n : \E j \in left : place(j) = i
  BY <1>2, Numbering
<1> HIDE DEF place, n
<1>5. \A i \in 1..n : at[i] \in left /\ place(at[i]) = i
  BY <1>4
<1>6. \A j \in left : at[place(j)] = j
  BY <1>4, <1>5
<1> HIDE DEF at
<1>7. \A i \in 1..n : at[i] \in DOMAIN idle \ gone /\ idle[at[i]] \in Workers
  BY <1>1, <1>5 DEF left
<1>8. new \in Seq(Workers) /\ Len(new) = n /\ DOMAIN new = 1..n
  <2>1. new \in [1..n -> Workers]
    BY <1>3, <1>7
  <2> QED BY <1>4, <2>1
<1>9. ASSUME NEW V
      PROVE  /\ CountIn(new, V) = CountIn(idle, V) - CountsAt(idle, gone, V)
             /\ CountIn(idle, V) \in Nat /\ CountsAt(idle, gone, V) \in Nat
             /\ CountIn(new, V) \in Nat
  <2> DEFINE A == {i \in 1..n : new[i] \in V}
             B == {j \in left : idle[j] \in V}
             f == [i \in A |-> at[i]]
  <2>1. f \in [A -> B]
    BY <1>3, <1>5
  <2>2. \A i, j \in A : f[i] = f[j] => i = j
    BY <1>5
  <2>3. \A j \in B : \E i \in A : f[i] = j
    <3> SUFFICES ASSUME NEW j \in B PROVE place(j) \in A /\ at[place(j)] = j
      OBVIOUS
    <3> QED BY <1>3, <1>4, <1>6
  <2>4. IsFiniteSet(A)
    <3>1. IsFiniteSet(1..n) /\ A \in SUBSET (1..n)
      BY <1>4, FS_Interval
    <3> QED BY <3>1, FS_Subset
  <2> HIDE DEF A, B, f
  <2>5. Cardinality(B) = Cardinality(A)
    BY <2>1, <2>2, <2>3, <2>4, CountedAlike
  <2>6. CountIn(new, V) = Cardinality(A)
    BY <1>8 DEF CountIn, A
  <2>7. Cardinality(B) = CountsAt(idle, DOMAIN idle \ gone, V)
    BY DEF B, left, CountsAt
  <2>8. /\ CountsAt(idle, DOMAIN idle \ gone, V) = CountIn(idle, V) - CountsAt(idle, gone, V)
        /\ CountIn(idle, V) \in Nat /\ CountsAt(idle, gone, V) \in Nat
        /\ CountsAt(idle, DOMAIN idle \ gone, V) \in Nat
    BY CountsParted
  <2> QED BY <2>5, <2>6, <2>7, <2>8
<1>10. \A i \in DOMAIN new : \E j \in DOMAIN idle \ gone : new[i] = idle[j]
  BY <1>3, <1>7, <1>8
<1> QED BY <1>8, <1>9, <1>10 DEF new, n, left

\* The last of the workers a run may have are as many as it takes.
LEMMA LastAreMany ==
  ASSUME idle \in Seq(Workers), NEW r \in Runs, NEW n \in 0..Cardinality(FitFor(r))
  PROVE  /\ LastFit(r, n) \in SUBSET FitFor(r)
         /\ Cardinality(LastFit(r, n)) = n
<1> DEFINE S == FitFor(r)
           c == Cardinality(S)
           place(s) == Cardinality({j \in S : j <= s})
           L == LastFit(r, n)
<1>1. S \subseteq Nat /\ IsFiniteSet(S)
  <2>1. DOMAIN idle = 1..Len(idle) /\ Len(idle) \in Nat
    OBVIOUS
  <2>2. IsFiniteSet(1..Len(idle)) /\ S \in SUBSET (1..Len(idle))
    BY <2>1, FS_Interval DEF FitFor
  <2> QED BY <2>1, <2>2, FS_Subset
<1>2. L = {s \in S : Cardinality({j \in S : j > s}) < n}
  BY DEF LastFit
<1> HIDE DEF S, L
<1>3. /\ c \in Nat /\ \A s \in S : place(s) \in 1..c
      /\ \A s, t \in S : place(s) = place(t) => s = t
      /\ \A i \in 1..c : \E s \in S : place(s) = i
  BY <1>1, Numbering
<1>4. ASSUME NEW s \in S PROVE Cardinality({j \in S : j > s}) = c - place(s)
  <2> DEFINE A == {j \in S : j > s}
             B == {j \in S : j <= s}
  <2>1. A \in SUBSET S /\ B \in SUBSET S
    OBVIOUS
  <2>2. S = A \cup B /\ A \cap B = {}
    <3>1. \A j \in S : j \in Nat
      BY <1>1
    <3>2. \A j \in S : (j > s) <=> ~(j <= s)
      BY <3>1
    <3> QED BY <3>2
  <2> HIDE DEF A, B
  <2>3. IsFiniteSet(A) /\ IsFiniteSet(B)
    BY <1>1, <2>1, FS_Subset
  <2>4. Cardinality(S) = Cardinality(A) + Cardinality(B) /\ Cardinality(A) \in Nat /\ Cardinality(B) \in Nat
    BY <2>2, <2>3, CountedApart
  <2>5. Cardinality(A) = Cardinality(S) - Cardinality(B)
    BY <2>4
  <2> QED BY <2>5 DEF A, B
<1> DEFINE high == (c - n + 1)..c
           f == [s \in L |-> place(s)]
<1>5. n \in Nat /\ n <= c
  BY <1>3 DEF S
<1> HIDE DEF place, c
<1>6. L = {s \in S : place(s) > c - n}
  BY <1>2, <1>3, <1>4, <1>5
<1>7. f \in [L -> high]
  BY <1>3, <1>5, <1>6
<1>8. \A i \in high : \E s \in L : f[s] = i
  <2> SUFFICES ASSUME NEW i \in high PROVE \E s \in L : place(s) = i
    OBVIOUS
  <2>1. i \in 1..c /\ i > c - n
    BY <1>3, <1>5
  <2> QED BY <1>3, <1>6, <2>1
<1>9. IsFiniteSet(L) /\ L \in SUBSET S
  <2>1. L \in SUBSET S
    BY <1>6
  <2> QED BY <1>1, <2>1, FS_Subset
<1>10. \A s, t \in L : f[s] = f[t] => s = t
  BY <1>3, <1>9
<1> HIDE DEF f
<1>11. Cardinality(high) = Cardinality(L)
  <2> HIDE DEF high
  <2> QED BY <1>7, <1>8, <1>9, <1>10, CountedAlike
<1>12. Cardinality(high) = n
  <2>1. c - n + 1 \in Int /\ c \in Int
    BY <1>3, <1>5
  <2>2. Cardinality(high) = IF c - n + 1 > c THEN 0 ELSE c - (c - n + 1) + 1
    BY <2>1, FS_Interval
  <2> QED BY <1>3, <1>5, <2>2
<1> QED BY <1>9, <1>11, <1>12 DEF L, S

-----------------------------------------------------------------------------
(* What holds of the Python workers. *)

Doing      == {"asks", "woken", "waits", "starting", "busy"}
RunStates  == {Away} \cup [at : Doing, of : Workers, reused : BOOLEAN]
TallyStates == [Numbers -> [starting : Int, busy : Int, alive : Int]]

WorkersTyped ==
  /\ reloads \in 0..MaxRetained /\ stay \in 0..(reloads + 1)
  /\ script \in SUBSET Scripts /\ under \in [Scripts -> 0..(reloads + 1)]
  /\ run \in [Runs -> RunStates]
  /\ \A r \in Runs : run[r].at # "away" => run[r].of.stats <= reloads + 1
  /\ maxWorkers \in Nat /\ live \in Nat
  /\ idle \in Seq(Workers) /\ line \in Seq(Runs) /\ obsolete \in SUBSET Scripts
  /\ tally \in TallyStates

\* The statistics are kept as long as the collector is there and until they
\* are retired.
StayFollows ==
  /\ "retire" \in pending => script = {}
  /\ stay = Departed <=> script = {} /\ "retire" \notin pending

\* The line is of the runs that wait, each once.
LineOf(l, runs) == IsInjective(l) /\ ToSet(l) = {r \in Runs : runs[r].at = "waits"}

\* The runs that start or use a worker of a set, and those of it idle.
HavingAt(runs, where, V) == {r \in Runs : runs[r].at = where /\ runs[r].of \in V}
Having(runs, where, V) == Cardinality(HavingAt(runs, where, V))

OfScript(k)  == {w \in Workers : w.script = k}
CountedIn(s) == {w \in Workers : countedLocked(w.stats) = s}

PlacesKept == live = Having(run, "starting", Workers) + Having(run, "busy", Workers) + Len(idle)

TalliesKept ==
  \A s \in Numbers :
    /\ tally[s].starting = Having(run, "starting", CountedIn(s))
    /\ tally[s].busy = Having(run, "busy", CountedIn(s))
    /\ tally[s].alive = Having(run, "busy", CountedIn(s)) + CountIn(idle, CountedIn(s))

IdleKept ==
  /\ \A i \in DOMAIN idle : ~Retired(idle[i].stats)
  /\ \A k \in Scripts : CountIn(idle, OfScript(k)) <= MaxIdle
  /\ \A k \in obsolete : Busy(run, k) # {} /\ \A i \in DOMAIN idle : idle[i].script # k

WorkersInv ==
  /\ WorkersTyped /\ StayFollows /\ LineOf(line, run)
  /\ PlacesKept /\ live <= maxWorkers
  /\ TalliesKept /\ IdleKept /\ NoWakeLost

\* A run that is woken changes nothing but that it no longer waits.
Woken(before, after) ==
  \/ after = before
  \/ before.at = "waits" /\ after.at = "woken" /\ after.of = before.of

LEMMA Notified ==
  ASSUME NEW runs \in [Runs -> RunStates], line \in Seq(Runs), LineOf(line, runs),
         NEW n \in Nat, notifyLocked(runs, n)
  PROVE  /\ run' \in [Runs -> RunStates] /\ line' \in Seq(Runs) /\ LineOf(line', run')
         /\ \A q \in Runs : Woken(runs[q], run'[q])
         /\ line' # <<>> =>
              /\ line # <<>>
              /\ Cardinality({q \in Runs : run'[q].at = "woken"})
                   = Cardinality({q \in Runs : runs[q].at = "woken"}) + n
<1> DEFINE c == Len(line)
           new == SubSeq(line, n + 1, c)
           wakes(q) == \E i \in 1..n : i <= c /\ line[i] = q
           woke(q) == [runs[q] EXCEPT !.at = "woken"]
<1>1. c \in Nat /\ DOMAIN line = 1..c /\ \A i \in 1..c : line[i] \in Runs
  OBVIOUS
<1>2. \A i, j \in 1..c : line[i] = line[j] => i = j
  BY <1>1 DEF LineOf, IsInjective
<1>3. \A q \in Runs : runs[q].at = "waits" <=> \E i \in 1..c : line[i] = q
  BY <1>1 DEF LineOf, ToSet
<1>4. line' = new /\ run' = [q \in Runs |-> IF wakes(q) THEN woke(q) ELSE runs[q]]
  BY DEF notifyLocked
<1>5. \A q \in Runs : wakes(q) => runs[q].at = "waits"
  BY <1>1, <1>3
<1>6. \A q \in Runs : runs[q].at = "waits" =>
        woke(q) \in RunStates /\ woke(q).at = "woken" /\ woke(q).of = runs[q].of
  <2> SUFFICES ASSUME NEW q \in Runs, runs[q].at = "waits"
               PROVE  woke(q) \in RunStates /\ woke(q).at = "woken" /\ woke(q).of = runs[q].of
    OBVIOUS
  <2>1. runs[q] \in [at : Doing, of : Workers, reused : BOOLEAN]
    BY DEF RunStates, Away
  <2> QED BY <2>1 DEF RunStates, Doing
<1> HIDE DEF wakes, woke
<1>7. run' \in [Runs -> RunStates] /\ \A q \in Runs : Woken(runs[q], run'[q])
  BY <1>4, <1>5, <1>6 DEF Woken
<1>8. /\ new \in Seq(Runs) /\ Len(new) = (IF n < c THEN c - n ELSE 0)
      /\ \A i \in 1..Len(new) : new[i] = line[i + n]
  <2>1. \A i \in (n + 1)..c : line[i] \in Runs
    BY <1>1
  <2>2. /\ new \in Seq(Runs) /\ Len(new) = (IF n + 1 <= c THEN c - (n + 1) + 1 ELSE 0)
        /\ \A i \in 1..(c - (n + 1) + 1) : new[i] = line[(n + 1) + i - 1]
    BY <1>1, <2>1, SubSeqProperties
  <2>3. Len(new) = (IF n < c THEN c - n ELSE 0)
    BY <1>1, <2>2
  <2>4. ASSUME NEW i \in 1..Len(new) PROVE new[i] = line[i + n]
    <3>1. i \in 1..(c - (n + 1) + 1) /\ (n + 1) + i - 1 = i + n
      BY <1>1, <2>3
    <3>2. new[i] = line[(n + 1) + i - 1]
      BY <2>2, <3>1
    <3> QED BY <3>1, <3>2
  <2> QED BY <2>2, <2>3, <2>4
<1> HIDE DEF new
<1>9. DOMAIN new = 1..Len(new) /\ Len(new) \in Nat /\ \A i \in 1..Len(new) : i + n \in 1..c
  <2>1. DOMAIN new = 1..Len(new) /\ Len(new) \in Nat
    BY <1>8, LenProperties
  <2>2. Len(new) = (IF n < c THEN c - n ELSE 0)
    BY <1>8
  <2>3. \A i \in 1..Len(new) : i + n \in 1..c
    <3> DEFINE m == Len(new)
    <3> HIDE DEF m, c
    <3>1. m \in Nat /\ c \in Nat /\ m = (IF n < c THEN c - n ELSE 0)
      BY <1>1, <2>1, <2>2 DEF m, c
    <3>2. \A i \in 1..m : i + n \in 1..c
      BY <3>1
    <3> QED BY <3>2 DEF m
  <2> QED BY <2>1, <2>3
<1>10. LineOf(new, run')
  <2>1. IsInjective(new)
    <3> SUFFICES ASSUME NEW i \in 1..Len(new), NEW j \in 1..Len(new), new[i] = new[j] PROVE i = j
      BY <1>9 DEF IsInjective
    <3>1. line[i + n] = line[j + n]
      BY <1>8
    <3>2. i + n = j + n
      BY <1>2, <1>9, <3>1
    <3> QED BY <3>2
  <2>2. ASSUME NEW q \in Runs PROVE run'[q].at = "waits" <=> \E i \in 1..Len(new) : new[i] = q
    <3>1. run'[q].at = "waits" <=> runs[q].at = "waits" /\ ~wakes(q)
      BY <1>4, <1>5, <1>6
    <3>2. ASSUME NEW i \in 1..Len(new), new[i] = q PROVE runs[q].at = "waits" /\ ~wakes(q)
      <4>1. line[i + n] = q /\ i + n \in 1..c
        BY <1>8, <1>9, <3>2
      <4>2. ASSUME NEW j \in 1..n, j <= c, line[j] = q PROVE FALSE
        <5>1. j \in 1..c /\ j = i + n
          BY <1>1, <1>2, <4>1, <4>2
        <5> QED BY <5>1
      <4> QED BY <1>3, <4>1, <4>2 DEF wakes
    <3>3. ASSUME runs[q].at = "waits", ~wakes(q) PROVE \E i \in 1..Len(new) : new[i] = q
      <4>1. PICK j \in 1..c : line[j] = q
        BY <1>3, <3>3
      <4>2. ~(j <= n)
        BY <3>3, <4>1 DEF wakes
      <4>3. j - n \in 1..Len(new) /\ (j - n) + n = j
        <5> DEFINE m == Len(new)
        <5>1. m = (IF n < c THEN c - n ELSE 0)
          BY <1>8
        <5> HIDE DEF m, c
        <5>2. c \in Nat /\ j \in 1..c
          BY <1>1, <4>1 DEF c
        <5>3. j - n \in 1..m /\ (j - n) + n = j
          BY <4>2, <5>1, <5>2
        <5> QED BY <5>3 DEF m
      <4>4. new[j - n] = q
        BY <1>8, <4>1, <4>3
      <4> QED BY <4>3, <4>4
    <3> QED BY <3>1, <3>2, <3>3
  <2>3. \A i \in 1..Len(new) : new[i] \in Runs
    BY <1>8
  <2>4. ToSet(new) = {new[i] : i \in 1..Len(new)}
    BY <1>9 DEF ToSet
  <2>5. {new[i] : i \in 1..Len(new)} = {q \in Runs : run'[q].at = "waits"}
    BY <2>2, <2>3
  <2> QED BY <2>1, <2>4, <2>5 DEF LineOf
<1>11. ASSUME new # <<>>
       PROVE  /\ line # <<>>
              /\ Cardinality({q \in Runs : run'[q].at = "woken"})
                   = Cardinality({q \in Runs : runs[q].at = "woken"}) + n
  <2> DEFINE A == {q \in Runs : runs[q].at = "woken"}
             B == {q \in Runs : run'[q].at = "woken"}
             W == {line[i] : i \in 1..n}
             f == [i \in 1..n |-> line[i]]
  <2>1. n < c /\ line # <<>>
    <3>1. Len(new) # 0
      BY <1>8, <1>11, EmptySeq
    <3>2. n < c
      BY <1>8, <3>1
    <3>3. Len(<<>>) = 0 /\ c > 0
      BY <1>1, <3>2, EmptySeq
    <3> QED BY <3>2, <3>3
  <2>2. /\ f \in [1..n -> W] /\ (\A i, j \in 1..n : f[i] = f[j] => i = j)
        /\ \A q \in W : \E i \in 1..n : f[i] = q
    BY <1>1, <1>2, <2>1
  <2>3. IsFiniteSet(1..n) /\ Cardinality(1..n) = n
    <3>1. Cardinality(1..n) = IF 1 > n THEN 0 ELSE n - 1 + 1
      BY FS_Interval
    <3> QED BY <3>1, FS_Interval
  <2>4. IsFiniteSet(W) /\ Cardinality(W) = n
    <3> DEFINE D == 1..n
    <3> HIDE DEF W, f, D
    <3>1. IsFiniteSet(W) /\ Cardinality(W) = Cardinality(D)
      BY <2>2, <2>3, CountedAlike DEF D
    <3> QED BY <2>3, <3>1 DEF D
  <2>5. \A q \in Runs : wakes(q) <=> q \in W
    BY <1>1, <2>1 DEF wakes
  <2>6. \A q \in Runs : run'[q].at = "woken" <=> runs[q].at = "woken" \/ q \in W
    BY <1>4, <1>5, <1>6, <2>5
  <2>7. W \subseteq Runs /\ \A q \in W : runs[q].at # "woken"
    BY <1>1, <1>5, <2>1, <2>5
  <2>8. B = A \cup W /\ A \cap W = {}
    BY <2>6, <2>7
  <2>9. IsFiniteSet(A)
    <3>1. A \in SUBSET Runs
      OBVIOUS
    <3> QED BY <3>1, FS_Subset, PythonAssumption
  <2> HIDE DEF A, B, W
  <2>10. Cardinality(B) = Cardinality(A) + n
    BY <2>4, <2>8, <2>9, CountedApart
  <2> QED BY <2>1, <2>10 DEF A, B
<1> QED BY <1>4, <1>7, <1>8, <1>10, <1>11

\* What one run does changes the counts by it alone, whoever is woken.
LEMMA HavingFollows ==
  ASSUME NEW before \in [Runs -> RunStates], NEW after \in [Runs -> RunStates], NEW r \in Runs,
         \A q \in Runs : q # r => Woken(before[q], after[q]),
         NEW where \in {"starting", "busy"}, NEW V
  PROVE  /\ Having(before, where, V) \in Nat /\ Having(after, where, V) \in Nat
         /\ Having(after, where, V)
              = Having(before, where, V) + OneIf(after[r].at = where /\ after[r].of \in V)
                  - OneIf(before[r].at = where /\ before[r].of \in V)
<1> DEFINE A == HavingAt(before, where, V)
           B == HavingAt(after, where, V)
<1>1. A \in SUBSET Runs /\ B \in SUBSET Runs
  BY DEF HavingAt
<1>2. \A q \in Runs : q # r => (q \in A <=> q \in B)
  BY DEF HavingAt, Woken
<1>3. /\ r \in A <=> before[r].at = where /\ before[r].of \in V
      /\ r \in B <=> after[r].at = where /\ after[r].of \in V
  BY DEF HavingAt
<1> HIDE DEF A, B
<1>4. /\ Cardinality(A) \in Nat /\ Cardinality(B) \in Nat
      /\ Cardinality(B) = Cardinality(A) + OneIf(r \in B) - OneIf(r \in A)
  BY <1>1, <1>2, CountedButOne, PythonAssumption
<1>5. Having(before, where, V) = Cardinality(A) /\ Having(after, where, V) = Cardinality(B)
  BY DEF Having, A, B
<1> QED BY <1>3, <1>4, <1>5 DEF OneIf

LEMMA HavingStays ==
  ASSUME NEW before \in [Runs -> RunStates], NEW after \in [Runs -> RunStates],
         \A q \in Runs : Woken(before[q], after[q]),
         NEW where \in {"starting", "busy"}, NEW V
  PROVE  Having(before, where, V) \in Nat /\ Having(after, where, V) = Having(before, where, V)
<1>1. HavingAt(after, where, V) = HavingAt(before, where, V)
  BY DEF HavingAt, Woken
<1>2. HavingAt(before, where, V) \in SUBSET Runs
  BY DEF HavingAt
<1>3. IsFiniteSet(HavingAt(before, where, V))
  BY <1>2, FS_Subset, PythonAssumption
<1>4. Cardinality(HavingAt(before, where, V)) \in Nat
  BY <1>3, FS_CardinalityType
<1> QED BY <1>1, <1>4 DEF Having

\* What is counted where.
LEMMA CountedWhere ==
  ASSUME NEW c \in TallyStates, NEW w \in Workers, NEW field \in {"starting", "busy", "alive"},
         NEW n \in Int
  PROVE  /\ Counted(c, w.stats, field, n) \in TallyStates
         /\ \A s \in Numbers : \A f \in {"starting", "busy", "alive"} :
              Counted(c, w.stats, field, n)[s][f]
                = c[s][f] + IF f = field /\ w \in CountedIn(s) THEN n ELSE 0
<1> DEFINE t == countedLocked(w.stats)
           d == Counted(c, w.stats, field, n)
<1>1. w.stats \in Numbers /\ Departed \in Numbers /\ t \in Numbers
  BY PythonAssumption DEF Workers, countedLocked, Departed, Numbers
<1>2. \A s \in Numbers : w \in CountedIn(s) <=> t = s
  BY DEF CountedIn
<1>3. d = [c EXCEPT ![t] = [c[t] EXCEPT ![field] = c[t][field] + n]]
  BY DEF Counted
<1> HIDE DEF t, d
<1>4. [c[t] EXCEPT ![field] = c[t][field] + n] \in [starting : Int, busy : Int, alive : Int]
  BY <1>1 DEF TallyStates
<1>5. d \in TallyStates
  BY <1>1, <1>3, <1>4 DEF TallyStates
<1>6. ASSUME NEW s \in Numbers, NEW f \in {"starting", "busy", "alive"}
      PROVE  d[s][f] = c[s][f] + IF f = field /\ w \in CountedIn(s) THEN n ELSE 0
  <2>1. c[s][f] \in Int
    BY DEF TallyStates
  <2>2. CASE s = t
    BY <1>1, <1>2, <1>3, <2>1, <2>2 DEF TallyStates
  <2>3. CASE s # t
    BY <1>1, <1>2, <1>3, <2>1, <2>3 DEF TallyStates
  <2> QED BY <2>2, <2>3
<1> QED BY <1>5, <1>6 DEF d

\* Counting in one field, told of each.
LEMMA CountedStarting ==
  ASSUME NEW c \in TallyStates, NEW w \in Workers, NEW n \in Int
  PROVE  LET d == Counted(c, w.stats, "starting", n)
         IN  /\ d \in TallyStates
             /\ \A s \in Numbers : /\ d[s].starting = c[s].starting + IF w \in CountedIn(s) THEN n ELSE 0
                                   /\ d[s].busy = c[s].busy /\ d[s].alive = c[s].alive
<1>1. /\ Counted(c, w.stats, "starting", n) \in TallyStates
      /\ \A s \in Numbers : \A f \in {"starting", "busy", "alive"} :
           Counted(c, w.stats, "starting", n)[s][f]
             = c[s][f] + IF f = "starting" /\ w \in CountedIn(s) THEN n ELSE 0
  BY CountedWhere
<1>2. \A s \in Numbers : c[s].starting \in Int /\ c[s].busy \in Int /\ c[s].alive \in Int
  BY DEF TallyStates
<1> QED BY <1>1, <1>2

LEMMA CountedBusy ==
  ASSUME NEW c \in TallyStates, NEW w \in Workers, NEW n \in Int
  PROVE  LET d == Counted(c, w.stats, "busy", n)
         IN  /\ d \in TallyStates
             /\ \A s \in Numbers : /\ d[s].busy = c[s].busy + IF w \in CountedIn(s) THEN n ELSE 0
                                   /\ d[s].starting = c[s].starting /\ d[s].alive = c[s].alive
<1>1. /\ Counted(c, w.stats, "busy", n) \in TallyStates
      /\ \A s \in Numbers : \A f \in {"starting", "busy", "alive"} :
           Counted(c, w.stats, "busy", n)[s][f]
             = c[s][f] + IF f = "busy" /\ w \in CountedIn(s) THEN n ELSE 0
  BY CountedWhere
<1>2. \A s \in Numbers : c[s].starting \in Int /\ c[s].busy \in Int /\ c[s].alive \in Int
  BY DEF TallyStates
<1> QED BY <1>1, <1>2

LEMMA CountedAlive ==
  ASSUME NEW c \in TallyStates, NEW w \in Workers, NEW n \in Int
  PROVE  LET d == Counted(c, w.stats, "alive", n)
         IN  /\ d \in TallyStates
             /\ \A s \in Numbers : /\ d[s].alive = c[s].alive + IF w \in CountedIn(s) THEN n ELSE 0
                                   /\ d[s].starting = c[s].starting /\ d[s].busy = c[s].busy
<1>1. /\ Counted(c, w.stats, "alive", n) \in TallyStates
      /\ \A s \in Numbers : \A f \in {"starting", "busy", "alive"} :
           Counted(c, w.stats, "alive", n)[s][f]
             = c[s][f] + IF f = "alive" /\ w \in CountedIn(s) THEN n ELSE 0
  BY CountedWhere
<1>2. \A s \in Numbers : c[s].starting \in Int /\ c[s].busy \in Int /\ c[s].alive \in Int
  BY DEF TallyStates
<1> QED BY <1>1, <1>2

LEMMA StopsWhere ==
  ASSUME NEW c \in TallyStates, NEW workers,
         \A i \in DOMAIN workers : workers[i] \in Workers,
         \A s \in Numbers : CountIn(workers, CountedIn(s)) \in Int
  PROVE  /\ StopsCounted(c, workers) \in TallyStates
         /\ \A s \in Numbers :
              /\ StopsCounted(c, workers)[s].starting = c[s].starting
              /\ StopsCounted(c, workers)[s].busy = c[s].busy
              /\ StopsCounted(c, workers)[s].alive = c[s].alive - CountIn(workers, CountedIn(s))
<1> DEFINE d == StopsCounted(c, workers)
           n(s) == Cardinality({i \in DOMAIN workers : countedLocked(workers[i].stats) = s})
<1>1. \A s \in Numbers : n(s) = CountIn(workers, CountedIn(s))
  <2> SUFFICES ASSUME NEW s \in Numbers PROVE n(s) = CountIn(workers, CountedIn(s))
    OBVIOUS
  <2>1. {i \in DOMAIN workers : countedLocked(workers[i].stats) = s}
          = {i \in DOMAIN workers : workers[i] \in CountedIn(s)}
    BY DEF CountedIn
  <2> QED BY <2>1 DEF CountIn
<1>2. d = [s \in Numbers |-> [c[s] EXCEPT !.alive = @ - n(s)]]
  BY DEF StopsCounted
<1> HIDE DEF d, n
<1>3. ASSUME NEW s \in Numbers
      PROVE  /\ d[s] \in [starting : Int, busy : Int, alive : Int]
             /\ d[s].starting = c[s].starting /\ d[s].busy = c[s].busy
             /\ d[s].alive = c[s].alive - CountIn(workers, CountedIn(s))
  <2>1. c[s] \in [starting : Int, busy : Int, alive : Int] /\ n(s) \in Int
    BY <1>1 DEF TallyStates
  <2> QED BY <1>1, <1>2, <2>1
<1>4. d \in TallyStates
  BY <1>2, <1>3 DEF TallyStates
<1> QED BY <1>3, <1>4 DEF d

-----------------------------------------------------------------------------
(* What the steps have in common. *)

\* What holds of the runs and the line once one run has moved and some are woken.
RunsTaken(r) ==
  /\ run' \in [Runs -> RunStates] /\ line' \in Seq(Runs) /\ LineOf(line', run')
  /\ \A q \in Runs : q # r => Woken(run[q], run'[q])
  /\ \A where \in {"starting", "busy"} : \A V :
       /\ Having(run, where, V) \in Nat /\ Having(run', where, V) \in Nat
       /\ Having(run', where, V)
            = Having(run, where, V) + OneIf(run'[r].at = where /\ run'[r].of \in V)
                - OneIf(run[r].at = where /\ run[r].of \in V)

RunsMoved(r, n) ==
  /\ RunsTaken(r)
  /\ line' # <<>> =>
       /\ line # <<>>
       /\ Cardinality({q \in Runs : run'[q].at = "woken"})
            >= Cardinality({q \in Runs : run[q].at = "woken"}) + n - OneIf(run[r].at = "woken")
       /\ Cardinality({q \in Runs : run'[q].at = "woken"}) \in Nat
       /\ Cardinality({q \in Runs : run[q].at = "woken"}) \in Nat

LEMMA Moved ==
  ASSUME WorkersInv, NEW r \in Runs, NEW st \in RunStates, NEW n \in Nat,
         st.at \notin {"waits", "woken"}, run[r].at # "waits",
         notifyLocked([run EXCEPT ![r] = st], n)
  PROVE  RunsMoved(r, n) /\ run'[r] = st
<1> DEFINE runs == [run EXCEPT ![r] = st]
           A == {q \in Runs : run[q].at = "woken"}
           B == {q \in Runs : runs[q].at = "woken"}
           C == {q \in Runs : run'[q].at = "woken"}
<1>1. run \in [Runs -> RunStates] /\ line \in Seq(Runs) /\ LineOf(line, run)
  BY DEF WorkersInv, WorkersTyped
<1>2. runs \in [Runs -> RunStates] /\ runs[r] = st /\ \A q \in Runs : q # r => runs[q] = run[q]
  BY <1>1
<1>3. notifyLocked(runs, n)
  OBVIOUS
<1> HIDE DEF runs
<1>4. LineOf(line, runs)
  <2>1. {q \in Runs : runs[q].at = "waits"} = {q \in Runs : run[q].at = "waits"}
    BY <1>2
  <2> QED BY <1>1, <2>1 DEF LineOf
<1>5. /\ run' \in [Runs -> RunStates] /\ line' \in Seq(Runs) /\ LineOf(line', run')
      /\ \A q \in Runs : Woken(runs[q], run'[q])
      /\ line' # <<>> => line # <<>> /\ Cardinality(C) = Cardinality(B) + n
  BY <1>1, <1>2, <1>3, <1>4, Notified
<1>6. run'[r] = st /\ \A q \in Runs : q # r => Woken(run[q], run'[q])
  BY <1>2, <1>5 DEF Woken
<1>7. ASSUME NEW where \in {"starting", "busy"}, NEW V
      PROVE  /\ Having(run, where, V) \in Nat /\ Having(run', where, V) \in Nat
             /\ Having(run', where, V)
                  = Having(run, where, V) + OneIf(run'[r].at = where /\ run'[r].of \in V)
                      - OneIf(run[r].at = where /\ run[r].of \in V)
  BY <1>1, <1>5, <1>6, HavingFollows
<1>8. /\ Cardinality(A) \in Nat /\ Cardinality(B) \in Nat
      /\ Cardinality(B) = Cardinality(A) + OneIf(r \in B) - OneIf(r \in A)
  <2>1. A \in SUBSET Runs /\ B \in SUBSET Runs /\ \A q \in Runs : q # r => (q \in A <=> q \in B)
    BY <1>2
  <2> HIDE DEF A, B
  <2> QED BY <2>1, CountedButOne, PythonAssumption
<1>9. r \notin B /\ (r \in A <=> run[r].at = "woken")
  BY <1>2
<1>10. line' # <<>> =>
         /\ Cardinality(C) >= Cardinality(A) + n - OneIf(run[r].at = "woken")
         /\ Cardinality(C) \in Nat
  <2> HIDE DEF A, B, C
  <2> QED BY <1>5, <1>8, <1>9 DEF OneIf
<1> QED BY <1>5, <1>6, <1>7, <1>8, <1>10 DEF RunsMoved, RunsTaken

\* The same when only some are woken.
RunsStayed(n) ==
  /\ run' \in [Runs -> RunStates] /\ line' \in Seq(Runs) /\ LineOf(line', run')
  /\ \A q \in Runs : Woken(run[q], run'[q])
  /\ \A where \in {"starting", "busy"} : \A V :
       Having(run, where, V) \in Nat /\ Having(run', where, V) = Having(run, where, V)
  /\ line' # <<>> =>
       /\ line # <<>>
       /\ Cardinality({q \in Runs : run'[q].at = "woken"})
            = Cardinality({q \in Runs : run[q].at = "woken"}) + n
       /\ Cardinality({q \in Runs : run[q].at = "woken"}) \in Nat

LEMMA Stayed ==
  ASSUME WorkersInv, NEW n \in Nat, notifyLocked(run, n)
  PROVE  RunsStayed(n)
<1>1. run \in [Runs -> RunStates] /\ line \in Seq(Runs) /\ LineOf(line, run)
  BY DEF WorkersInv, WorkersTyped
<1>2. /\ run' \in [Runs -> RunStates] /\ line' \in Seq(Runs) /\ LineOf(line', run')
      /\ \A q \in Runs : Woken(run[q], run'[q])
      /\ line' # <<>> =>
           /\ line # <<>>
           /\ Cardinality({q \in Runs : run'[q].at = "woken"})
                = Cardinality({q \in Runs : run[q].at = "woken"}) + n
  BY <1>1, Notified
<1>3. Cardinality({q \in Runs : run[q].at = "woken"}) \in Nat
  <2> DEFINE A == {q \in Runs : run[q].at = "woken"}
  <2>1. A \in SUBSET Runs
    OBVIOUS
  <2> HIDE DEF A
  <2>2. IsFiniteSet(A)
    BY <2>1, FS_Subset, PythonAssumption
  <2>3. Cardinality(A) \in Nat
    BY <2>2, FS_CardinalityType
  <2> QED BY <2>3 DEF A
<1>4. ASSUME NEW where \in {"starting", "busy"}, NEW V
      PROVE  Having(run, where, V) \in Nat /\ Having(run', where, V) = Having(run, where, V)
  BY <1>1, <1>2, HavingStays
<1> QED BY <1>2, <1>3, <1>4 DEF RunsStayed

\* What is counted where goes by the statistics kept.
LEMMA CountedSame == ASSUME UNCHANGED stay PROVE \A s : CountedIn(s)' = CountedIn(s)
  BY DEF CountedIn, countedLocked, Retired

\* Fewer are idle, of those that were.
LEMMA FewerIdle ==
  ASSUME IdleKept, UNCHANGED stay,
         \A i \in DOMAIN idle' : \E j \in DOMAIN idle : idle'[i] = idle[j],
         \A V : CountIn(idle', V) \in Nat /\ CountIn(idle, V) \in Nat /\ CountIn(idle', V) <= CountIn(idle, V),
         \A k \in obsolete' : k \in obsolete /\ Busy(run', k) # {}
  PROVE  IdleKept'
<1>1. \A i \in DOMAIN idle' : ~(idle'[i].stats = Departed \/ idle'[i].stats # stay)
  BY DEF IdleKept, Retired
<1>2. \A k \in Scripts : CountIn(idle', OfScript(k)) <= MaxIdle
  BY PythonAssumption DEF IdleKept
<1>3. \A k \in obsolete' : \A i \in DOMAIN idle' : idle'[i].script # k
  BY DEF IdleKept
<1>4. \A k : OfScript(k)' = OfScript(k) /\ Busy(run, k)' = Busy(run', k)
  BY DEF OfScript, Workers, Busy
<1>5. (\A i \in DOMAIN idle : ~Retired(idle[i].stats))'
  BY <1>1 DEF Retired
<1>6. (\A k \in Scripts : CountIn(idle, OfScript(k)) <= MaxIdle)'
  BY <1>2, <1>4
<1>7. (\A k \in obsolete : Busy(run, k) # {} /\ \A i \in DOMAIN idle : idle[i].script # k)'
  BY <1>3, <1>4
<1> QED BY <1>5, <1>6, <1>7 DEF IdleKept

\* What the variables hold but for reloads.
LEMMA TypedFollows ==
  ASSUME WorkersTyped, UNCHANGED <<ofReloads, maxWorkers>>, NEW r \in Runs, RunsTaken(r),
         run'[r].at = "away" \/ run'[r].of.stats <= reloads + 1,
         idle' \in Seq(Workers), live' \in Nat,
         obsolete' \in SUBSET Scripts, tally' \in TallyStates
  PROVE  WorkersTyped'
<1>1. \A q \in Runs : q # r /\ run'[q].at # "away" => run[q].at # "away" /\ run'[q].of = run[q].of
  BY DEF Woken, RunsTaken
<1>2. \A q \in Runs : run'[q].at # "away" => run'[q].of.stats <= reloads' + 1
  BY <1>1 DEF WorkersTyped, ofReloads
<1>3. UNCHANGED <<script, stay, under, pending, reloads>>
  BY DEF ofReloads
<1> QED BY <1>2, <1>3 DEF WorkersTyped, RunsTaken

\* Places are counted as they are taken and left.
LEMMA PlacesFollow ==
  ASSUME WorkersInv, UNCHANGED maxWorkers, live' <= maxWorkers, live' \in Int,
         idle' \in Seq(Workers),
         NEW hs \in Int, NEW hb \in Int,
         Having(run, "starting", Workers) \in Nat, Having(run', "starting", Workers) \in Nat,
         Having(run, "busy", Workers) \in Nat, Having(run', "busy", Workers) \in Nat,
         Having(run', "starting", Workers) = Having(run, "starting", Workers) + hs,
         Having(run', "busy", Workers) = Having(run, "busy", Workers) + hb,
         live' = live + hs + hb + CountIn(idle', Workers) - CountIn(idle, Workers)
  PROVE  PlacesKept' /\ live' \in Nat /\ live' <= maxWorkers'
<1>1. live = Having(run, "starting", Workers) + Having(run, "busy", Workers) + Len(idle)
  BY DEF WorkersInv, PlacesKept
<1>2. idle \in Seq(Workers)
  BY DEF WorkersInv, WorkersTyped
<1>3. /\ Len(idle) \in Nat /\ CountIn(idle, Workers) = Len(idle)
      /\ Len(idle') \in Nat /\ CountIn(idle', Workers) = Len(idle')
  BY <1>2, CountsAll
<1>4. PICK x \in Nat : x = Having(run, "starting", Workers)
  OBVIOUS
<1>5. PICK y \in Nat : y = Having(run, "busy", Workers)
  OBVIOUS
<1>6. PICK p \in Nat : p = Len(idle)
  BY <1>3
<1>7. PICK q \in Nat : q = Len(idle')
  BY <1>3
<1>8. live = x + y + p /\ live' = live + hs + hb + q - p
  BY <1>1, <1>3, <1>4, <1>5, <1>6, <1>7
<1>9. live' = (x + hs) + (y + hb) + q
  BY <1>8
<1>10. Having(run', "starting", Workers) = x + hs /\ Having(run', "busy", Workers) = y + hb
  BY <1>4, <1>5
<1>11. live' = Having(run', "starting", Workers) + Having(run', "busy", Workers) + Len(idle')
  BY <1>7, <1>9, <1>10
<1>12. live' \in Nat
  <2>1. x + hs \in Nat /\ y + hb \in Nat
    BY <1>10
  <2> QED BY <1>9, <2>1
<1>13. Workers' = Workers
  BY DEF Workers
<1> QED BY <1>11, <1>12, <1>13 DEF PlacesKept

\* What is counted of collectors follows.
LEMMA TalliesFollow ==
  ASSUME WorkersInv, UNCHANGED stay, tally' \in TallyStates,
         \A V : /\ Having(run, "starting", V) \in Nat /\ Having(run', "starting", V) \in Nat
                /\ Having(run, "busy", V) \in Nat /\ Having(run', "busy", V) \in Nat
                /\ CountIn(idle, V) \in Nat /\ CountIn(idle', V) \in Nat,
         \A s \in Numbers :
           /\ tally'[s].starting - tally[s].starting
                = Having(run', "starting", CountedIn(s)) - Having(run, "starting", CountedIn(s))
           /\ tally'[s].busy - tally[s].busy
                = Having(run', "busy", CountedIn(s)) - Having(run, "busy", CountedIn(s))
           /\ tally'[s].alive - tally[s].alive
                = Having(run', "busy", CountedIn(s)) - Having(run, "busy", CountedIn(s))
                    + (CountIn(idle', CountedIn(s)) - CountIn(idle, CountedIn(s)))
  PROVE  TalliesKept'
<1>1. \A s : CountedIn(s)' = CountedIn(s)
  BY CountedSame
<1>2. ASSUME NEW s \in Numbers
      PROVE  /\ tally'[s].starting = Having(run', "starting", CountedIn(s))
             /\ tally'[s].busy = Having(run', "busy", CountedIn(s))
             /\ tally'[s].alive = Having(run', "busy", CountedIn(s)) + CountIn(idle', CountedIn(s))
  <2>1. /\ tally[s].starting = Having(run, "starting", CountedIn(s))
        /\ tally[s].busy = Having(run, "busy", CountedIn(s))
        /\ tally[s].alive = Having(run, "busy", CountedIn(s)) + CountIn(idle, CountedIn(s))
    BY DEF WorkersInv, TalliesKept
  <2>2. tally'[s].starting \in Int /\ tally'[s].busy \in Int /\ tally'[s].alive \in Int
    BY DEF TallyStates
  <2> QED BY <2>1, <2>2
<1> QED BY <1>1, <1>2 DEF TalliesKept

\* No more goes free than is woken for.
LEMMA WakesFollow ==
  ASSUME WorkersInv, UNCHANGED maxWorkers, NEW r, NEW n \in Nat, RunsMoved(r, n),
         live' \in Int, Len(idle') \in Nat,
         Len(idle') - live' <= Len(idle) - live + n - OneIf(run[r].at = "woken")
  PROVE  NoWakeLost'
<1> SUFFICES ASSUME line' # <<>>
             PROVE  Cardinality({q \in Runs : run'[q].at = "woken"}) >= maxWorkers - live' + Len(idle')
  BY DEF NoWakeLost, Are
<1> DEFINE b == Cardinality({q \in Runs : run'[q].at = "woken"})
           a == Cardinality({q \in Runs : run[q].at = "woken"})
<1>1. line # <<>> /\ b >= a + n - OneIf(run[r].at = "woken") /\ a \in Nat /\ b \in Nat
  BY DEF RunsMoved, RunsTaken
<1>2. a >= maxWorkers - live + Len(idle)
  BY <1>1 DEF WorkersInv, NoWakeLost, Are
<1> HIDE DEF a, b
<1>3. maxWorkers \in Nat /\ live \in Nat /\ Len(idle) \in Nat
  BY DEF WorkersInv, WorkersTyped
<1>4. b >= maxWorkers - live' + Len(idle')
  <2>1. PICK woken \in {0, 1} : woken = OneIf(run[r].at = "woken")
    BY DEF OneIf
  <2>2. PICK most \in Nat : most = maxWorkers
    BY <1>3
  <2>3. PICK were \in Nat : were = live
    BY <1>3
  <2>4. PICK now \in Int : now = live'
    OBVIOUS
  <2>5. PICK before \in Nat : before = Len(idle)
    BY <1>3
  <2>6. PICK after \in Nat : after = Len(idle')
    OBVIOUS
  <2>7. b >= a + n - woken /\ a >= most - were + before /\ after - now <= before - were + n - woken
    BY <1>1, <1>2, <2>1, <2>2, <2>3, <2>4, <2>5, <2>6
  <2>8. PICK i \in Nat, j \in Nat : i = a /\ j = b
    BY <1>1
  <2>9. /\ j >= (i + n) - woken /\ i >= (most - were) + before
        /\ after - now <= ((before - were) + n) - woken
    BY <2>7, <2>8
  <2>10. j >= (most - now) + after
    BY <2>9
  <2> QED BY <2>2, <2>4, <2>6, <2>8, <2>10
<1> QED BY <1>4 DEF b

\* Those busy stay so but for the run that moves.
LEMMA StillBusy ==
  ASSUME NEW r, RunsTaken(r), NEW k, NEW q \in Busy(run, k), q # r
  PROVE  q \in Busy(run', k)
BY DEF RunsTaken, Woken, Busy

\* The scripts that are obsolete are still used when a run of none of them moves.
LEMMA BusyAgain ==
  ASSUME WorkersInv, NEW r \in Runs, RunsTaken(r), run[r].at # "busy"
  PROVE  \A k \in obsolete : Busy(run', k) # {}
<1> SUFFICES ASSUME NEW k \in obsolete PROVE Busy(run', k) # {}
  OBVIOUS
<1>1. PICK q \in Busy(run, k) : TRUE
  BY DEF WorkersInv, IdleKept
<1>2. q # r
  BY DEF Busy
<1> QED BY <1>1, <1>2, StillBusy

\* A step of a run keeps what holds when its counts follow.
LEMMA StepKeeps ==
  ASSUME WorkersInv, UNCHANGED <<ofReloads, maxWorkers>>, NEW r \in Runs, RunsTaken(r),
         run'[r].at = "away" \/ run'[r].of.stats <= reloads + 1,
         idle' \in Seq(Workers), \A V : CountIn(idle, V) \in Nat /\ CountIn(idle', V) \in Nat,
         live' \in Int, live' <= maxWorkers,
         live' = live + (Having(run', "starting", Workers) - Having(run, "starting", Workers))
                      + (Having(run', "busy", Workers) - Having(run, "busy", Workers))
                      + CountIn(idle', Workers) - CountIn(idle, Workers),
         tally' \in TallyStates,
         \A s \in Numbers :
           /\ tally'[s].starting - tally[s].starting
                = Having(run', "starting", CountedIn(s)) - Having(run, "starting", CountedIn(s))
           /\ tally'[s].busy - tally[s].busy
                = Having(run', "busy", CountedIn(s)) - Having(run, "busy", CountedIn(s))
           /\ tally'[s].alive - tally[s].alive
                = Having(run', "busy", CountedIn(s)) - Having(run, "busy", CountedIn(s))
                    + (CountIn(idle', CountedIn(s)) - CountIn(idle, CountedIn(s))),
         obsolete' \in SUBSET Scripts, IdleKept', NoWakeLost'
  PROVE  WorkersInv'
<1>1. \A V : /\ Having(run, "starting", V) \in Nat /\ Having(run', "starting", V) \in Nat
             /\ Having(run, "busy", V) \in Nat /\ Having(run', "busy", V) \in Nat
  BY DEF RunsTaken
<1>2. PlacesKept' /\ live' \in Nat /\ live' <= maxWorkers'
  <2>1. PICK hs \in Int : hs = Having(run', "starting", Workers) - Having(run, "starting", Workers)
    BY <1>1
  <2>2. PICK hb \in Int : hb = Having(run', "busy", Workers) - Having(run, "busy", Workers)
    BY <1>1
  <2>3. /\ Having(run', "starting", Workers) = Having(run, "starting", Workers) + hs
        /\ Having(run', "busy", Workers) = Having(run, "busy", Workers) + hb
    BY <1>1, <2>1, <2>2
  <2>4. live' = live + hs + hb + CountIn(idle', Workers) - CountIn(idle, Workers)
    BY <2>1, <2>2
  <2> QED BY <1>1, <2>3, <2>4, PlacesFollow
<1>3. TalliesKept'
  <2>1. UNCHANGED stay
    BY DEF ofReloads
  <2> QED BY <1>1, <2>1, TalliesFollow
<1>4. WorkersTyped'
  BY <1>2, TypedFollows DEF WorkersInv
<1>5. StayFollows' /\ LineOf(line, run)'
  BY DEF WorkersInv, StayFollows, ofReloads, RunsTaken, LineOf
<1> QED BY <1>2, <1>3, <1>4, <1>5 DEF WorkersInv

-----------------------------------------------------------------------------
(* A run that asks for a worker. *)

\* Workers that are all alike are counted or not.
LEMMA AlikeAt ==
  ASSUME NEW f, NEW X, NEW n \in Nat, Cardinality(X) = n, NEW w, \A i \in X : f[i] = w, NEW V
  PROVE  CountsAt(f, X, V) = IF w \in V THEN n ELSE 0
<1>1. {i \in X : f[i] \in V} = IF w \in V THEN X ELSE {}
  OBVIOUS
<1>2. Cardinality({}) = 0
  BY FS_EmptySet
<1> QED BY <1>1, <1>2 DEF CountsAt

\* A run that asks is of no worker yet, and one that is woken need not be.
LEMMA Asking ==
  ASSUME WorkersInv, NEW r \in Runs, run[r].at \in {"asks", "woken"}, NEW to \in Doing, NEW again \in BOOLEAN
  PROVE  LET st == [run[r] EXCEPT !.at = to, !.reused = again]
         IN  /\ run[r].of \in Workers /\ st \in RunStates
             /\ st.at = to /\ st.of = run[r].of
             /\ [run EXCEPT ![r].at = to, ![r].reused = again] = [run EXCEPT ![r] = st]
<1>1. run[r] \in [at : Doing, of : Workers, reused : BOOLEAN] /\ run \in [Runs -> RunStates]
  BY DEF WorkersInv, WorkersTyped, RunStates, Away
<1> DEFINE st == [run[r] EXCEPT !.at = to, !.reused = again]
<1>2. run[r].of \in Workers /\ st \in RunStates /\ st.at = to /\ st.of = run[r].of
  BY <1>1 DEF RunStates
<1>3. [run EXCEPT ![r].at = to, ![r].reused = again] = [run EXCEPT ![r] = st]
  BY <1>1
<1> QED BY <1>2, <1>3

LEMMA ReuseKeeps ==
  ASSUME WorkersInv, NEW r \in Runs, run[r].at \in {"asks", "woken"},
         NEW died \in 0..(Cardinality(FitFor(r)) - 1), reuseWorker(r, died),
         UNCHANGED <<ofReloads, obsolete, maxWorkers>>
  PROVE  WorkersInv'
<1> DEFINE w == run[r].of
           st == [run[r] EXCEPT !.at = "busy", !.reused = TRUE]
           gone == LastFit(r, died + 1)
           dead == [i \in 1..died |-> w]
           stopped == StopsCounted(tally, dead)
<1>1. /\ idle' = IdleWithout(gone) /\ live' = live - died
      /\ tally' = Counted(stopped, w.stats, "busy", 1)
      /\ notifyLocked([run EXCEPT ![r] = st], died)
      /\ w \in Workers /\ st \in RunStates /\ st.at = "busy" /\ st.of = w
  BY Asking DEF reuseWorker, Doing
<1>2. idle \in Seq(Workers) /\ tally \in TallyStates /\ Cardinality(FitFor(r)) \in Nat /\ died \in Nat
  <2>1. idle \in Seq(Workers) /\ tally \in TallyStates
    BY DEF WorkersInv, WorkersTyped
  <2>2. DOMAIN idle = 1..Len(idle) /\ Len(idle) \in Nat
    BY <2>1
  <2>3. IsFiniteSet(1..Len(idle)) /\ FitFor(r) \in SUBSET (1..Len(idle))
    BY <2>2, FS_Interval DEF FitFor
  <2>4. Cardinality(FitFor(r)) \in Nat
    BY <2>3, FS_Subset, FS_CardinalityType
  <2> QED BY <2>1, <2>4
<1>3. gone \in SUBSET DOMAIN idle /\ Cardinality(gone) = died + 1 /\ \A i \in gone : idle[i] = w
  <2>1. died + 1 \in 0..Cardinality(FitFor(r))
    BY <1>2
  <2>2. gone \in SUBSET FitFor(r) /\ Cardinality(gone) = died + 1
    BY <1>2, <2>1, LastAreMany
  <2> QED BY <2>2 DEF FitFor
<1> HIDE DEF w, st, gone
<1>4. RunsMoved(r, died) /\ run'[r] = st
  BY <1>1, <1>2, Moved
<1>5. /\ idle' \in Seq(Workers)
      /\ \A i \in DOMAIN idle' : \E j \in DOMAIN idle : idle'[i] = idle[j]
      /\ \A V : /\ CountIn(idle, V) \in Nat /\ CountIn(idle', V) \in Nat
                /\ CountIn(idle', V) = CountIn(idle, V) - IF w \in V THEN died + 1 ELSE 0
  <2>1. /\ idle' \in Seq(Workers)
        /\ \A i \in DOMAIN idle' : \E j \in DOMAIN idle \ gone : idle'[i] = idle[j]
        /\ \A V : /\ CountIn(idle', V) = CountIn(idle, V) - CountsAt(idle, gone, V)
                  /\ CountIn(idle, V) \in Nat /\ CountIn(idle', V) \in Nat
    <3>1. PICK X : X = gone
      OBVIOUS
    <3>2. X \in SUBSET DOMAIN idle
      BY <1>3, <3>1
    <3>3. /\ IdleWithout(X) \in Seq(Workers)
          /\ \A i \in DOMAIN IdleWithout(X) :
               \E j \in DOMAIN idle \ X : IdleWithout(X)[i] = idle[j]
          /\ \A V : /\ CountIn(IdleWithout(X), V) = CountIn(idle, V) - CountsAt(idle, X, V)
                    /\ CountIn(idle, V) \in Nat /\ CountIn(IdleWithout(X), V) \in Nat
      BY <1>2, <3>2, LeftIdle
    <3> QED BY <1>1, <3>1, <3>3
  <2>2. \A V : CountsAt(idle, gone, V) = IF w \in V THEN died + 1 ELSE 0
    BY <1>2, <1>3, AlikeAt
  <2> QED BY <2>1, <2>2
<1>6. /\ tally' \in TallyStates
      /\ \A s \in Numbers :
           /\ tally'[s].starting = tally[s].starting
           /\ tally'[s].busy = tally[s].busy + OneIf(w \in CountedIn(s))
           /\ tally'[s].alive = tally[s].alive - IF w \in CountedIn(s) THEN died ELSE 0
  <2>1. \A s \in Numbers : CountIn(dead, CountedIn(s)) = IF w \in CountedIn(s) THEN died ELSE 0
    BY <1>2, CountsSame
  <2>2. \A i \in DOMAIN dead : dead[i] \in Workers
    BY <1>1
  <2>3. /\ stopped \in TallyStates
        /\ \A s \in Numbers :
             /\ stopped[s].starting = tally[s].starting /\ stopped[s].busy = tally[s].busy
             /\ stopped[s].alive = tally[s].alive - IF w \in CountedIn(s) THEN died ELSE 0
    <3> HIDE DEF dead
    <3>1. \A s \in Numbers : CountIn(dead, CountedIn(s)) \in Int
      BY <1>2, <2>1
    <3> QED BY <1>2, <2>1, <2>2, <3>1, StopsWhere
  <2> HIDE DEF stopped
  <2>4. PICK c \in TallyStates, v \in Workers, m \in Int : c = stopped /\ v = w /\ m = 1
    BY <1>1, <2>3
  <2>5. LET d == Counted(c, v.stats, "busy", m)
        IN  /\ d \in TallyStates
            /\ \A s \in Numbers : /\ d[s].busy = c[s].busy + IF v \in CountedIn(s) THEN m ELSE 0
                                  /\ d[s].starting = c[s].starting /\ d[s].alive = c[s].alive
    BY CountedBusy
  <2>6. tally' = Counted(c, v.stats, "busy", m)
    BY <1>1, <2>4
  <2>7. /\ tally' \in TallyStates
        /\ \A s \in Numbers : /\ tally'[s].busy = stopped[s].busy + IF w \in CountedIn(s) THEN 1 ELSE 0
                              /\ tally'[s].starting = stopped[s].starting /\ tally'[s].alive = stopped[s].alive
    BY <2>4, <2>5, <2>6
  <2>8. \A s \in Numbers : tally'[s].busy = stopped[s].busy + OneIf(w \in CountedIn(s))
    BY <2>7 DEF OneIf
  <2> QED BY <2>3, <2>7, <2>8
<1>7. \A V : /\ Having(run', "starting", V) = Having(run, "starting", V)
             /\ Having(run', "busy", V) = Having(run, "busy", V) + OneIf(w \in V)
             /\ Having(run, "starting", V) \in Nat /\ Having(run, "busy", V) \in Nat
  <2>1. run[r].at \notin {"starting", "busy"} /\ run'[r].at = "busy" /\ run'[r].of = w
    BY <1>1, <1>4
  <2> QED BY <1>4, <2>1 DEF RunsMoved, RunsTaken, OneIf
<1> HIDE DEF dead, stopped
<1>8. /\ Len(idle') = Len(idle) - (died + 1) /\ Len(idle') \in Nat /\ Len(idle) \in Nat
      /\ CountIn(idle, Workers) = Len(idle) /\ CountIn(idle', Workers) = Len(idle')
      /\ live \in Nat /\ maxWorkers \in Nat /\ live <= maxWorkers
  <2>1. CountIn(idle, Workers) = Len(idle) /\ CountIn(idle', Workers) = Len(idle')
    BY <1>2, <1>5, CountsAll
  <2> QED BY <1>1, <1>5, <2>1 DEF WorkersInv, WorkersTyped
<1>9. /\ live' \in Int /\ live' <= maxWorkers
      /\ live' = live + (Having(run', "starting", Workers) - Having(run, "starting", Workers))
                      + (Having(run', "busy", Workers) - Having(run, "busy", Workers))
                      + CountIn(idle', Workers) - CountIn(idle, Workers)
  <2>1. /\ Having(run', "starting", Workers) - Having(run, "starting", Workers) = 0
        /\ Having(run', "busy", Workers) - Having(run, "busy", Workers) = 1
    BY <1>1, <1>7 DEF OneIf
  <2>2. CountIn(idle', Workers) - CountIn(idle, Workers) = -(died + 1)
    BY <1>2, <1>8
  <2> HIDE DEF w
  <2> QED BY <1>1, <1>2, <1>8, <2>1, <2>2
<1>10. ASSUME NEW s \in Numbers
       PROVE  /\ tally'[s].starting - tally[s].starting
                   = Having(run', "starting", CountedIn(s)) - Having(run, "starting", CountedIn(s))
              /\ tally'[s].busy - tally[s].busy
                   = Having(run', "busy", CountedIn(s)) - Having(run, "busy", CountedIn(s))
              /\ tally'[s].alive - tally[s].alive
                   = Having(run', "busy", CountedIn(s)) - Having(run, "busy", CountedIn(s))
                       + (CountIn(idle', CountedIn(s)) - CountIn(idle, CountedIn(s)))
  <2>1. PICK V : V = CountedIn(s)
    OBVIOUS
  <2>2. /\ CountIn(idle, V) \in Nat /\ CountIn(idle', V) = CountIn(idle, V) - IF w \in V THEN died + 1 ELSE 0
    BY <1>5
  <2>3. /\ tally'[s].starting = tally[s].starting
        /\ tally'[s].busy = tally[s].busy + OneIf(w \in V)
        /\ tally'[s].alive = tally[s].alive - IF w \in V THEN died ELSE 0
    BY <1>6, <2>1
  <2>4. /\ Having(run', "starting", V) = Having(run, "starting", V)
        /\ Having(run', "busy", V) = Having(run, "busy", V) + OneIf(w \in V)
        /\ Having(run, "starting", V) \in Nat /\ Having(run, "busy", V) \in Nat
    BY <1>7
  <2>5. tally[s].starting \in Int /\ tally[s].busy \in Int /\ tally[s].alive \in Int
    BY <1>2 DEF TallyStates
  <2>6. /\ tally'[s].starting - tally[s].starting = Having(run', "starting", V) - Having(run, "starting", V)
        /\ tally'[s].busy - tally[s].busy = Having(run', "busy", V) - Having(run, "busy", V)
    BY <2>3, <2>4, <2>5 DEF OneIf
  <2>7. tally'[s].alive - tally[s].alive
          = Having(run', "busy", V) - Having(run, "busy", V) + (CountIn(idle', V) - CountIn(idle, V))
    <3>1. PICK were \in Int : were = tally[s].alive
      BY <2>5
    <3>2. PICK h \in Nat : h = Having(run, "busy", V)
      BY <2>4
    <3>3. PICK i \in Nat : i = CountIn(idle, V)
      BY <2>2
    <3>4. died \in Int
      BY <1>2
    <3>5. CASE w \in V
      <4>1. /\ tally'[s].alive = were - died /\ Having(run', "busy", V) = h + 1
            /\ CountIn(idle', V) = i - (died + 1)
        BY <2>1, <2>2, <2>3, <2>4, <3>1, <3>2, <3>3, <3>5 DEF OneIf
      <4>2. were - died - were = h + 1 - h + (i - (died + 1) - i)
        BY <3>4
      <4> QED BY <3>1, <3>2, <3>3, <4>1, <4>2
    <3>6. CASE w \notin V
      <4>1. /\ tally'[s].alive = were - 0 /\ Having(run', "busy", V) = h + 0
            /\ CountIn(idle', V) = i - 0
        BY <2>1, <2>2, <2>3, <2>4, <3>1, <3>2, <3>3, <3>6 DEF OneIf
      <4>2. were - 0 - were = h + 0 - h + (i - 0 - i)
        OBVIOUS
      <4> QED BY <3>1, <3>2, <3>3, <4>1, <4>2
    <3> QED BY <3>5, <3>6
  <2> QED BY <2>1, <2>6, <2>7
<1>11. IdleKept'
  <2>1. \A V : CountIn(idle', V) \in Nat /\ CountIn(idle, V) \in Nat /\ CountIn(idle', V) <= CountIn(idle, V)
    BY <1>2, <1>5
  <2>2. \A k \in obsolete : Busy(run', k) # {}
    BY <1>1, <1>4, BusyAgain DEF RunsMoved
  <2>3. IdleKept /\ UNCHANGED <<stay, obsolete>>
    BY DEF WorkersInv, ofReloads
  <2> QED BY <1>5, <2>1, <2>2, <2>3, FewerIdle
<1>12. NoWakeLost'
  <2>1. Len(idle') - live' <= Len(idle) - live + died - OneIf(run[r].at = "woken")
    BY <1>1, <1>2, <1>8 DEF OneIf
  <2>2. live' \in Int
    BY <1>9
  <2> QED BY <1>2, <1>4, <1>8, <2>1, <2>2, WakesFollow
<1>13. run'[r].of.stats <= reloads + 1 /\ obsolete' \in SUBSET Scripts /\ RunsTaken(r)
  BY <1>1, <1>4 DEF WorkersInv, WorkersTyped, RunsMoved, w
<1> QED BY <1>5, <1>6, <1>9, <1>10, <1>11, <1>12, <1>13, StepKeeps

-----------------------------------------------------------------------------
(* The steps of a run that change the counts by its worker alone. *)

CountsGoBy(w, hs, hb, hi) ==
  /\ \A V : /\ Having(run', "starting", V) = Having(run, "starting", V) + IF w \in V THEN hs ELSE 0
            /\ Having(run', "busy", V) = Having(run, "busy", V) + IF w \in V THEN hb ELSE 0
            /\ CountIn(idle, V) \in Nat /\ CountIn(idle', V) \in Nat
            /\ CountIn(idle', V) = CountIn(idle, V) + IF w \in V THEN hi ELSE 0
  /\ live' = live + hs + hb + hi
  /\ tally' \in TallyStates
  /\ \A s \in Numbers :
       /\ tally'[s].starting = tally[s].starting + IF w \in CountedIn(s) THEN hs ELSE 0
       /\ tally'[s].busy = tally[s].busy + IF w \in CountedIn(s) THEN hb ELSE 0
       /\ tally'[s].alive = tally[s].alive + IF w \in CountedIn(s) THEN hb + hi ELSE 0

LEMMA OneKeeps ==
  ASSUME WorkersInv, UNCHANGED <<ofReloads, maxWorkers>>, NEW r \in Runs, RunsTaken(r),
         run'[r].at = "away" \/ run'[r].of.stats <= reloads + 1,
         idle' \in Seq(Workers), live' <= maxWorkers,
         NEW w \in Workers, NEW hs \in Int, NEW hb \in Int, NEW hi \in Int, CountsGoBy(w, hs, hb, hi),
         obsolete' \in SUBSET Scripts, IdleKept', NoWakeLost'
  PROVE  WorkersInv'
<1>1. \A V : /\ Having(run, "starting", V) \in Nat /\ Having(run', "starting", V) \in Nat
             /\ Having(run, "busy", V) \in Nat /\ Having(run', "busy", V) \in Nat
  BY DEF RunsTaken
<1>2. live \in Nat /\ tally \in TallyStates
  BY DEF WorkersInv, WorkersTyped
<1>3. /\ live' \in Int
      /\ live' = live + (Having(run', "starting", Workers) - Having(run, "starting", Workers))
                      + (Having(run', "busy", Workers) - Having(run, "busy", Workers))
                      + CountIn(idle', Workers) - CountIn(idle, Workers)
  <2>1. Having(run', "starting", Workers) - Having(run, "starting", Workers) = hs
    BY <1>1 DEF CountsGoBy
  <2>2. Having(run', "busy", Workers) - Having(run, "busy", Workers) = hb
    BY <1>1 DEF CountsGoBy
  <2>3. CountIn(idle', Workers) - CountIn(idle, Workers) = hi
    BY DEF CountsGoBy
  <2>4. /\ CountIn(idle', Workers) \in Nat /\ CountIn(idle, Workers) \in Nat
        /\ live' = live + hs + hb + hi
    BY DEF CountsGoBy
  <2> QED BY <1>2, <2>1, <2>2, <2>3, <2>4
<1>4. ASSUME NEW s \in Numbers
      PROVE  /\ tally'[s].starting - tally[s].starting
                  = Having(run', "starting", CountedIn(s)) - Having(run, "starting", CountedIn(s))
             /\ tally'[s].busy - tally[s].busy
                  = Having(run', "busy", CountedIn(s)) - Having(run, "busy", CountedIn(s))
             /\ tally'[s].alive - tally[s].alive
                  = Having(run', "busy", CountedIn(s)) - Having(run, "busy", CountedIn(s))
                      + (CountIn(idle', CountedIn(s)) - CountIn(idle, CountedIn(s)))
  <2>1. PICK V : V = CountedIn(s)
    OBVIOUS
  <2>2. tally[s].starting \in Int /\ tally[s].busy \in Int /\ tally[s].alive \in Int
    BY <1>2 DEF TallyStates
  <2>3. /\ Having(run, "starting", V) \in Int /\ Having(run, "busy", V) \in Int
        /\ CountIn(idle, V) \in Int
    BY <1>1 DEF CountsGoBy
  <2>4. PICK a \in Int : a = IF w \in V THEN hs ELSE 0
    OBVIOUS
  <2>5. PICK b \in Int : b = IF w \in V THEN hb ELSE 0
    OBVIOUS
  <2>6. PICK c \in Int : c = IF w \in V THEN hi ELSE 0
    OBVIOUS
  <2>7. b + c = IF w \in V THEN hb + hi ELSE 0
    BY <2>5, <2>6
  <2>8. /\ tally'[s].starting = tally[s].starting + a /\ tally'[s].busy = tally[s].busy + b
        /\ tally'[s].alive = tally[s].alive + (b + c)
    BY <2>1, <2>4, <2>5, <2>7 DEF CountsGoBy
  <2>9. /\ Having(run', "starting", V) = Having(run, "starting", V) + a
        /\ Having(run', "busy", V) = Having(run, "busy", V) + b
        /\ CountIn(idle', V) = CountIn(idle, V) + c
    BY <2>4, <2>5, <2>6 DEF CountsGoBy
  <2>10. /\ tally'[s].starting - tally[s].starting = a /\ tally'[s].busy - tally[s].busy = b
         /\ tally'[s].alive - tally[s].alive = b + c
    BY <2>2, <2>4, <2>5, <2>6, <2>8
  <2>11. /\ Having(run', "starting", V) - Having(run, "starting", V) = a
         /\ Having(run', "busy", V) - Having(run, "busy", V) = b
         /\ CountIn(idle', V) - CountIn(idle, V) = c
    BY <2>3, <2>4, <2>5, <2>6, <2>9
  <2> QED BY <2>1, <2>10, <2>11
<1>5. \A V : CountIn(idle, V) \in Nat /\ CountIn(idle', V) \in Nat
  BY DEF CountsGoBy
<1>6. tally' \in TallyStates
  BY DEF CountsGoBy
<1> QED BY <1>3, <1>4, <1>5, <1>6, StepKeeps

\* One run has moved and no other.
LEMMA TakenAlone ==
  ASSUME WorkersInv, NEW r \in Runs, NEW st \in RunStates,
         run' = [run EXCEPT ![r] = st], line' \in Seq(Runs), LineOf(line', run')
  PROVE  RunsTaken(r) /\ run'[r] = st
<1>1. run \in [Runs -> RunStates]
  BY DEF WorkersInv, WorkersTyped
<1>2. /\ run' \in [Runs -> RunStates] /\ run'[r] = st
      /\ \A q \in Runs : q # r => Woken(run[q], run'[q])
  BY <1>1 DEF Woken
<1>3. ASSUME NEW where \in {"starting", "busy"}, NEW V
      PROVE  /\ Having(run, where, V) \in Nat /\ Having(run', where, V) \in Nat
             /\ Having(run', where, V)
                  = Having(run, where, V) + OneIf(run'[r].at = where /\ run'[r].of \in V)
                      - OneIf(run[r].at = where /\ run[r].of \in V)
  <2>1. PICK after \in [Runs -> RunStates] : after = run'
    BY <1>2
  <2>2. \A q \in Runs : q # r => Woken(run[q], after[q])
    BY <1>2, <2>1
  <2>3. /\ Having(run, where, V) \in Nat /\ Having(after, where, V) \in Nat
        /\ Having(after, where, V)
             = Having(run, where, V) + OneIf(after[r].at = where /\ after[r].of \in V)
                 - OneIf(run[r].at = where /\ run[r].of \in V)
    BY <1>1, <2>2, HavingFollows
  <2> QED BY <2>1, <2>3
<1> QED BY <1>2, <1>3 DEF RunsTaken

LEMMA MovedAlone ==
  ASSUME WorkersInv, NEW r \in Runs, NEW st \in RunStates,
         run' = [run EXCEPT ![r] = st], st.at # "woken",
         line' \in Seq(Runs), LineOf(line', run'), line' # <<>> => line # <<>>
  PROVE  RunsMoved(r, 0) /\ run'[r] = st
<1>1. RunsTaken(r) /\ run'[r] = st
  BY TakenAlone
<1> DEFINE A == {q \in Runs : run[q].at = "woken"}
           C == {q \in Runs : run'[q].at = "woken"}
<1>2. A \in SUBSET Runs /\ C \in SUBSET Runs /\ \A q \in Runs : q # r => (q \in A <=> q \in C)
  BY DEF WorkersInv, WorkersTyped
<1>3. r \notin C /\ (r \in A <=> run[r].at = "woken")
  BY <1>1
<1>4. /\ Cardinality(C) >= Cardinality(A) + 0 - OneIf(run[r].at = "woken")
      /\ Cardinality(C) \in Nat /\ Cardinality(A) \in Nat
  <2> HIDE DEF A, C
  <2>1. /\ Cardinality(A) \in Nat /\ Cardinality(C) \in Nat
        /\ Cardinality(C) = Cardinality(A) + OneIf(r \in C) - OneIf(r \in A)
    BY <1>2, CountedButOne, PythonAssumption
  <2> QED BY <1>3, <2>1 DEF OneIf
<1> QED BY <1>1, <1>4 DEF RunsMoved

LEMMA LineStill ==
  ASSUME WorkersInv, NEW r \in Runs, NEW st, run' = [run EXCEPT ![r] = st], UNCHANGED line,
         st.at # "waits", run[r].at # "waits"
  PROVE  line' \in Seq(Runs) /\ LineOf(line', run')
<1>1. run \in [Runs -> RunStates] /\ line \in Seq(Runs) /\ LineOf(line, run)
  BY DEF WorkersInv, WorkersTyped
<1>2. {q \in Runs : run'[q].at = "waits"} = {q \in Runs : run[q].at = "waits"}
  BY <1>1
<1> QED BY <1>1, <1>2 DEF LineOf

\* The idle workers stay, and what is said of them.
LEMMA IdleStill ==
  ASSUME WorkersInv, UNCHANGED <<idle, stay>>, \A k \in obsolete' : k \in obsolete /\ Busy(run', k) # {}
  PROVE  /\ IdleKept' /\ idle' \in Seq(Workers)
         /\ \A V : /\ CountIn(idle, V) \in Nat /\ CountIn(idle', V) \in Nat
                   /\ CountIn(idle', V) = CountIn(idle, V) + 0
<1>1. idle \in Seq(Workers) /\ IdleKept
  BY DEF WorkersInv, WorkersTyped
<1>2. \A V : CountIn(idle, V) \in Nat
  <2>1. {} \in SUBSET DOMAIN idle
    OBVIOUS
  <2> QED BY <1>1, <2>1, CountsParted
<1>3. \A V : CountIn(idle', V) = CountIn(idle, V)
  BY DEF CountIn
<1>4. \A V : CountIn(idle', V) <= CountIn(idle, V) /\ CountIn(idle', V) = CountIn(idle, V) + 0
  BY <1>2, <1>3
<1>5. \A i \in DOMAIN idle' : \E j \in DOMAIN idle : idle'[i] = idle[j]
  OBVIOUS
<1>6. IdleKept'
  BY <1>1, <1>2, <1>3, <1>4, <1>5, FewerIdle
<1> QED BY <1>1, <1>2, <1>3, <1>4, <1>6

\* A step of a run of no worker, that changes nothing else.
LEMMA NothingCounted ==
  ASSUME WorkersInv, UNCHANGED <<ofReloads, maxWorkers, idle, live, tally, obsolete>>,
         NEW r \in Runs, RunsTaken(r),
         run[r].at \notin {"starting", "busy"}, run'[r].at \notin {"starting", "busy"},
         run'[r].at = "away" \/ (run'[r].of \in Workers /\ run'[r].of.stats <= reloads + 1),
         NoWakeLost'
  PROVE  WorkersInv'
<1>2. \A V : /\ Having(run', "starting", V) = Having(run, "starting", V)
             /\ Having(run', "busy", V) = Having(run, "busy", V)
             /\ Having(run, "starting", V) \in Nat /\ Having(run, "busy", V) \in Nat
  BY DEF RunsTaken, OneIf
<1>3. \A k \in obsolete' : k \in obsolete /\ Busy(run', k) # {}
  BY BusyAgain
<1>4. /\ IdleKept' /\ idle' \in Seq(Workers)
      /\ \A V : CountIn(idle, V) \in Nat /\ CountIn(idle', V) = CountIn(idle, V) + 0
  <2>1. UNCHANGED <<idle, stay>>
    BY DEF ofReloads
  <2> QED BY <1>3, <2>1, IdleStill
<1>5. /\ live \in Nat /\ tally \in TallyStates /\ live <= maxWorkers /\ obsolete' \in SUBSET Scripts
  BY DEF WorkersInv, WorkersTyped
<1>6. /\ live' \in Int /\ live' <= maxWorkers /\ tally' \in TallyStates
      /\ live' = live + (Having(run', "starting", Workers) - Having(run, "starting", Workers))
                      + (Having(run', "busy", Workers) - Having(run, "busy", Workers))
                      + CountIn(idle', Workers) - CountIn(idle, Workers)
  <2>1. /\ Having(run', "starting", Workers) - Having(run, "starting", Workers) = 0
        /\ Having(run', "busy", Workers) - Having(run, "busy", Workers) = 0
        /\ CountIn(idle', Workers) = CountIn(idle, Workers) /\ CountIn(idle, Workers) \in Nat
    BY <1>2, <1>4
  <2> QED BY <1>5, <2>1
<1>7. ASSUME NEW s \in Numbers
      PROVE  /\ tally'[s].starting - tally[s].starting
                  = Having(run', "starting", CountedIn(s)) - Having(run, "starting", CountedIn(s))
             /\ tally'[s].busy - tally[s].busy
                  = Having(run', "busy", CountedIn(s)) - Having(run, "busy", CountedIn(s))
             /\ tally'[s].alive - tally[s].alive
                  = Having(run', "busy", CountedIn(s)) - Having(run, "busy", CountedIn(s))
                      + (CountIn(idle', CountedIn(s)) - CountIn(idle, CountedIn(s)))
  <2>1. tally[s].starting \in Int /\ tally[s].busy \in Int /\ tally[s].alive \in Int /\ tally' = tally
    BY <1>5 DEF TallyStates
  <2> QED BY <1>2, <1>4, <2>1
<1>8. \A V : CountIn(idle, V) \in Nat /\ CountIn(idle', V) \in Nat
  BY <1>4
<1> QED BY <1>4, <1>5, <1>6, <1>7, <1>8, StepKeeps

LEMMA BeginKeeps ==
  ASSUME WorkersInv, NEW r \in Runs, NEW k \in Scripts, NEW s \in Numbers, begin(r, k, s),
         UNCHANGED maxWorkers
  PROVE  WorkersInv'
<1>1. PICK st : st = [at |-> "asks", of |-> Worker(k, s), reused |-> FALSE]
  OBVIOUS
<1>2. /\ run[r].at = "away" /\ s \in {Departed, stay} /\ run' = [run EXCEPT ![r] = st]
      /\ UNCHANGED <<ofReloads, idle, line, live, obsolete, tally>>
  BY <1>1 DEF begin
<1>3. st \in RunStates /\ st.at = "asks" /\ st.of \in Workers /\ st.of.stats = s
  BY <1>1 DEF RunStates, Doing, Worker, Workers
<1>4. RunsMoved(r, 0) /\ run'[r] = st
  BY <1>2, <1>3, LineStill, MovedAlone
<1>5. s <= reloads + 1 /\ live \in Nat /\ idle \in Seq(Workers)
  BY <1>2 DEF WorkersInv, WorkersTyped, Departed
<1>6. NoWakeLost'
  <2>1. /\ live' \in Int /\ Len(idle') \in Nat
        /\ Len(idle') - live' <= Len(idle) - live + 0 - OneIf(run[r].at = "woken")
    BY <1>2, <1>5 DEF OneIf
  <2> QED BY <1>4, <2>1, WakesFollow
<1>7. /\ RunsTaken(r) /\ run[r].at \notin {"starting", "busy"} /\ run'[r].at \notin {"starting", "busy"}
      /\ run'[r].of \in Workers /\ run'[r].of.stats <= reloads + 1
  BY <1>2, <1>3, <1>4, <1>5 DEF RunsMoved
<1>8. UNCHANGED <<ofReloads, maxWorkers, idle, live, tally, obsolete>>
  BY <1>2
<1> QED BY <1>6, <1>7, <1>8, NothingCounted

LEMMA WaitKeeps ==
  ASSUME WorkersInv, NEW r \in Runs, run[r].at \in {"asks", "woken"}, waitInLine(r),
         UNCHANGED <<ofReloads, obsolete, maxWorkers>>
  PROVE  WorkersInv'
<1>1. PICK st : st = [run[r] EXCEPT !.at = "waits"]
  OBVIOUS
<1>2. /\ run[r] \in [at : Doing, of : Workers, reused : BOOLEAN] /\ run \in [Runs -> RunStates]
      /\ line \in Seq(Runs) /\ LineOf(line, run) /\ run[r].of.stats <= reloads + 1
      /\ maxWorkers \in Nat /\ live \in Nat
  BY DEF WorkersInv, WorkersTyped, RunStates, Away
<1>3. run' = [run EXCEPT ![r] = st] /\ st \in RunStates /\ st.at = "waits" /\ st.of = run[r].of
  BY <1>1, <1>2 DEF waitInLine, RunGoes, RunStates, Doing
<1>4. r \notin ToSet(line)
  BY <1>2 DEF LineOf
<1>5. {q \in Runs : run'[q].at = "waits"} = {q \in Runs : run[q].at = "waits"} \cup {r}
  BY <1>2, <1>3
<1>6. line' \in Seq(Runs) /\ IsInjective(line') /\ ToSet(line') = ToSet(line) \cup {r}
  <2>1. IsInjective(line)
    BY <1>2 DEF LineOf
  <2>2. CASE line' = <<r>> \o line
    BY <1>2, <1>4, <2>1, <2>2, OnePutFirst
  <2>3. CASE line' = Append(line, r)
    BY <1>2, <1>4, <2>1, <2>3, OnePutLast
  <2> QED BY <2>2, <2>3 DEF waitInLine
<1>7. LineOf(line', run')
  BY <1>2, <1>5, <1>6 DEF LineOf
<1>8. RunsTaken(r) /\ run'[r] = st
  BY <1>3, <1>6, <1>7, TakenAlone
<1>9. NoWakeLost'
  <2> DEFINE C == {q \in Runs : run'[q].at = "woken"}
  <2>1. C \in SUBSET Runs
    OBVIOUS
  <2> HIDE DEF C
  <2>2. Cardinality(C) \in Nat
    <3>1. IsFiniteSet(C)
      BY <2>1, FS_Subset, PythonAssumption
    <3> QED BY <3>1, FS_CardinalityType
  <2>3. live' = live /\ idle' = <<>> /\ live >= maxWorkers /\ maxWorkers' = maxWorkers
    BY DEF waitInLine
  <2>4. Len(idle') = 0
    BY <2>3
  <2>5. Cardinality(C) >= maxWorkers' - live' + Len(idle')
    BY <1>2, <2>2, <2>3, <2>4
  <2> QED BY <2>5 DEF NoWakeLost, Are, C
<1>10. UNCHANGED <<ofReloads, maxWorkers, idle, live, tally, obsolete>>
  BY DEF waitInLine
<1>11. run'[r].at \notin {"starting", "busy"} /\ run'[r].of \in Workers /\ run'[r].of.stats <= reloads + 1
  BY <1>2, <1>3, <1>8
<1> QED BY <1>8, <1>9, <1>10, <1>11, NothingCounted

LEMMA LeaveKeeps ==
  ASSUME WorkersInv, NEW r \in Runs, leaveLine(r), UNCHANGED maxWorkers
  PROVE  WorkersInv'
<1>1. Away \in RunStates /\ Away.at = "away"
  BY DEF RunStates, Away
<1>2. /\ run \in [Runs -> RunStates] /\ line \in Seq(Runs) /\ LineOf(line, run)
      /\ live \in Nat /\ idle \in Seq(Workers)
  BY DEF WorkersInv, WorkersTyped
<1>3. UNCHANGED <<ofReloads, maxWorkers, idle, live, tally, obsolete>>
  BY DEF leaveLine
<1>4. CASE run[r].at = "waits"
  <2>1. /\ line' = RemoveAt(line, CHOOSE i \in DOMAIN line : line[i] = r)
        /\ run' = [run EXCEPT ![r] = Away]
    BY <1>4 DEF leaveLine
  <2>2. PICK i \in DOMAIN line : line[i] = r /\ line' = RemoveAt(line, i)
    <3>1. \E i \in DOMAIN line : line[i] = r
      BY <1>2, <1>4 DEF LineOf, ToSet
    <3> QED BY <2>1, <3>1
  <2>3. IsInjective(line)
    BY <1>2 DEF LineOf
  <2>4. /\ line' \in Seq(Runs) /\ IsInjective(line') /\ ToSet(line') = ToSet(line) \ {r}
        /\ line # <<>>
    <3>1. /\ RemoveAt(line, i) \in Seq(Runs) /\ IsInjective(RemoveAt(line, i))
          /\ Len(line) \in Nat \ {0} /\ ToSet(RemoveAt(line, i)) = ToSet(line) \ {line[i]}
      BY <1>2, <2>3, OneTakenOut
    <3> QED BY <2>2, <3>1, EmptySeq
  <2>5. {q \in Runs : run'[q].at = "waits"} = {q \in Runs : run[q].at = "waits"} \ {r}
    BY <1>1, <1>2, <2>1
  <2>6. LineOf(line', run')
    BY <1>2, <2>4, <2>5 DEF LineOf
  <2>7. RunsMoved(r, 0) /\ run'[r] = Away
    BY <1>1, <2>1, <2>4, <2>6, MovedAlone
  <2>8. NoWakeLost'
    <3>1. /\ live' \in Int /\ Len(idle') \in Nat
          /\ Len(idle') - live' <= Len(idle) - live + 0 - OneIf(run[r].at = "woken")
      BY <1>2, <1>3, <1>4 DEF OneIf
    <3> QED BY <2>7, <3>1, WakesFollow
  <2>9. /\ RunsTaken(r) /\ run[r].at \notin {"starting", "busy"} /\ run'[r].at \notin {"starting", "busy"}
        /\ run'[r].at = "away"
    BY <1>1, <1>4, <2>7 DEF RunsMoved
  <2> QED BY <1>3, <2>8, <2>9, NothingCounted
<1>5. CASE run[r].at = "woken"
  <2>1. notifyLocked([run EXCEPT ![r] = Away], 1)
    BY <1>5 DEF leaveLine
  <2>2. RunsMoved(r, 1) /\ run'[r] = Away
    BY <1>1, <1>5, <2>1, Moved
  <2>3. NoWakeLost'
    <3>1. /\ live' \in Int /\ Len(idle') \in Nat
          /\ Len(idle') - live' <= Len(idle) - live + 1 - OneIf(run[r].at = "woken")
      BY <1>2, <1>3, <1>5 DEF OneIf
    <3> QED BY <2>2, <3>1, WakesFollow
  <2>4. /\ RunsTaken(r) /\ run[r].at \notin {"starting", "busy"} /\ run'[r].at \notin {"starting", "busy"}
        /\ run'[r].at = "away"
    BY <1>1, <1>5, <2>2 DEF RunsMoved
  <2> QED BY <1>3, <2>3, <2>4, NothingCounted
<1> QED BY <1>4, <1>5 DEF leaveLine

\* A busy worker is stopped.
LEMMA StoppedBusy ==
  ASSUME NEW c \in TallyStates, NEW w \in Workers, NEW d,
         d = Counted(StopsCounted(c, <<w>>), w.stats, "busy", -1)
  PROVE  /\ d \in TallyStates
         /\ \A s \in Numbers :
              /\ d[s].starting = c[s].starting
              /\ d[s].busy = c[s].busy + IF w \in CountedIn(s) THEN -1 ELSE 0
              /\ d[s].alive = c[s].alive + IF w \in CountedIn(s) THEN -1 ELSE 0
<1>1. <<w>> = [i \in 1..1 |-> w]
  OBVIOUS
<1>2. \A s \in Numbers : CountIn(<<w>>, CountedIn(s)) = IF w \in CountedIn(s) THEN 1 ELSE 0
  <2> SUFFICES ASSUME NEW s \in Numbers
               PROVE  CountIn(<<w>>, CountedIn(s)) = IF w \in CountedIn(s) THEN 1 ELSE 0
    OBVIOUS
  <2>1. PICK n \in Nat : n = 1
    OBVIOUS
  <2>2. CountIn([i \in 1..n |-> w], CountedIn(s)) = IF w \in CountedIn(s) THEN n ELSE 0
    BY CountsSame
  <2> QED BY <1>1, <2>1, <2>2
<1>3. \A i \in DOMAIN <<w>> : <<w>>[i] \in Workers
  OBVIOUS
<1>4. PICK one : one = <<w>>
  OBVIOUS
<1>5. PICK e : e = StopsCounted(c, one)
  OBVIOUS
<1>6. /\ e \in TallyStates
      /\ \A s \in Numbers : /\ e[s].starting = c[s].starting /\ e[s].busy = c[s].busy
                            /\ e[s].alive = c[s].alive - CountIn(one, CountedIn(s))
  <2>1. \A s \in Numbers : CountIn(one, CountedIn(s)) \in Int
    BY <1>2, <1>4
  <2>2. \A i \in DOMAIN one : one[i] \in Workers
    BY <1>3, <1>4
  <2> QED BY <1>5, <2>1, <2>2, StopsWhere
<1>7. d = Counted(e, w.stats, "busy", -1)
  BY <1>4, <1>5
<1>8. /\ d \in TallyStates
      /\ \A s \in Numbers : /\ d[s].busy = e[s].busy + IF w \in CountedIn(s) THEN -1 ELSE 0
                            /\ d[s].starting = e[s].starting /\ d[s].alive = e[s].alive
  <2>1. PICK m \in Int : m = -1
    OBVIOUS
  <2>2. d = Counted(e, w.stats, "busy", m)
    BY <1>7, <2>1
  <2>3. e \in TallyStates /\ m \in Int
    BY <1>6, <2>1
  <2>4. /\ d \in TallyStates
        /\ \A s \in Numbers : /\ d[s].busy = e[s].busy + IF w \in CountedIn(s) THEN m ELSE 0
                              /\ d[s].starting = e[s].starting /\ d[s].alive = e[s].alive
    <3>1. PICK z \in TallyStates : z = e
      BY <2>3
    <3>2. PICK k \in Int : k = m
      BY <2>3
    <3>3. LET made == Counted(z, w.stats, "busy", k)
          IN  /\ made \in TallyStates
              /\ \A s \in Numbers : /\ made[s].busy = z[s].busy + IF w \in CountedIn(s) THEN k ELSE 0
                                    /\ made[s].starting = z[s].starting /\ made[s].alive = z[s].alive
      BY CountedBusy
    <3> QED BY <2>2, <3>1, <3>2, <3>3
  <2> QED BY <2>1, <2>4
<1>9. ASSUME NEW s \in Numbers
      PROVE  d[s].alive = c[s].alive + IF w \in CountedIn(s) THEN -1 ELSE 0
  <2>1. c[s].alive \in Int /\ d[s].alive = c[s].alive - CountIn(one, CountedIn(s))
    BY <1>6, <1>8 DEF TallyStates
  <2>2. CountIn(one, CountedIn(s)) = IF w \in CountedIn(s) THEN 1 ELSE 0
    BY <1>2, <1>4
  <2> QED BY <2>1, <2>2
<1> QED BY <1>6, <1>8, <1>9

\* A script's runs that end leave it obsolete when others go on.
LEMMA UnbusyLeaves ==
  ASSUME WorkersInv, NEW r \in Runs, run[r].at = "busy", RunsTaken(r), unbusyLocked(r)
  PROVE  obsolete' \in SUBSET Scripts /\ \A k \in obsolete' : k \in obsolete /\ Busy(run', k) # {}
<1>1. obsolete \in SUBSET Scripts /\ \A k \in obsolete : Busy(run, k) # {}
  BY DEF WorkersInv, WorkersTyped, IdleKept
<1> DEFINE own == run[r].of.script
<1>2. obsolete' = IF Busy(run, own) = {r} THEN obsolete \ {own} ELSE obsolete
  BY DEF unbusyLocked
<1>3. r \in Busy(run, own)
  BY DEF Busy
<1>4. ASSUME NEW k \in obsolete' PROVE k \in obsolete /\ Busy(run', k) # {}
  <2>1. k \in obsolete
    BY <1>2
  <2>2. PICK q \in Busy(run, k) : q # r
    <3>1. CASE k = own
      <4>1. Busy(run, own) # {r}
        BY <1>2, <1>4, <3>1
      <4> QED BY <1>3, <3>1, <4>1
    <3>2. CASE k # own
      <4>1. r \notin Busy(run, k)
        BY <3>2 DEF Busy
      <4> QED BY <1>1, <2>1, <4>1
    <3> QED BY <3>1, <3>2
  <2> QED BY <2>1, <2>2, StillBusy
<1> QED BY <1>1, <1>2, <1>4

LEMMA StopKeeps ==
  ASSUME WorkersInv, NEW r \in Runs, run[r].at = "busy",
         NEW to, to \in {Away, [run[r] EXCEPT !.at = "asks"]},
         stopLocked(r, to), unbusyLocked(r), UNCHANGED <<ofReloads, maxWorkers>>
  PROVE  WorkersInv'
<1>1. PICK w : w = run[r].of
  OBVIOUS
<1>2. /\ run[r] \in [at : Doing, of : Workers, reused : BOOLEAN] /\ run \in [Runs -> RunStates]
      /\ w.stats <= reloads + 1 /\ w \in Workers
      /\ maxWorkers \in Nat /\ live \in Nat /\ live <= maxWorkers /\ idle \in Seq(Workers) /\ tally \in TallyStates
  BY <1>1 DEF WorkersInv, WorkersTyped, RunStates, Away
<1>3. to \in RunStates /\ to.at \in {"away", "asks"} /\ (to.at = "asks" => to.of = w)
  <2>1. [run[r] EXCEPT !.at = "asks"] \in RunStates
    BY <1>2 DEF RunStates, Doing
  <2>2. [run[r] EXCEPT !.at = "asks"].at = "asks" /\ [run[r] EXCEPT !.at = "asks"].of = w
    BY <1>1, <1>2
  <2> QED BY <2>1, <2>2 DEF RunStates, Away
<1>4. /\ notifyLocked([run EXCEPT ![r] = to], 1) /\ live' = live - 1 /\ idle' = idle
      /\ tally' = Counted(StopsCounted(tally, <<w>>), w.stats, "busy", -1)
  BY <1>1 DEF stopLocked
<1>5. RunsMoved(r, 1) /\ run'[r] = to
  BY <1>2, <1>3, <1>4, Moved
<1>6. RunsTaken(r)
  BY <1>5 DEF RunsMoved
<1>7. obsolete' \in SUBSET Scripts /\ \A k \in obsolete' : k \in obsolete /\ Busy(run', k) # {}
  BY <1>6, UnbusyLeaves
<1>8. /\ IdleKept' /\ idle' \in Seq(Workers)
      /\ \A V : /\ CountIn(idle, V) \in Nat /\ CountIn(idle', V) \in Nat
                /\ CountIn(idle', V) = CountIn(idle, V) + 0
  <2>1. UNCHANGED <<idle, stay>>
    BY <1>4 DEF ofReloads
  <2> QED BY <1>7, <2>1, IdleStill
<1>9. NoWakeLost'
  <2>1. /\ live' \in Int /\ Len(idle') \in Nat
        /\ Len(idle') - live' <= Len(idle) - live + 1 - OneIf(run[r].at = "woken")
    BY <1>2, <1>4 DEF OneIf
  <2> QED BY <1>5, <2>1, WakesFollow
<1>10. \A V : /\ Having(run', "starting", V) = Having(run, "starting", V) + IF w \in V THEN 0 ELSE 0
              /\ Having(run', "busy", V) = Having(run, "busy", V) + IF w \in V THEN -1 ELSE 0
  BY <1>1, <1>3, <1>5, <1>6 DEF RunsTaken, OneIf
<1>11. /\ tally' \in TallyStates
       /\ \A s \in Numbers :
            /\ tally'[s].starting = tally[s].starting
            /\ tally'[s].busy = tally[s].busy + IF w \in CountedIn(s) THEN -1 ELSE 0
            /\ tally'[s].alive = tally[s].alive + IF w \in CountedIn(s) THEN -1 ELSE 0
  BY <1>2, <1>4, StoppedBusy
<1>12. \A s \in Numbers : tally[s].starting \in Int
  BY <1>2 DEF TallyStates
<1>13. CountsGoBy(w, 0, -1, 0)
  <2>1. live' = live + 0 + -1 + 0 /\ -1 + 0 = -1
    BY <1>2, <1>4
  <2>2. \A s \in Numbers :
           /\ tally'[s].starting = tally[s].starting + IF w \in CountedIn(s) THEN 0 ELSE 0
           /\ tally'[s].busy = tally[s].busy + IF w \in CountedIn(s) THEN -1 ELSE 0
           /\ tally'[s].alive = tally[s].alive + IF w \in CountedIn(s) THEN -1 + 0 ELSE 0
    BY <1>11, <1>12, <2>1
  <2>3. \A V : /\ CountIn(idle, V) \in Nat /\ CountIn(idle', V) \in Nat
               /\ CountIn(idle', V) = CountIn(idle, V) + IF w \in V THEN 0 ELSE 0
    BY <1>8
  <2> QED BY <1>10, <1>11, <2>1, <2>2, <2>3 DEF CountsGoBy
<1>14. /\ run'[r].at = "away" \/ run'[r].of.stats <= reloads + 1
       /\ live' <= maxWorkers
  BY <1>2, <1>3, <1>4, <1>5
<1>15. 0 \in Int /\ -1 \in Int
  OBVIOUS
<1> QED BY <1>2, <1>6, <1>7, <1>8, <1>9, <1>13, <1>14, <1>15, OneKeeps

LEMMA DiscardKeeps ==
  ASSUME WorkersInv, NEW r \in Runs, discard(r), UNCHANGED maxWorkers
  PROVE  WorkersInv'
<1>1. run[r].at = "busy" /\ unbusyLocked(r) /\ UNCHANGED <<ofReloads, maxWorkers>>
  BY DEF discard
<1>2. PICK to \in {Away, [run[r] EXCEPT !.at = "asks"]} : stopLocked(r, to)
  BY DEF discard
<1> QED BY <1>1, <1>2, StopKeeps

\* The idle workers of a script.
LEMMA IdleOfScript ==
  ASSUME idle \in Seq(Workers), NEW k
  PROVE  CountIn(idle, OfScript(k)) = Cardinality(IdleWorkers(k))
<1>1. \A i \in DOMAIN idle : idle[i] \in Workers
  OBVIOUS
<1>2. {i \in DOMAIN idle : idle[i] \in OfScript(k)} = IdleWorkers(k)
  BY <1>1 DEF OfScript, IdleWorkers
<1> QED BY <1>2 DEF CountIn

LEMMA ReleaseKeeps ==
  ASSUME WorkersInv, NEW r \in Runs, releaseWorker(r), UNCHANGED maxWorkers
  PROVE  WorkersInv'
<1>1. run[r].at = "busy" /\ unbusyLocked(r) /\ UNCHANGED <<ofReloads, maxWorkers>>
  BY DEF releaseWorker
<1>2. CASE Unwanted(run[r].of)
  <2>1. stopLocked(r, Away)
    BY <1>2 DEF releaseWorker
  <2> QED BY <1>1, <2>1, StopKeeps
<1>3. CASE ~Unwanted(run[r].of)
  <2>1. PICK w : w = run[r].of
    OBVIOUS
  <2>2. /\ w.stats <= reloads + 1 /\ w \in Workers /\ run \in [Runs -> RunStates]
        /\ live \in Nat /\ live <= maxWorkers /\ idle \in Seq(Workers) /\ tally \in TallyStates
        /\ IdleKept
    <3>1. run[r] \in [at : Doing, of : Workers, reused : BOOLEAN]
      BY <1>1 DEF WorkersInv, WorkersTyped, RunStates, Away
    <3> QED BY <1>1, <2>1, <3>1 DEF WorkersInv, WorkersTyped
  <2>3. /\ idle' = Append(idle, w) /\ tally' = Counted(tally, w.stats, "busy", -1)
        /\ notifyLocked([run EXCEPT ![r] = Away], 1) /\ live' = live
        /\ ~Retired(w.stats) /\ w.script \notin obsolete
        /\ ~(Cardinality(IdleWorkers(w.script)) >= MaxIdle)
    BY <1>3, <2>1 DEF releaseWorker, Unwanted
  <2>4. Away \in RunStates /\ Away.at = "away"
    BY DEF RunStates, Away
  <2>5. RunsMoved(r, 1) /\ run'[r] = Away
    BY <1>1, <2>3, <2>4, Moved
  <2>6. RunsTaken(r)
    BY <2>5 DEF RunsMoved
  <2>7. obsolete' \in SUBSET Scripts /\ \A k \in obsolete' : k \in obsolete /\ Busy(run', k) # {}
    BY <1>1, <2>6, UnbusyLeaves
  <2>8. /\ idle' \in Seq(Workers) /\ Len(idle') = Len(idle) + 1
        /\ DOMAIN idle' = 1..(Len(idle) + 1) /\ DOMAIN idle = 1..Len(idle) /\ Len(idle) \in Nat
        /\ idle'[Len(idle) + 1] = w /\ \A i \in DOMAIN idle : idle'[i] = idle[i]
    <3>1. PICK new : new = Append(idle, w)
      OBVIOUS
    <3>2. /\ new \in Seq(Workers) /\ Len(new) = Len(idle) + 1
          /\ DOMAIN new = 1..(Len(idle) + 1) /\ DOMAIN idle = 1..Len(idle) /\ Len(idle) \in Nat
          /\ new[Len(idle) + 1] = w /\ \A i \in DOMAIN idle : new[i] = idle[i]
      BY <2>2, <3>1
    <3> QED BY <2>3, <3>1, <3>2
  <2>9. \A V : /\ CountIn(idle, V) \in Nat /\ CountIn(idle', V) \in Nat
               /\ CountIn(idle', V) = CountIn(idle, V) + IF w \in V THEN 1 ELSE 0
    <3> SUFFICES ASSUME NEW V
                 PROVE  /\ CountIn(idle, V) \in Nat /\ CountIn(idle', V) \in Nat
                        /\ CountIn(idle', V) = CountIn(idle, V) + IF w \in V THEN 1 ELSE 0
      OBVIOUS
    <3>1. CountIn(idle, V) \in Nat /\ CountIn(Append(idle, w), V) = CountIn(idle, V) + OneIf(w \in V)
      BY <2>2, CountsAppended
    <3>2. CountIn(idle', V) = CountIn(idle, V) + OneIf(w \in V)
      BY <2>3, <3>1
    <3> QED BY <3>1, <3>2 DEF OneIf
  <2>10. IdleKept'
    <3>1. \A i \in DOMAIN idle' : idle'[i] = w \/ \E j \in DOMAIN idle : idle'[i] = idle[j]
      <4> SUFFICES ASSUME NEW i \in DOMAIN idle' PROVE i = Len(idle) + 1 \/ i \in DOMAIN idle
        BY <2>8
      <4> QED BY <2>8
    <3>2. \A i \in DOMAIN idle' : ~Retired(idle'[i].stats)
      BY <2>2, <2>3, <3>1 DEF IdleKept
    <3>3. \A k \in Scripts : CountIn(idle', OfScript(k)) <= MaxIdle
      <4> SUFFICES ASSUME NEW k \in Scripts PROVE CountIn(idle', OfScript(k)) <= MaxIdle
        OBVIOUS
      <4>1. PICK V : V = OfScript(k)
        OBVIOUS
      <4>2. CountIn(idle, V) \in Nat /\ CountIn(idle, V) <= MaxIdle /\ MaxIdle \in Nat
        BY <2>2, <2>9, <4>1, PythonAssumption DEF IdleKept
      <4>3. CASE w \in V
        <5>1. k = w.script
          BY <4>1, <4>3 DEF OfScript
        <5>2. ~(CountIn(idle, V) >= MaxIdle)
          BY <2>2, <2>3, <4>1, <5>1, IdleOfScript
        <5> QED BY <2>9, <4>1, <4>2, <4>3, <5>2
      <4>4. CASE w \notin V
        <5>1. CountIn(idle', V) = CountIn(idle, V) + 0
          BY <2>9, <4>4
        <5> QED BY <4>1, <4>2, <5>1
      <4> QED BY <4>3, <4>4
    <3>4. \A k \in obsolete' : \A i \in DOMAIN idle' : idle'[i].script # k
      BY <2>2, <2>3, <2>7, <3>1 DEF IdleKept
    <3>5. stay' = stay /\ \A k : OfScript(k)' = OfScript(k) /\ Busy(run, k)' = Busy(run', k)
      BY <1>1 DEF OfScript, Workers, Busy, ofReloads
    <3>6. (\A i \in DOMAIN idle : ~Retired(idle[i].stats))'
      BY <3>2, <3>5 DEF Retired
    <3>7. (\A k \in Scripts : CountIn(idle, OfScript(k)) <= MaxIdle)'
      BY <3>3, <3>5
    <3>8. (\A k \in obsolete : Busy(run, k) # {} /\ \A i \in DOMAIN idle : idle[i].script # k)'
      BY <2>7, <3>4, <3>5
    <3> QED BY <3>6, <3>7, <3>8 DEF IdleKept
  <2>11. NoWakeLost'
    <3>1. /\ live' \in Int /\ Len(idle') \in Nat
          /\ Len(idle') - live' <= Len(idle) - live + 1 - OneIf(run[r].at = "woken")
      BY <1>1, <2>2, <2>3, <2>8 DEF OneIf
    <3> QED BY <1>1, <2>5, <3>1, WakesFollow
  <2>12. \A V : /\ Having(run', "starting", V) = Having(run, "starting", V) + IF w \in V THEN 0 ELSE 0
                /\ Having(run', "busy", V) = Having(run, "busy", V) + IF w \in V THEN -1 ELSE 0
    BY <1>1, <2>1, <2>4, <2>5, <2>6 DEF RunsTaken, OneIf
  <2>13. /\ tally' \in TallyStates
         /\ \A s \in Numbers :
              /\ tally'[s].starting = tally[s].starting
              /\ tally'[s].busy = tally[s].busy + IF w \in CountedIn(s) THEN -1 ELSE 0
              /\ tally'[s].alive = tally[s].alive
    <3>1. PICK m \in Int : m = -1
      OBVIOUS
    <3>2. PICK c \in TallyStates : c = tally
      BY <2>2
    <3>3. tally' = Counted(c, w.stats, "busy", m)
      BY <2>3, <3>1, <3>2
    <3>4. m \in Int /\ c \in TallyStates
      BY <3>1, <3>2
    <3>5. w \in Workers
      BY <2>2
    <3>6. /\ Counted(c, w.stats, "busy", m) \in TallyStates
          /\ \A s \in Numbers :
               /\ Counted(c, w.stats, "busy", m)[s].busy = c[s].busy + IF w \in CountedIn(s) THEN m ELSE 0
               /\ Counted(c, w.stats, "busy", m)[s].starting = c[s].starting
               /\ Counted(c, w.stats, "busy", m)[s].alive = c[s].alive
      BY <3>4, <3>5, CountedBusy
    <3> QED BY <3>1, <3>2, <3>3, <3>6
  <2>14. CountsGoBy(w, 0, -1, 1)
    <3>1. live' = live + 0 + -1 + 1 /\ -1 + 1 = 0
      BY <2>2, <2>3
    <3>2. \A s \in Numbers : tally[s].starting \in Int /\ tally[s].alive \in Int
      BY <2>2 DEF TallyStates
    <3>3. \A s \in Numbers :
             /\ tally'[s].starting = tally[s].starting + IF w \in CountedIn(s) THEN 0 ELSE 0
             /\ tally'[s].busy = tally[s].busy + IF w \in CountedIn(s) THEN -1 ELSE 0
             /\ tally'[s].alive = tally[s].alive + IF w \in CountedIn(s) THEN -1 + 1 ELSE 0
      BY <2>13, <3>1, <3>2
    <3> QED BY <2>9, <2>12, <2>13, <3>1, <3>3 DEF CountsGoBy
  <2>15. run'[r].at = "away" /\ live' <= maxWorkers /\ 0 \in Int /\ -1 \in Int /\ 1 \in Int
    BY <2>2, <2>3, <2>4, <2>5
  <2> QED BY <1>1, <2>2, <2>6, <2>7, <2>8, <2>10, <2>11, <2>14, <2>15, OneKeeps
<1> QED BY <1>2, <1>3

LEMMA StartedKeeps ==
  ASSUME WorkersInv, NEW r \in Runs, workerStarted(r), UNCHANGED maxWorkers
  PROVE  WorkersInv'
<1>1. PICK w : w = run[r].of
  OBVIOUS
<1>2. /\ run[r].at = "starting" /\ UNCHANGED <<ofReloads, maxWorkers, idle, obsolete>>
      /\ run[r] \in [at : Doing, of : Workers, reused : BOOLEAN] /\ run \in [Runs -> RunStates]
      /\ w.stats <= reloads + 1 /\ w \in Workers
      /\ live \in Nat /\ live <= maxWorkers /\ maxWorkers \in Nat
      /\ idle \in Seq(Workers) /\ tally \in TallyStates
  BY <1>1 DEF WorkersInv, WorkersTyped, RunStates, Away, workerStarted
<1>3. PICK over : over = Counted(tally, w.stats, "starting", -1)
  OBVIOUS
<1>4. /\ over \in TallyStates
      /\ \A s \in Numbers : /\ over[s].starting = tally[s].starting + IF w \in CountedIn(s) THEN -1 ELSE 0
                            /\ over[s].busy = tally[s].busy /\ over[s].alive = tally[s].alive
  <2>1. PICK m \in Int : m = -1
    OBVIOUS
  <2>2. PICK c \in TallyStates : c = tally
    BY <1>2
  <2>3. over = Counted(c, w.stats, "starting", m) /\ m \in Int /\ c \in TallyStates
    BY <1>3, <2>1, <2>2
  <2>5. PICK v \in Workers : v = w
    BY <1>2
  <2>6. LET made == Counted(c, v.stats, "starting", m)
        IN  /\ made \in TallyStates
            /\ \A s \in Numbers : /\ made[s].starting = c[s].starting + IF v \in CountedIn(s) THEN m ELSE 0
                                  /\ made[s].busy = c[s].busy /\ made[s].alive = c[s].alive
    BY CountedStarting
  <2>4. /\ over \in TallyStates
        /\ \A s \in Numbers : /\ over[s].starting = c[s].starting + IF w \in CountedIn(s) THEN m ELSE 0
                              /\ over[s].busy = c[s].busy /\ over[s].alive = c[s].alive
    BY <2>3, <2>5, <2>6
  <2> QED BY <2>1, <2>2, <2>4
<1>5. ASSUME RunsTaken(r), run'[r].at # "busy" \/ run'[r].of = w
      PROVE  /\ obsolete' \in SUBSET Scripts /\ IdleKept' /\ idle' \in Seq(Workers)
             /\ \A V : /\ CountIn(idle, V) \in Nat /\ CountIn(idle', V) \in Nat
                       /\ CountIn(idle', V) = CountIn(idle, V) + 0
  <2>1. \A k \in obsolete' : k \in obsolete /\ Busy(run', k) # {}
    BY <1>2, <1>5, BusyAgain
  <2>2. UNCHANGED <<idle, stay>>
    BY <1>2 DEF ofReloads
  <2>3. obsolete' \in SUBSET Scripts
    BY <1>2 DEF WorkersInv, WorkersTyped
  <2> QED BY <2>1, <2>2, <2>3, IdleStill
<1>6. \A s \in Numbers : tally[s].starting \in Int /\ tally[s].busy \in Int /\ tally[s].alive \in Int
  BY <1>2 DEF TallyStates
<1>7. 0 \in Int /\ -1 \in Int /\ 1 \in Int
  OBVIOUS
<1>8. CASE run' = RunGoes(r, "busy") /\ UNCHANGED <<line, live>>
           /\ tally' = Counted(Counted(over, w.stats, "busy", 1), w.stats, "alive", 1)
  <2>1. PICK st : st = [run[r] EXCEPT !.at = "busy"]
    OBVIOUS
  <2>2. run' = [run EXCEPT ![r] = st] /\ st \in RunStates /\ st.at = "busy" /\ st.of = w
    BY <1>1, <1>2, <1>8, <2>1 DEF RunGoes, RunStates, Doing
  <2>3. RunsMoved(r, 0) /\ run'[r] = st
    BY <1>2, <1>8, <2>2, LineStill, MovedAlone
  <2>4. RunsTaken(r)
    BY <2>3 DEF RunsMoved
  <2>5. /\ obsolete' \in SUBSET Scripts /\ IdleKept' /\ idle' \in Seq(Workers)
        /\ \A V : /\ CountIn(idle, V) \in Nat /\ CountIn(idle', V) \in Nat
                  /\ CountIn(idle', V) = CountIn(idle, V) + 0
    BY <1>5, <2>2, <2>3, <2>4
  <2>6. NoWakeLost'
    <3>1. /\ live' \in Int /\ Len(idle') \in Nat
          /\ Len(idle') - live' <= Len(idle) - live + 0 - OneIf(run[r].at = "woken")
      BY <1>2, <1>8 DEF OneIf
    <3> QED BY <1>2, <2>3, <3>1, WakesFollow
  <2>7. PICK up : up = Counted(over, w.stats, "busy", 1)
    OBVIOUS
  <2>8. /\ up \in TallyStates
        /\ \A s \in Numbers : /\ up[s].busy = over[s].busy + IF w \in CountedIn(s) THEN 1 ELSE 0
                              /\ up[s].starting = over[s].starting /\ up[s].alive = over[s].alive
    <3>1. over \in TallyStates /\ w \in Workers /\ 1 \in Int
      BY <1>2, <1>4
    <3>2. /\ Counted(over, w.stats, "busy", 1) \in TallyStates
          /\ \A s \in Numbers :
               /\ Counted(over, w.stats, "busy", 1)[s].busy = over[s].busy + IF w \in CountedIn(s) THEN 1 ELSE 0
               /\ Counted(over, w.stats, "busy", 1)[s].starting = over[s].starting
               /\ Counted(over, w.stats, "busy", 1)[s].alive = over[s].alive
      BY <3>1, CountedBusy
    <3> QED BY <2>7, <3>2
  <2>9. /\ tally' \in TallyStates
        /\ \A s \in Numbers : /\ tally'[s].alive = up[s].alive + IF w \in CountedIn(s) THEN 1 ELSE 0
                              /\ tally'[s].starting = up[s].starting /\ tally'[s].busy = up[s].busy
    <3>1. tally' = Counted(up, w.stats, "alive", 1)
      BY <1>8, <2>7
    <3> QED BY <1>2, <1>7, <2>8, <3>1, CountedAlive
  <2>10. CountsGoBy(w, -1, 1, 0)
    <3>1. live' = live + -1 + 1 + 0 /\ 1 + 0 = 1
      BY <1>2, <1>8
    <3>2. \A s \in Numbers :
             /\ tally'[s].starting = tally[s].starting + IF w \in CountedIn(s) THEN -1 ELSE 0
             /\ tally'[s].busy = tally[s].busy + IF w \in CountedIn(s) THEN 1 ELSE 0
             /\ tally'[s].alive = tally[s].alive + IF w \in CountedIn(s) THEN 1 + 0 ELSE 0
      BY <1>4, <2>8, <2>9, <3>1
    <3>3. \A V : /\ Having(run', "starting", V) = Having(run, "starting", V) + IF w \in V THEN -1 ELSE 0
                 /\ Having(run', "busy", V) = Having(run, "busy", V) + IF w \in V THEN 1 ELSE 0
      <4> SUFFICES ASSUME NEW V
                   PROVE  /\ Having(run', "starting", V) = Having(run, "starting", V) + IF w \in V THEN -1 ELSE 0
                          /\ Having(run', "busy", V) = Having(run, "busy", V) + IF w \in V THEN 1 ELSE 0
        OBVIOUS
      <4>1. \A where \in {"starting", "busy"} :
              /\ Having(run, where, V) \in Nat
              /\ Having(run', where, V)
                   = Having(run, where, V) + OneIf(run'[r].at = where /\ run'[r].of \in V)
                       - OneIf(run[r].at = where /\ run[r].of \in V)
        BY <2>4 DEF RunsTaken
      <4> QED BY <1>1, <1>2, <2>2, <2>3, <4>1 DEF OneIf
    <3>4. \A V : /\ CountIn(idle, V) \in Nat /\ CountIn(idle', V) \in Nat
                 /\ CountIn(idle', V) = CountIn(idle, V) + IF w \in V THEN 0 ELSE 0
      BY <2>5
    <3> QED BY <2>9, <3>1, <3>2, <3>3, <3>4 DEF CountsGoBy
  <2>11. run'[r].of.stats <= reloads + 1 /\ live' <= maxWorkers
    BY <1>2, <1>8, <2>2, <2>3
  <2> QED BY <1>2, <1>7, <2>4, <2>5, <2>6, <2>10, <2>11, OneKeeps
<1>9. CASE live' = live - 1 /\ tally' = over /\ notifyLocked([run EXCEPT ![r] = Away], 1)
  <2>1. Away \in RunStates /\ Away.at = "away"
    BY DEF RunStates, Away
  <2>2. RunsMoved(r, 1) /\ run'[r] = Away
    BY <1>2, <1>9, <2>1, Moved
  <2>3. RunsTaken(r)
    BY <2>2 DEF RunsMoved
  <2>4. /\ obsolete' \in SUBSET Scripts /\ IdleKept' /\ idle' \in Seq(Workers)
        /\ \A V : /\ CountIn(idle, V) \in Nat /\ CountIn(idle', V) \in Nat
                  /\ CountIn(idle', V) = CountIn(idle, V) + 0
    BY <1>5, <2>1, <2>2, <2>3
  <2>5. NoWakeLost'
    <3>1. /\ live' \in Int /\ Len(idle') \in Nat
          /\ Len(idle') - live' <= Len(idle) - live + 1 - OneIf(run[r].at = "woken")
      BY <1>2, <1>9 DEF OneIf
    <3> QED BY <1>2, <2>2, <3>1, WakesFollow
  <2>6. CountsGoBy(w, -1, 0, 0)
    <3>1. live' = live + -1 + 0 + 0 /\ 0 + 0 = 0
      BY <1>2, <1>9
    <3>2. \A s \in Numbers :
             /\ tally'[s].starting = tally[s].starting + IF w \in CountedIn(s) THEN -1 ELSE 0
             /\ tally'[s].busy = tally[s].busy + IF w \in CountedIn(s) THEN 0 ELSE 0
             /\ tally'[s].alive = tally[s].alive + IF w \in CountedIn(s) THEN 0 + 0 ELSE 0
      BY <1>4, <1>6, <1>9, <3>1
    <3>3. \A V : /\ Having(run', "starting", V) = Having(run, "starting", V) + IF w \in V THEN -1 ELSE 0
                 /\ Having(run', "busy", V) = Having(run, "busy", V) + IF w \in V THEN 0 ELSE 0
      <4> SUFFICES ASSUME NEW V
                   PROVE  /\ Having(run', "starting", V) = Having(run, "starting", V) + IF w \in V THEN -1 ELSE 0
                          /\ Having(run', "busy", V) = Having(run, "busy", V) + IF w \in V THEN 0 ELSE 0
        OBVIOUS
      <4>1. \A where \in {"starting", "busy"} :
              /\ Having(run, where, V) \in Nat
              /\ Having(run', where, V)
                   = Having(run, where, V) + OneIf(run'[r].at = where /\ run'[r].of \in V)
                       - OneIf(run[r].at = where /\ run[r].of \in V)
        BY <2>3 DEF RunsTaken
      <4> QED BY <1>1, <1>2, <2>1, <2>2, <4>1 DEF OneIf
    <3>4. \A V : /\ CountIn(idle, V) \in Nat /\ CountIn(idle', V) \in Nat
                 /\ CountIn(idle', V) = CountIn(idle, V) + IF w \in V THEN 0 ELSE 0
      BY <2>4
    <3>5. tally' \in TallyStates
      BY <1>4, <1>9
    <3> QED BY <3>1, <3>2, <3>3, <3>4, <3>5 DEF CountsGoBy
  <2>7. run'[r].at = "away" /\ live' <= maxWorkers
    BY <1>2, <1>9, <2>1, <2>2
  <2> QED BY <1>2, <1>7, <2>3, <2>4, <2>5, <2>6, <2>7, OneKeeps
<1> QED BY <1>1, <1>3, <1>8, <1>9 DEF workerStarted

\* The workers stopped as one is started are those that were idle.
StopsFor(r) ==
  LET dead == [i \in 1..Cardinality(FitFor(r)) |-> run[r].of]
  IN IF live - Cardinality(FitFor(r)) < maxWorkers THEN dead ELSE Append(dead, Head(IdleWithout(FitFor(r))))

LEMMA StartStops ==
  ASSUME WorkersInv, NEW r \in Runs, run[r].at \in {"asks", "woken"}, startWorker(r, Cardinality(FitFor(r))),
         NEW stops, stops = StopsFor(r)
  PROVE  /\ stops \in Seq(Workers) /\ idle' \in Seq(Workers)
         /\ \A i \in DOMAIN idle' : \E j \in DOMAIN idle : idle'[i] = idle[j]
         /\ \A V : /\ CountIn(idle, V) \in Nat /\ CountIn(idle', V) \in Nat /\ CountIn(stops, V) \in Nat
                   /\ CountIn(idle', V) = CountIn(idle, V) - CountIn(stops, V)
         /\ live - Len(stops) + 1 <= maxWorkers
<1> DEFINE w == run[r].of
           gone == FitFor(r)
           fit == Cardinality(gone)
           rest == IdleWithout(gone)
           dead == [i \in 1..fit |-> w]
<1>1. /\ idle \in Seq(Workers) /\ live \in Nat /\ maxWorkers \in Nat /\ live <= maxWorkers
      /\ w \in Workers
  <2>1. run[r] \in [at : Doing, of : Workers, reused : BOOLEAN]
    BY DEF WorkersInv, WorkersTyped, RunStates, Away
  <2> QED BY <2>1 DEF WorkersInv, WorkersTyped
<1>2. gone \in SUBSET DOMAIN idle /\ \A i \in gone : idle[i] = w
  BY DEF FitFor
<1>3. IsFiniteSet(gone) /\ fit \in Nat
  <2>1. DOMAIN idle = 1..Len(idle) /\ Len(idle) \in Nat
    BY <1>1
  <2>2. IsFiniteSet(1..Len(idle)) /\ gone \in SUBSET (1..Len(idle))
    BY <1>2, <2>1, FS_Interval
  <2> HIDE DEF gone
  <2> QED BY <2>2, FS_Subset, FS_CardinalityType
<1>4. /\ stops = IF live - fit < maxWorkers THEN dead ELSE Append(dead, Head(rest))
      /\ idle' = IF live - fit < maxWorkers THEN rest ELSE Tail(rest)
      /\ live - fit < maxWorkers \/ rest # <<>>
  BY DEF startWorker, StopsFor
<1> HIDE DEF w, gone, fit
<1>5. /\ rest \in Seq(Workers)
      /\ \A i \in DOMAIN rest : \E j \in DOMAIN idle : rest[i] = idle[j]
      /\ \A V : /\ CountIn(idle, V) \in Nat /\ CountIn(rest, V) \in Nat
                /\ CountIn(rest, V) = CountIn(idle, V) - CountsAt(idle, gone, V)
  <2>1. PICK X : X = gone
    OBVIOUS
  <2>2. X \in SUBSET DOMAIN idle
    BY <1>2, <2>1
  <2>3. /\ IdleWithout(X) \in Seq(Workers)
        /\ \A i \in DOMAIN IdleWithout(X) : \E j \in DOMAIN idle \ X : IdleWithout(X)[i] = idle[j]
        /\ \A V : /\ CountIn(IdleWithout(X), V) = CountIn(idle, V) - CountsAt(idle, X, V)
                  /\ CountIn(idle, V) \in Nat /\ CountIn(IdleWithout(X), V) \in Nat
    BY <1>1, <2>2, LeftIdle
  <2> QED BY <2>1, <2>3
<1>6. \A V : CountsAt(idle, gone, V) = IF w \in V THEN fit ELSE 0
  BY <1>2, <1>3, AlikeAt DEF fit
<1>7. dead \in Seq(Workers) /\ Len(dead) = fit
  <2>1. dead \in [1..fit -> Workers]
    BY <1>1
  <2> QED BY <1>3, <2>1
<1>8. \A V : CountIn(dead, V) = IF w \in V THEN fit ELSE 0
  BY <1>3, CountsSame
<1> HIDE DEF dead, rest
<1>9. \A V : /\ CountIn(dead, V) \in Nat
             /\ CountIn(rest, V) = CountIn(idle, V) - CountIn(dead, V)
  BY <1>3, <1>5, <1>6, <1>8
<1>10. CASE live - fit < maxWorkers
  <2>1. stops = dead /\ idle' = rest
    BY <1>4, <1>10
  <2>2. live - Len(stops) + 1 <= maxWorkers
    <3>1. Len(stops) = fit
      BY <1>7, <2>1
    <3> QED BY <1>1, <1>3, <1>10, <3>1
  <2> QED BY <1>5, <1>7, <1>9, <2>1, <2>2
<1>11. CASE ~(live - fit < maxWorkers)
  <2>1. stops = Append(dead, Head(rest)) /\ idle' = Tail(rest) /\ rest # <<>>
    BY <1>4, <1>11
  <2>2. PICK e : e = Head(rest)
    OBVIOUS
  <2>3. PICK t : t = Tail(rest)
    OBVIOUS
  <2>4. e \in Workers /\ t \in Seq(Workers) /\ \A i \in DOMAIN t : \E j \in DOMAIN rest : t[i] = rest[j]
    <3>1. /\ Len(rest) \in Nat /\ rest # <<>> /\ DOMAIN rest = 1..Len(rest) /\ Len(rest) # 0
          /\ Head(rest) = rest[1] /\ t \in Seq(Workers) /\ DOMAIN t = 1..(Len(rest) - 1)
          /\ \A i \in 1..(Len(rest) - 1) : t[i] = rest[i + 1]
      BY <1>5, <2>1, <2>3
    <3>2. 1 \in DOMAIN rest /\ \A i \in 1..(Len(rest) - 1) : i + 1 \in DOMAIN rest
      BY <3>1
    <3>3. \A i \in DOMAIN rest : rest[i] \in Workers
      BY <1>5
    <3> QED BY <2>2, <3>1, <3>2, <3>3
  <2>5. stops \in Seq(Workers) /\ Len(stops) = fit + 1
    <3>1. stops = Append(dead, e)
      BY <2>1, <2>2
    <3>2. Append(dead, e) \in Seq(Workers) /\ Len(Append(dead, e)) = Len(dead) + 1
      BY <1>7, <2>4, AppendProperties
    <3> QED BY <1>7, <3>1, <3>2
  <2>6. ASSUME NEW V
        PROVE  /\ CountIn(idle, V) \in Nat /\ CountIn(idle', V) \in Nat /\ CountIn(stops, V) \in Nat
               /\ CountIn(idle', V) = CountIn(idle, V) - CountIn(stops, V)
    <3>1. CountIn(Append(dead, e), V) = CountIn(dead, V) + OneIf(e \in V)
      BY <1>7, <2>4, CountsAppended
    <3>2. CountIn(Tail(rest), V) = CountIn(rest, V) - OneIf(Head(rest) \in V)
      BY <1>5, <2>1, CountsTail
    <3>3. CountIn(stops, V) = CountIn(dead, V) + OneIf(e \in V) /\ CountIn(idle', V) = CountIn(rest, V) - OneIf(e \in V)
      BY <2>1, <2>2, <3>1, <3>2
    <3>4. OneIf(e \in V) \in Nat
      BY DEF OneIf
    <3>5. CountIn(idle', V) \in Nat
      <4>1. t \in Seq(Workers) /\ CountIn(idle', V) = CountIn(t, V)
        BY <2>1, <2>3, <2>4
      <4>2. {} \in SUBSET DOMAIN t
        OBVIOUS
      <4> QED BY <4>1, <4>2, CountsParted
    <3>6. CountIn(idle, V) \in Nat /\ CountIn(dead, V) \in Nat /\ CountIn(rest, V) = CountIn(idle, V) - CountIn(dead, V)
      BY <1>5, <1>9
    <3> QED BY <3>3, <3>4, <3>5, <3>6
  <2>7. live - Len(stops) + 1 <= maxWorkers
    <3>1. Len(stops) = fit + 1
      BY <2>5
    <3> QED BY <1>1, <1>3, <3>1
  <2>8. \A i \in DOMAIN idle' : \E j \in DOMAIN idle : idle'[i] = idle[j]
    <3>1. idle' = t
      BY <2>1, <2>3
    <3> QED BY <1>5, <2>4, <3>1
  <2>9. idle' \in Seq(Workers)
    BY <2>1, <2>3, <2>4
  <2> QED BY <2>5, <2>6, <2>7, <2>8, <2>9
<1> QED BY <1>10, <1>11

LEMMA StartKeeps ==
  ASSUME WorkersInv, NEW r \in Runs, run[r].at \in {"asks", "woken"},
         startWorker(r, Cardinality(FitFor(r))), UNCHANGED <<ofReloads, obsolete, maxWorkers>>
  PROVE  WorkersInv'
<1>1. PICK w : w = run[r].of
  OBVIOUS
<1>2. PICK st : st = [run[r] EXCEPT !.at = "starting", !.reused = FALSE]
  OBVIOUS
<1>3. PICK stops : stops = StopsFor(r)
  OBVIOUS
<1>4. /\ stops \in Seq(Workers) /\ idle' \in Seq(Workers)
      /\ \A i \in DOMAIN idle' : \E j \in DOMAIN idle : idle'[i] = idle[j]
      /\ \A V : /\ CountIn(idle, V) \in Nat /\ CountIn(idle', V) \in Nat /\ CountIn(stops, V) \in Nat
                /\ CountIn(idle', V) = CountIn(idle, V) - CountIn(stops, V)
      /\ live - Len(stops) + 1 <= maxWorkers
  BY <1>3, StartStops
<1>5. /\ live' = live - Len(stops) + 1
      /\ tally' = Counted(StopsCounted(tally, stops), w.stats, "starting", 1)
      /\ notifyLocked([run EXCEPT ![r] = st], Len(stops))
      /\ w \in Workers /\ st \in RunStates /\ st.at = "starting" /\ st.of = w
  <2>1. /\ run[r].of \in Workers /\ st \in RunStates /\ st.at = "starting" /\ st.of = run[r].of
        /\ [run EXCEPT ![r].at = "starting", ![r].reused = FALSE] = [run EXCEPT ![r] = st]
    <3>1. LET it == [run[r] EXCEPT !.at = "starting", !.reused = FALSE]
          IN  /\ run[r].of \in Workers /\ it \in RunStates /\ it.at = "starting" /\ it.of = run[r].of
              /\ [run EXCEPT ![r].at = "starting", ![r].reused = FALSE] = [run EXCEPT ![r] = it]
      BY Asking DEF Doing
    <3> QED BY <1>2, <3>1
  <2> QED BY <1>1, <1>3, <2>1 DEF startWorker, StopsFor
<1>6. /\ live \in Nat /\ maxWorkers \in Nat /\ idle \in Seq(Workers) /\ tally \in TallyStates /\ Len(stops) \in Nat
      /\ obsolete \in SUBSET Scripts /\ w.stats <= reloads + 1
  BY <1>1, <1>4 DEF WorkersInv, WorkersTyped
<1>7. RunsMoved(r, Len(stops)) /\ run'[r] = st
  BY <1>5, <1>6, Moved
<1>8. RunsTaken(r)
  BY <1>7 DEF RunsMoved
<1>9. /\ CountIn(idle, Workers) = Len(idle) /\ CountIn(idle', Workers) = Len(idle')
      /\ CountIn(stops, Workers) = Len(stops) /\ Len(idle) \in Nat /\ Len(idle') \in Nat
  BY <1>4, <1>6, CountsAll
<1>10. NoWakeLost'
  <2>1. Len(idle') = Len(idle) - Len(stops)
    BY <1>4, <1>9
  <2>2. /\ live' \in Int /\ Len(idle') \in Nat
        /\ Len(idle') - live' <= Len(idle) - live + Len(stops) - OneIf(run[r].at = "woken")
    <3>1. PICK m \in Nat : m = Len(stops)
      BY <1>6
    <3>2. PICK before \in Nat : before = Len(idle)
      BY <1>9
    <3>3. PICK after \in Nat : after = Len(idle')
      BY <1>9
    <3>4. PICK woken \in {0, 1} : woken = OneIf(run[r].at = "woken")
      BY DEF OneIf
    <3>5. PICK were \in Nat : were = live
      BY <1>6
    <3>6. live' = were - m + 1 /\ after = before - m
      BY <1>5, <2>1, <3>1, <3>2, <3>3, <3>5
    <3>7. live' \in Int /\ after - live' <= before - were + m - woken
      BY <3>6
    <3> QED BY <3>1, <3>2, <3>3, <3>4, <3>5, <3>7
  <2> QED BY <1>6, <1>7, <2>2, WakesFollow
<1>11. IdleKept'
  <2>1. \A V : CountIn(idle', V) \in Nat /\ CountIn(idle, V) \in Nat /\ CountIn(idle', V) <= CountIn(idle, V)
    BY <1>4
  <2>2. \A k \in obsolete : Busy(run', k) # {}
    BY <1>8, BusyAgain
  <2>3. IdleKept /\ UNCHANGED <<stay, obsolete>>
    BY DEF WorkersInv, ofReloads
  <2> QED BY <1>4, <2>1, <2>2, <2>3, FewerIdle
<1>12. \A V : /\ Having(run', "starting", V) = Having(run, "starting", V) + OneIf(w \in V)
              /\ Having(run', "busy", V) = Having(run, "busy", V)
              /\ Having(run, "starting", V) \in Nat /\ Having(run, "busy", V) \in Nat
  <2>1. run[r].at \notin {"starting", "busy"} /\ run'[r].at = "starting" /\ run'[r].of = w
    BY <1>5, <1>7
  <2> QED BY <1>8, <2>1 DEF RunsTaken, OneIf
<1>13. PICK e : e = StopsCounted(tally, stops)
  OBVIOUS
<1>14. /\ e \in TallyStates
       /\ \A s \in Numbers : /\ e[s].starting = tally[s].starting /\ e[s].busy = tally[s].busy
                             /\ e[s].alive = tally[s].alive - CountIn(stops, CountedIn(s))
  <2>1. \A i \in DOMAIN stops : stops[i] \in Workers
    BY <1>4
  <2>2. \A s \in Numbers : CountIn(stops, CountedIn(s)) \in Int
    BY <1>4
  <2> QED BY <1>6, <1>13, <2>1, <2>2, StopsWhere
<1>15. /\ tally' \in TallyStates
       /\ \A s \in Numbers :
            /\ tally'[s].starting = e[s].starting + IF w \in CountedIn(s) THEN 1 ELSE 0
            /\ tally'[s].busy = e[s].busy /\ tally'[s].alive = e[s].alive
  <2>1. e \in TallyStates /\ w \in Workers /\ 1 \in Int
    BY <1>5, <1>14
  <2>2. /\ Counted(e, w.stats, "starting", 1) \in TallyStates
        /\ \A s \in Numbers :
             /\ Counted(e, w.stats, "starting", 1)[s].starting = e[s].starting + IF w \in CountedIn(s) THEN 1 ELSE 0
             /\ Counted(e, w.stats, "starting", 1)[s].busy = e[s].busy
             /\ Counted(e, w.stats, "starting", 1)[s].alive = e[s].alive
    BY <2>1, CountedStarting
  <2> QED BY <1>5, <1>13, <2>2
<1>16. ASSUME NEW s \in Numbers
       PROVE  /\ tally'[s].starting - tally[s].starting
                   = Having(run', "starting", CountedIn(s)) - Having(run, "starting", CountedIn(s))
              /\ tally'[s].busy - tally[s].busy
                   = Having(run', "busy", CountedIn(s)) - Having(run, "busy", CountedIn(s))
              /\ tally'[s].alive - tally[s].alive
                   = Having(run', "busy", CountedIn(s)) - Having(run, "busy", CountedIn(s))
                       + (CountIn(idle', CountedIn(s)) - CountIn(idle, CountedIn(s)))
  <2>1. PICK V : V = CountedIn(s)
    OBVIOUS
  <2>2. tally[s].starting \in Int /\ tally[s].busy \in Int /\ tally[s].alive \in Int
    BY <1>6 DEF TallyStates
  <2>3. PICK a \in Int : a = IF w \in V THEN 1 ELSE 0
    OBVIOUS
  <2>4. /\ tally'[s].starting = tally[s].starting + a
        /\ tally'[s].busy = tally[s].busy
        /\ tally'[s].alive = tally[s].alive - CountIn(stops, V)
    BY <1>14, <1>15, <2>1, <2>3
  <2>5. /\ Having(run', "starting", V) = Having(run, "starting", V) + a
        /\ Having(run', "busy", V) = Having(run, "busy", V)
        /\ Having(run, "starting", V) \in Nat /\ Having(run, "busy", V) \in Nat
    BY <1>12, <2>3 DEF OneIf
  <2>6. /\ CountIn(idle, V) \in Nat /\ CountIn(stops, V) \in Nat
        /\ CountIn(idle', V) = CountIn(idle, V) - CountIn(stops, V)
    BY <1>4
  <2>7. a \in Int
    BY <2>3
  <2>8. /\ tally'[s].starting - tally[s].starting = a /\ tally'[s].busy - tally[s].busy = 0
        /\ tally'[s].alive - tally[s].alive = -CountIn(stops, V)
    BY <2>2, <2>4, <2>6, <2>7
  <2>9. /\ Having(run', "starting", V) - Having(run, "starting", V) = a
        /\ Having(run', "busy", V) - Having(run, "busy", V) = 0
    BY <2>5, <2>7
  <2>10. 0 + (CountIn(idle', V) - CountIn(idle, V)) = -CountIn(stops, V)
    BY <2>6
  <2> QED BY <2>1, <2>8, <2>9, <2>10
<1>17. /\ live' \in Int /\ live' <= maxWorkers
       /\ live' = live + (Having(run', "starting", Workers) - Having(run, "starting", Workers))
                       + (Having(run', "busy", Workers) - Having(run, "busy", Workers))
                       + CountIn(idle', Workers) - CountIn(idle, Workers)
  <2>1. /\ Having(run', "starting", Workers) - Having(run, "starting", Workers) = 1
        /\ Having(run', "busy", Workers) - Having(run, "busy", Workers) = 0
    BY <1>5, <1>12 DEF OneIf
  <2>2. /\ CountIn(idle', Workers) - CountIn(idle, Workers) = -Len(stops)
        /\ CountIn(idle', Workers) \in Nat /\ CountIn(idle, Workers) \in Nat
    BY <1>4, <1>6, <1>9
  <2> QED BY <1>4, <1>5, <1>6, <2>1, <2>2
<1>18. run'[r].of.stats <= reloads + 1 /\ obsolete' \in SUBSET Scripts
  BY <1>5, <1>6, <1>7
<1>19. \A V : CountIn(idle, V) \in Nat /\ CountIn(idle', V) \in Nat
  BY <1>4
<1>20. idle' \in Seq(Workers) /\ tally' \in TallyStates
  BY <1>4, <1>15
<1> QED BY <1>8, <1>10, <1>11, <1>16, <1>17, <1>18, <1>19, <1>20, StepKeeps

LEMMA AcquireKeeps ==
  ASSUME WorkersInv, NEW r \in Runs, acquireWorker(r), UNCHANGED maxWorkers
  PROVE  WorkersInv'
<1>1. run[r].at \in {"asks", "woken"} /\ UNCHANGED <<ofReloads, obsolete, maxWorkers>>
  BY DEF acquireWorker
<1>2. CASE \E died \in 0..(Cardinality(FitFor(r)) - 1) : reuseWorker(r, died)
  BY <1>1, <1>2, ReuseKeeps
<1>3. CASE startWorker(r, Cardinality(FitFor(r)))
  BY <1>1, <1>3, StartKeeps
<1>4. CASE waitInLine(r)
  BY <1>1, <1>4, WaitKeeps
<1> QED BY <1>2, <1>3, <1>4 DEF acquireWorker

-----------------------------------------------------------------------------
(* The steps that stop idle workers, and reloads. *)

\* What the wakes are when no run moves.
LEMMA WakesStay ==
  ASSUME WorkersInv, UNCHANGED maxWorkers, NEW n \in Nat, RunsStayed(n),
         live' = live - n, Len(idle') = Len(idle) - n
  PROVE  NoWakeLost'
<1> SUFFICES ASSUME line' # <<>>
             PROVE  Cardinality({q \in Runs : run'[q].at = "woken"}) >= maxWorkers - live' + Len(idle')
  BY DEF NoWakeLost, Are
<1> DEFINE b == Cardinality({q \in Runs : run'[q].at = "woken"})
           a == Cardinality({q \in Runs : run[q].at = "woken"})
<1>1. line # <<>> /\ b = a + n /\ a \in Nat
  BY DEF RunsStayed
<1>2. a >= maxWorkers - live + Len(idle)
  BY <1>1 DEF WorkersInv, NoWakeLost, Are
<1> HIDE DEF a, b
<1>3. maxWorkers \in Nat /\ live \in Nat /\ Len(idle) \in Nat
  BY DEF WorkersInv, WorkersTyped
<1>4. PICK l : l = Len(idle)
  OBVIOUS
<1>5. b >= maxWorkers - (live - n) + (l - n)
  BY <1>1, <1>2, <1>3, <1>4
<1>6. b >= maxWorkers - live' + Len(idle')
  BY <1>4, <1>5
<1> QED BY <1>6 DEF b

\* Some idle workers are stopped, and counted so.
LEMMA StopsKeep ==
  ASSUME WorkersInv, UNCHANGED <<maxWorkers, script, stay, under, reloads>>,
         NEW gone \in SUBSET DOMAIN idle, Stops(gone),
         tally' = StopsCounted(tally, [i \in gone |-> idle[i]]),
         obsolete' \in SUBSET Scripts, StayFollows',
         \A k \in obsolete' : Busy(run, k) # {} /\ \A i \in DOMAIN idle' : idle'[i].script # k
  PROVE  WorkersInv'
<1> DEFINE n == Cardinality(gone)
           f == [i \in gone |-> idle[i]]
<1>1. /\ idle \in Seq(Workers) /\ live \in Nat /\ maxWorkers \in Nat /\ live <= maxWorkers
      /\ tally \in TallyStates /\ TalliesKept /\ PlacesKept /\ IdleKept
  BY DEF WorkersInv, WorkersTyped
<1>2. {i \in DOMAIN idle : i \in gone} = gone
  OBVIOUS
<1>3. idle' = IdleWithout(gone) /\ live' = live - n /\ notifyLocked(run, n)
  BY <1>2 DEF Stops
<1>4. IsFiniteSet(gone) /\ n \in Nat
  <2>1. DOMAIN idle = 1..Len(idle) /\ Len(idle) \in Nat
    BY <1>1
  <2>2. IsFiniteSet(1..Len(idle)) /\ gone \in SUBSET (1..Len(idle))
    BY <2>1, FS_Interval
  <2> QED BY <2>2, FS_Subset, FS_CardinalityType
<1> HIDE DEF n
<1>5. RunsStayed(n)
  BY <1>3, <1>4, Stayed
<1>6. /\ idle' \in Seq(Workers)
      /\ \A i \in DOMAIN idle' : \E j \in DOMAIN idle : idle'[i] = idle[j]
      /\ \A V : /\ CountIn(idle', V) = CountIn(idle, V) - CountsAt(idle, gone, V)
                /\ CountIn(idle, V) \in Nat /\ CountsAt(idle, gone, V) \in Nat
                /\ CountIn(idle', V) \in Nat
  <2>1. /\ IdleWithout(gone) \in Seq(Workers)
        /\ \A i \in DOMAIN IdleWithout(gone) : \E j \in DOMAIN idle \ gone : IdleWithout(gone)[i] = idle[j]
        /\ \A V : /\ CountIn(IdleWithout(gone), V) = CountIn(idle, V) - CountsAt(idle, gone, V)
                  /\ CountIn(idle, V) \in Nat /\ CountsAt(idle, gone, V) \in Nat
                  /\ CountIn(IdleWithout(gone), V) \in Nat
    BY <1>1, LeftIdle
  <2> QED BY <1>3, <2>1
<1>7. /\ CountIn(idle, Workers) = Len(idle) /\ CountIn(idle', Workers) = Len(idle')
      /\ CountsAt(idle, gone, Workers) = n /\ Len(idle) \in Nat /\ Len(idle') \in Nat
      /\ Len(idle') = Len(idle) - n
  <2>1. {i \in gone : idle[i] \in Workers} = gone
    BY <1>1
  <2>2. CountsAt(idle, gone, Workers) = n
    BY <2>1 DEF CountsAt, n
  <2>3. /\ CountIn(idle, Workers) = Len(idle) /\ CountIn(idle', Workers) = Len(idle')
        /\ Len(idle) \in Nat /\ Len(idle') \in Nat
    BY <1>1, <1>6, CountsAll
  <2> QED BY <1>6, <2>2, <2>3
<1>8. NoWakeLost'
  BY <1>3, <1>4, <1>5, <1>7, WakesStay
<1>9. /\ tally' \in TallyStates
      /\ \A s \in Numbers : /\ tally'[s].starting = tally[s].starting /\ tally'[s].busy = tally[s].busy
                            /\ tally'[s].alive = tally[s].alive - CountsAt(idle, gone, CountedIn(s))
  <2>1. \A V : CountIn(f, V) = CountsAt(idle, gone, V)
    <3> SUFFICES ASSUME NEW V PROVE CountIn(f, V) = CountsAt(idle, gone, V)
      OBVIOUS
    <3>1. {i \in DOMAIN f : f[i] \in V} = {i \in gone : idle[i] \in V}
      OBVIOUS
    <3> QED BY <3>1 DEF CountIn, CountsAt
  <2>2. \A i \in DOMAIN f : f[i] \in Workers
    BY <1>1
  <2>3. tally' = StopsCounted(tally, f)
    OBVIOUS
  <2> HIDE DEF f
  <2>4. \A s \in Numbers : CountIn(f, CountedIn(s)) \in Int
    BY <1>6, <2>1
  <2>5. /\ StopsCounted(tally, f) \in TallyStates
        /\ \A s \in Numbers :
             /\ StopsCounted(tally, f)[s].starting = tally[s].starting
             /\ StopsCounted(tally, f)[s].busy = tally[s].busy
             /\ StopsCounted(tally, f)[s].alive = tally[s].alive - CountIn(f, CountedIn(s))
    BY <1>1, <2>2, <2>4, StopsWhere
  <2> QED BY <2>1, <2>3, <2>5
<1>10. TalliesKept'
  <2>1. \A s : CountedIn(s)' = CountedIn(s)
    BY CountedSame
  <2>2. ASSUME NEW s \in Numbers
        PROVE  /\ tally'[s].starting = Having(run', "starting", CountedIn(s))
               /\ tally'[s].busy = Having(run', "busy", CountedIn(s))
               /\ tally'[s].alive = Having(run', "busy", CountedIn(s)) + CountIn(idle', CountedIn(s))
    <3>1. PICK V : V = CountedIn(s)
      OBVIOUS
    <3>2. /\ Having(run', "starting", V) = Having(run, "starting", V)
          /\ Having(run', "busy", V) = Having(run, "busy", V) /\ Having(run, "busy", V) \in Nat
      BY <1>5 DEF RunsStayed
    <3>3. /\ tally[s].starting = Having(run, "starting", V) /\ tally[s].busy = Having(run, "busy", V)
          /\ tally[s].alive = Having(run, "busy", V) + CountIn(idle, V)
      BY <1>1, <3>1 DEF TalliesKept
    <3>4. /\ CountIn(idle', V) = CountIn(idle, V) - CountsAt(idle, gone, V)
          /\ CountIn(idle, V) \in Nat /\ CountsAt(idle, gone, V) \in Nat
      BY <1>6
    <3>5. tally'[s].alive = tally[s].alive - CountsAt(idle, gone, V)
      BY <1>9, <3>1
    <3>6. tally'[s].alive = Having(run, "busy", V) + CountIn(idle', V)
      BY <3>2, <3>3, <3>4, <3>5
    <3> QED BY <1>9, <3>1, <3>2, <3>3, <3>6
  <2> QED BY <2>1, <2>2 DEF TalliesKept
<1>11. PlacesKept' /\ live' \in Nat /\ live' <= maxWorkers'
  <2>1. /\ Having(run', "starting", Workers) = Having(run, "starting", Workers)
        /\ Having(run', "busy", Workers) = Having(run, "busy", Workers)
        /\ Having(run, "starting", Workers) \in Nat /\ Having(run, "busy", Workers) \in Nat
    BY <1>5 DEF RunsStayed
  <2>2. live = Having(run, "starting", Workers) + Having(run, "busy", Workers) + Len(idle)
    BY <1>1 DEF PlacesKept
  <2>3. live' = Having(run, "starting", Workers) + Having(run, "busy", Workers) + (Len(idle) - n)
    BY <1>3, <1>4, <1>7, <2>1, <2>2
  <2>4. live' = Having(run', "starting", Workers) + Having(run', "busy", Workers) + Len(idle')
    BY <1>7, <2>1, <2>3
  <2>5. live' \in Nat
    BY <1>7, <2>1, <2>4
  <2>6. live' <= maxWorkers'
    BY <1>1, <1>3, <1>4
  <2>7. Workers' = Workers
    BY DEF Workers
  <2> QED BY <2>4, <2>5, <2>6, <2>7 DEF PlacesKept
<1>12. IdleKept'
  <2>1. \A i \in DOMAIN idle' : ~(idle'[i].stats = Departed \/ idle'[i].stats # stay)
    BY <1>1, <1>6 DEF IdleKept, Retired
  <2>2. \A k \in Scripts : CountIn(idle', OfScript(k)) <= MaxIdle
    <3> SUFFICES ASSUME NEW k \in Scripts PROVE CountIn(idle', OfScript(k)) <= MaxIdle
      OBVIOUS
    <3>1. PICK V : V = OfScript(k)
      OBVIOUS
    <3>2. CountIn(idle, V) <= MaxIdle /\ MaxIdle \in Nat
      BY <1>1, <3>1, PythonAssumption DEF IdleKept
    <3>3. /\ CountIn(idle', V) = CountIn(idle, V) - CountsAt(idle, gone, V)
          /\ CountIn(idle, V) \in Nat /\ CountsAt(idle, gone, V) \in Nat
      BY <1>6
    <3> QED BY <3>1, <3>2, <3>3
  <2>3. \A k \in obsolete' : Busy(run', k) # {}
    <3> SUFFICES ASSUME NEW k \in obsolete' PROVE Busy(run', k) # {}
      OBVIOUS
    <3>1. PICK q \in Busy(run, k) : TRUE
      OBVIOUS
    <3> QED BY <1>5, <3>1 DEF RunsStayed, Woken, Busy
  <2>4. stay' = stay /\ \A k : OfScript(k)' = OfScript(k) /\ Busy(run, k)' = Busy(run', k)
    BY DEF OfScript, Workers, Busy
  <2>5. (\A i \in DOMAIN idle : ~Retired(idle[i].stats))'
    BY <2>1, <2>4 DEF Retired
  <2>6. (\A k \in Scripts : CountIn(idle, OfScript(k)) <= MaxIdle)'
    BY <2>2, <2>4
  <2>7. (\A k \in obsolete : Busy(run, k) # {} /\ \A i \in DOMAIN idle : idle[i].script # k)'
    BY <2>3, <2>4
  <2> QED BY <2>5, <2>6, <2>7 DEF IdleKept
<1>13. WorkersTyped'
  <2>1. \A q \in Runs : run'[q].at # "away" => run[q].at # "away" /\ run'[q].of = run[q].of
    BY <1>5 DEF RunsStayed, Woken
  <2>2. \A q \in Runs : run'[q].at # "away" => run'[q].of.stats <= reloads' + 1
    BY <2>1 DEF WorkersInv, WorkersTyped
  <2>3. run' \in [Runs -> RunStates] /\ line' \in Seq(Runs)
    BY <1>5 DEF RunsStayed
  <2> QED BY <1>6, <1>9, <1>11, <2>2, <2>3 DEF WorkersInv, WorkersTyped
<1>14. LineOf(line, run)'
  BY <1>5 DEF RunsStayed, LineOf
<1> QED BY <1>8, <1>10, <1>11, <1>12, <1>13, <1>14 DEF WorkersInv

LEMMA ReapKeeps ==
  ASSUME WorkersInv, NEW n, reap(n), UNCHANGED maxWorkers
  PROVE  WorkersInv'
<1>1. idle \in Seq(Workers)
  BY DEF WorkersInv, WorkersTyped
<1>2. n \in 1..Len(idle) /\ DOMAIN idle = 1..Len(idle) /\ Len(idle) \in Nat
  BY <1>1 DEF reap
<1>3. PICK gone : gone = 1..n
  OBVIOUS
<1>4. gone \in SUBSET DOMAIN idle
  BY <1>2, <1>3
<1>5. /\ Stops(gone) /\ tally' = StopsCounted(tally, [i \in gone |-> idle[i]])
      /\ UNCHANGED <<ofReloads, obsolete>>
  BY <1>3 DEF reap
<1>6. UNCHANGED <<maxWorkers, script, stay, under, reloads, pending, obsolete>>
  BY <1>5 DEF ofReloads
<1>7. StayFollows' /\ obsolete' \in SUBSET Scripts
  BY <1>6 DEF WorkersInv, StayFollows, WorkersTyped
<1>8. \A i \in DOMAIN idle' : \E j \in DOMAIN idle : idle'[i] = idle[j]
  <2>1. {i \in DOMAIN idle : i \in gone} = gone
    BY <1>4
  <2>2. idle' = IdleWithout(gone)
    BY <1>5, <2>1 DEF Stops
  <2>3. \A i \in DOMAIN IdleWithout(gone) : \E j \in DOMAIN idle \ gone : IdleWithout(gone)[i] = idle[j]
    BY <1>1, <1>4, LeftIdle
  <2> QED BY <2>2, <2>3
<1>9. \A k \in obsolete' : Busy(run, k) # {} /\ \A i \in DOMAIN idle' : idle'[i].script # k
  BY <1>6, <1>8 DEF WorkersInv, IdleKept
<1> QED BY <1>4, <1>5, <1>6, <1>7, <1>9, StopsKeep

LEMMA RetainKeeps ==
  ASSUME WorkersInv, Retain, UNCHANGED maxWorkers
  PROVE  WorkersInv'
<1>1. idle \in Seq(Workers) /\ script \in SUBSET Scripts /\ obsolete \in SUBSET Scripts
  BY DEF WorkersInv, WorkersTyped
<1>2. PICK gone : gone = {i \in DOMAIN idle : idle[i].script \notin script}
  OBVIOUS
<1>3. gone \in SUBSET DOMAIN idle
  BY <1>2
<1>4. /\ Stops(gone) /\ tally' = StopsCounted(tally, [i \in gone |-> idle[i]])
      /\ UNCHANGED <<maxWorkers, script, stay, under, reloads>>
      /\ pending' = pending \ {"retain"}
      /\ obsolete' = (obsolete \ script) \cup {k \in Scripts \ script : Busy(run, k) # {}}
  BY <1>2 DEF Retain
<1>5. StayFollows' /\ obsolete' \in SUBSET Scripts
  BY <1>1, <1>4 DEF WorkersInv, StayFollows
<1>6. \A i \in DOMAIN idle' : \E j \in DOMAIN idle \ gone : idle'[i] = idle[j]
  <2>1. {i \in DOMAIN idle : i \in gone} = gone
    BY <1>3
  <2>2. idle' = IdleWithout(gone)
    BY <1>4, <2>1 DEF Stops
  <2>3. \A i \in DOMAIN IdleWithout(gone) : \E j \in DOMAIN idle \ gone : IdleWithout(gone)[i] = idle[j]
    BY <1>1, <1>3, LeftIdle
  <2> QED BY <2>2, <2>3
<1>7. \A i \in DOMAIN idle' : idle'[i].script \in script
  BY <1>2, <1>6
<1>8. \A k \in obsolete' : k \notin script /\ Busy(run, k) # {}
  BY <1>4 DEF WorkersInv, IdleKept
<1>9. \A k \in obsolete' : Busy(run, k) # {} /\ \A i \in DOMAIN idle' : idle'[i].script # k
  BY <1>7, <1>8
<1> QED BY <1>3, <1>4, <1>5, <1>9, StopsKeep

\* The runs of two sets of workers are counted apart.
LEMMA HavingParted ==
  ASSUME NEW runs, NEW where, NEW V, NEW W, V \cap W = {}
  PROVE  /\ Having(runs, where, V) \in Nat /\ Having(runs, where, W) \in Nat
         /\ Having(runs, where, V \cup W) = Having(runs, where, V) + Having(runs, where, W)
         /\ Having(runs, where, {}) = 0
<1> DEFINE A == HavingAt(runs, where, V)
           B == HavingAt(runs, where, W)
           C == HavingAt(runs, where, V \cup W)
<1>1. A \in SUBSET Runs /\ B \in SUBSET Runs /\ C = A \cup B /\ A \cap B = {}
  BY DEF HavingAt
<1>2. HavingAt(runs, where, {}) = {}
  BY DEF HavingAt
<1> HIDE DEF A, B, C
<1>3. IsFiniteSet(A) /\ IsFiniteSet(B)
  BY <1>1, FS_Subset, PythonAssumption
<1>4. /\ Cardinality(A) \in Nat /\ Cardinality(B) \in Nat
      /\ Cardinality(C) = Cardinality(A) + Cardinality(B)
  BY <1>1, <1>3, CountedApart
<1> QED BY <1>2, <1>4, FS_EmptySet DEF Having, A, B, C

\* What is counted where: of the statistics kept, and of none.
LEMMA CountedApartBy ==
  /\ stay # Departed => CountedIn(stay) = {w \in Workers : w.stats = stay}
  /\ CountedIn(Departed) = {w \in Workers : w.stats # stay \/ stay = Departed}
  /\ \A s \in Numbers : s \notin {stay, Departed} => CountedIn(s) = {}
BY DEF CountedIn, countedLocked, Retired

LEMMA RetireKeeps ==
  ASSUME WorkersInv, Retire, UNCHANGED maxWorkers
  PROVE  WorkersInv'
<1> DEFINE gone == {i \in DOMAIN idle : idle[i].stats = stay}
           n == Cardinality(gone)
           moved == [tally EXCEPT ![stay] = [f \in DOMAIN @ |-> 0],
                                  ![Departed] = [f \in DOMAIN @ |-> @[f] + tally[stay][f]]]
<1>1. /\ idle \in Seq(Workers) /\ live \in Nat /\ maxWorkers \in Nat /\ live <= maxWorkers
      /\ tally \in TallyStates /\ TalliesKept /\ PlacesKept /\ IdleKept
      /\ stay \in Numbers /\ Departed \in Numbers
  <2>1. reloads + 1 <= MaxRetained + 1 /\ reloads \in Nat /\ stay \in 0..(reloads + 1) /\ MaxRetained \in Nat
    BY PythonAssumption DEF WorkersInv, WorkersTyped
  <2>2. stay \in Numbers /\ Departed \in Numbers
    BY <2>1 DEF Numbers, Departed
  <2> QED BY <2>2 DEF WorkersInv, WorkersTyped
<1>2. "retire" \in pending /\ stay # Departed /\ script = {}
  BY DEF Retire, WorkersInv, StayFollows
<1>3. gone = DOMAIN idle
  BY <1>1 DEF IdleKept, Retired
<1>4. /\ stay' = Departed /\ UNCHANGED <<script, under, reloads, obsolete, maxWorkers>>
      /\ pending' = pending \ {"retire"}
      /\ tally' = [moved EXCEPT ![Departed].alive = @ - n]
      /\ idle' = IdleWithout(gone) /\ live' = live - n /\ notifyLocked(run, n)
  <2>1. {i \in DOMAIN idle : i \in gone} = gone
    OBVIOUS
  <2> QED BY <2>1 DEF Retire, Stops
<1>5. n = Len(idle) /\ n \in Nat
  <2>1. DOMAIN idle = 1..Len(idle) /\ Len(idle) \in Nat
    BY <1>1
  <2>2. PICK l \in Nat : l = Len(idle)
    BY <2>1
  <2>3. Cardinality(1..l) = l
    <3>1. Cardinality(1..l) = IF 1 > l THEN 0 ELSE l - 1 + 1
      BY FS_Interval
    <3> QED BY <3>1
  <2> QED BY <1>3, <2>1, <2>2, <2>3
<1> HIDE DEF n
<1>6. idle' = <<>> /\ idle' \in Seq(Workers) /\ Len(idle') = 0 /\ DOMAIN idle' = {}
  <2>1. DOMAIN idle \ gone = {} /\ Cardinality({}) = 0
    BY <1>3, FS_EmptySet
  <2>2. gone \in SUBSET DOMAIN idle
    BY <1>3
  <2>3. IdleWithout(gone) \in Seq(Workers) /\ Len(IdleWithout(gone)) = Cardinality(DOMAIN idle \ gone)
    <3>1. PICK X : X = gone
      OBVIOUS
    <3>2. X \in SUBSET DOMAIN idle
      BY <2>2, <3>1
    <3>3. IdleWithout(X) \in Seq(Workers) /\ Len(IdleWithout(X)) = Cardinality(DOMAIN idle \ X)
      BY <1>1, <3>2, LeftIdle
    <3> QED BY <3>1, <3>3
  <2>4. idle' \in Seq(Workers) /\ Len(idle') = 0
    BY <1>4, <2>1, <2>3
  <2>5. idle' = <<>>
    BY <2>4, EmptySeq
  <2> QED BY <2>4, <2>5
<1>7. RunsStayed(n)
  BY <1>4, <1>5, Stayed
<1>8. NoWakeLost'
  <2>1. Len(idle') = Len(idle) - n
    BY <1>5, <1>6
  <2> QED BY <1>4, <1>5, <1>7, <2>1, WakesStay
<1>9. PlacesKept' /\ live' \in Nat /\ live' <= maxWorkers'
  <2>1. /\ Having(run', "starting", Workers) = Having(run, "starting", Workers)
        /\ Having(run', "busy", Workers) = Having(run, "busy", Workers)
        /\ Having(run, "starting", Workers) \in Nat /\ Having(run, "busy", Workers) \in Nat
    BY <1>7 DEF RunsStayed
  <2>2. live = Having(run, "starting", Workers) + Having(run, "busy", Workers) + n
    BY <1>1, <1>5 DEF PlacesKept
  <2>3. live' = Having(run, "starting", Workers) + Having(run, "busy", Workers)
    BY <1>4, <1>5, <2>1, <2>2
  <2>4. live' = Having(run', "starting", Workers) + Having(run', "busy", Workers) + Len(idle')
    BY <1>6, <2>1, <2>3
  <2>5. live' \in Nat /\ live' <= maxWorkers'
    BY <1>1, <1>4, <1>5, <2>1, <2>3
  <2>6. Workers' = Workers
    BY DEF Workers
  <2> QED BY <2>4, <2>5, <2>6 DEF PlacesKept
<1> HIDE DEF gone
<1>10. ASSUME NEW s \in Numbers
       PROVE  /\ tally'[s] \in [starting : Int, busy : Int, alive : Int]
              /\ s = Departed =>
                   /\ tally'[s].starting = tally[Departed].starting + tally[stay].starting
                   /\ tally'[s].busy = tally[Departed].busy + tally[stay].busy
                   /\ tally'[s].alive = tally[Departed].alive + tally[stay].alive - n
              /\ s = stay => tally'[s].starting = 0 /\ tally'[s].busy = 0 /\ tally'[s].alive = 0
              /\ s \notin {stay, Departed} => tally'[s] = tally[s]
  <2>1. /\ tally[s] \in [starting : Int, busy : Int, alive : Int]
        /\ tally[stay] \in [starting : Int, busy : Int, alive : Int]
        /\ tally[Departed] \in [starting : Int, busy : Int, alive : Int]
    BY <1>1 DEF TallyStates
  <2>2. /\ DOMAIN tally[stay] = {"starting", "busy", "alive"}
        /\ DOMAIN tally[Departed] = {"starting", "busy", "alive"}
    BY <2>1
  <2>3. CASE s = Departed
    <3>1. tally'[s] = [[f \in DOMAIN tally[Departed] |-> tally[Departed][f] + tally[stay][f]] EXCEPT !.alive = @ - n]
      BY <1>1, <1>2, <1>4, <2>3 DEF TallyStates
    <3>2. PICK g : g = [f \in DOMAIN tally[Departed] |-> tally[Departed][f] + tally[stay][f]]
      OBVIOUS
    <3>3. /\ DOMAIN g = {"starting", "busy", "alive"}
          /\ g.starting = tally[Departed].starting + tally[stay].starting
          /\ g.busy = tally[Departed].busy + tally[stay].busy
          /\ g.alive = tally[Departed].alive + tally[stay].alive
      BY <2>2, <3>2
    <3>4. g = [starting |-> g.starting, busy |-> g.busy, alive |-> g.alive]
      BY <3>2, <3>3
    <3>5. g \in [starting : Int, busy : Int, alive : Int]
      <4>1. g.starting \in Int /\ g.busy \in Int /\ g.alive \in Int
        BY <2>1, <3>3
      <4> QED BY <3>4, <4>1
    <3>6. tally'[s] = [g EXCEPT !.alive = @ - n]
      BY <3>1, <3>2
    <3>7. /\ tally'[s].starting = g.starting /\ tally'[s].busy = g.busy /\ tally'[s].alive = g.alive - n
      BY <1>5, <3>5, <3>6
    <3>8. tally'[s] \in [starting : Int, busy : Int, alive : Int]
      BY <1>5, <3>5, <3>6
    <3>9. s # stay /\ s \in {stay, Departed}
      BY <1>2, <2>3
    <3>10. PICK p \in Int : p = tally[Departed].alive
      BY <2>1
    <3>11. PICK q \in Int : q = tally[stay].alive
      BY <2>1
    <3>12. (p + q) - n = p + (q - n)
      BY <1>5, <3>10, <3>11
    <3>13. tally'[s].alive = tally[Departed].alive + tally[stay].alive - n
      BY <3>3, <3>7, <3>10, <3>11, <3>12
    <3>14. /\ tally'[s].starting = tally[Departed].starting + tally[stay].starting
           /\ tally'[s].busy = tally[Departed].busy + tally[stay].busy
      BY <3>3, <3>7
    <3> QED BY <3>8, <3>9, <3>13, <3>14
  <2>4. CASE s = stay
    <3>1. tally'[s] = [f \in DOMAIN tally[stay] |-> 0]
      BY <1>1, <1>2, <1>4, <2>4 DEF TallyStates
    <3>2. tally'[s] = [starting |-> 0, busy |-> 0, alive |-> 0]
      BY <2>2, <3>1
    <3> QED BY <1>2, <2>4, <3>2
  <2>5. CASE s \notin {stay, Departed}
    <3>1. tally'[s] = tally[s]
      BY <1>1, <1>4, <2>5 DEF TallyStates
    <3> QED BY <2>1, <2>5, <3>1
  <2> QED BY <2>3, <2>4, <2>5
<1>11. tally' \in TallyStates
  <2>1. tally' = [s \in Numbers |-> tally'[s]]
    BY <1>1, <1>4 DEF TallyStates
  <2> QED BY <1>10, <2>1 DEF TallyStates
<1>12. TalliesKept'
  <2>1. CountedIn(Departed)' = Workers /\ \A s \in Numbers : s # Departed => CountedIn(s)' = {}
    <3>1. \A s : CountedIn(s)' = {w \in Workers : Departed = s}
      BY <1>4 DEF CountedIn, countedLocked, Retired, Workers
    <3> QED BY <3>1
  <2>2. PICK V : V = CountedIn(stay)
    OBVIOUS
  <2>3. PICK U : U = CountedIn(Departed)
    OBVIOUS
  <2>4. V \cup U = Workers /\ V \cap U = {}
    BY <1>2, <2>2, <2>3, CountedApartBy
  <2>5. \A where \in {"starting", "busy"} :
          /\ Having(run', where, Workers) = Having(run, where, V) + Having(run, where, U)
          /\ Having(run', where, {}) = 0 /\ Having(run, where, V) \in Nat /\ Having(run, where, U) \in Nat
    <3> SUFFICES ASSUME NEW where \in {"starting", "busy"}
                 PROVE  /\ Having(run', where, Workers) = Having(run, where, V) + Having(run, where, U)
                        /\ Having(run', where, {}) = 0
                        /\ Having(run, where, V) \in Nat /\ Having(run, where, U) \in Nat
      OBVIOUS
    <3>1. /\ Having(run', where, Workers) = Having(run, where, Workers)
          /\ Having(run', where, {}) = Having(run, where, {})
      BY <1>7 DEF RunsStayed
    <3>2. /\ Having(run, where, V) \in Nat /\ Having(run, where, U) \in Nat
          /\ Having(run, where, V \cup U) = Having(run, where, V) + Having(run, where, U)
          /\ Having(run, where, {}) = 0
      BY <2>4, HavingParted
    <3> QED BY <2>4, <3>1, <3>2
  <2>6. /\ CountIn(idle, V) \in Nat /\ CountIn(idle, U) \in Nat /\ n = CountIn(idle, V) + CountIn(idle, U)
    <3>1. /\ CountIn(idle, V) \in Nat /\ CountIn(idle, U) \in Nat
          /\ CountIn(idle, V \cup U) = CountIn(idle, V) + CountIn(idle, U)
      BY <1>1, <2>4, CountsApart
    <3>2. CountIn(idle, Workers) = Len(idle)
      BY <1>1, CountsAll
    <3> QED BY <1>5, <2>4, <3>1, <3>2
  <2>7. \A W : CountIn(idle', W) = 0
    <3>1. \A W : {i \in DOMAIN idle' : idle'[i] \in W} = {}
      BY <1>6
    <3> QED BY <3>1, FS_EmptySet DEF CountIn
  <2>8. /\ tally[stay].starting = Having(run, "starting", V) /\ tally[Departed].starting = Having(run, "starting", U)
        /\ tally[stay].busy = Having(run, "busy", V) /\ tally[Departed].busy = Having(run, "busy", U)
        /\ tally[stay].alive = Having(run, "busy", V) + CountIn(idle, V)
        /\ tally[Departed].alive = Having(run, "busy", U) + CountIn(idle, U)
    BY <1>1, <2>2, <2>3 DEF TalliesKept
  <2>9. /\ tally'[Departed].starting = Having(run', "starting", Workers)
        /\ tally'[Departed].busy = Having(run', "busy", Workers)
        /\ tally'[Departed].alive = Having(run', "busy", Workers) + CountIn(idle', Workers)
    <3>1. /\ tally'[Departed].starting = tally[Departed].starting + tally[stay].starting
          /\ tally'[Departed].busy = tally[Departed].busy + tally[stay].busy
          /\ tally'[Departed].alive = tally[Departed].alive + tally[stay].alive - n
      BY <1>1, <1>10
    <3>2. tally'[Departed].starting = Having(run', "starting", Workers)
      BY <2>5, <2>8, <3>1
    <3>3. tally'[Departed].busy = Having(run', "busy", Workers)
      BY <2>5, <2>8, <3>1
    <3>4. Having(run', "busy", Workers) = Having(run, "busy", V) + Having(run, "busy", U)
          /\ Having(run, "busy", V) \in Nat /\ Having(run, "busy", U) \in Nat
      BY <2>5
    <3>5. tally'[Departed].alive = Having(run, "busy", V) + Having(run, "busy", U) + 0
      BY <2>6, <2>8, <3>1, <3>4
    <3> QED BY <2>7, <3>2, <3>3, <3>4, <3>5
  <2>10. ASSUME NEW s \in Numbers, s # Departed
         PROVE  tally'[s].starting = 0 /\ tally'[s].busy = 0 /\ tally'[s].alive = 0
    <3>1. CASE s = stay
      BY <1>10, <3>1
    <3>2. CASE s # stay
      <4>1. CountedIn(s) = {} /\ tally'[s] = tally[s]
        BY <1>10, <2>10, <3>2, CountedApartBy
      <4>2. Having(run, "starting", {}) = 0 /\ Having(run, "busy", {}) = 0
        BY <2>4, HavingParted
      <4>3. CountIn(idle, {}) = 0
        <5>1. {i \in DOMAIN idle : idle[i] \in {}} = {}
          OBVIOUS
        <5> QED BY <5>1, FS_EmptySet DEF CountIn
      <4>4. /\ tally[s].starting = Having(run, "starting", {}) /\ tally[s].busy = Having(run, "busy", {})
            /\ tally[s].alive = Having(run, "busy", {}) + CountIn(idle, {})
        BY <1>1, <4>1 DEF TalliesKept
      <4> QED BY <4>1, <4>2, <4>3, <4>4
    <3> QED BY <3>1, <3>2
  <2>11. ASSUME NEW s \in Numbers
         PROVE  /\ tally'[s].starting = Having(run', "starting", CountedIn(s)')
                /\ tally'[s].busy = Having(run', "busy", CountedIn(s)')
                /\ tally'[s].alive = Having(run', "busy", CountedIn(s)') + CountIn(idle', CountedIn(s)')
    <3>1. CASE s = Departed
      BY <2>1, <2>9, <3>1
    <3>2. CASE s # Departed
      BY <2>1, <2>5, <2>7, <2>10, <3>2
    <3> QED BY <3>1, <3>2
  <2> QED BY <2>11 DEF TalliesKept
<1>13. IdleKept'
  <2>1. \A k : CountIn(idle', OfScript(k)') = 0
    <3>1. \A W : {i \in DOMAIN idle' : idle'[i] \in W} = {}
      BY <1>6
    <3> QED BY <3>1, FS_EmptySet DEF CountIn
  <2>2. (\A k \in Scripts : CountIn(idle, OfScript(k)) <= MaxIdle)'
    BY <2>1, PythonAssumption
  <2>3. \A k \in obsolete' : Busy(run', k) # {}
    <3> SUFFICES ASSUME NEW k \in obsolete' PROVE Busy(run', k) # {}
      OBVIOUS
    <3>1. PICK q \in Busy(run, k) : TRUE
      BY <1>1, <1>4 DEF IdleKept
    <3> QED BY <1>7, <3>1 DEF RunsStayed, Woken, Busy
  <2>4. (\A k \in obsolete : Busy(run, k) # {} /\ \A i \in DOMAIN idle : idle[i].script # k)'
    <3>1. \A k : Busy(run, k)' = Busy(run', k)
      BY DEF Busy
    <3> QED BY <1>6, <2>3, <3>1
  <2>5. (\A i \in DOMAIN idle : ~Retired(idle[i].stats))'
    BY <1>6
  <2> QED BY <2>2, <2>4, <2>5 DEF IdleKept
<1>14. WorkersTyped'
  <2>1. \A q \in Runs : run'[q].at # "away" => run[q].at # "away" /\ run'[q].of = run[q].of
    BY <1>7 DEF RunsStayed, Woken
  <2>2. \A q \in Runs : run'[q].at # "away" => run'[q].of.stats <= reloads' + 1
    BY <1>4, <2>1 DEF WorkersInv, WorkersTyped
  <2>3. run' \in [Runs -> RunStates] /\ line' \in Seq(Runs)
    BY <1>7 DEF RunsStayed
  <2>4. reloads \in Nat /\ stay' \in 0..(reloads' + 1)
    <3>1. reloads \in Nat
      BY PythonAssumption DEF WorkersInv, WorkersTyped
    <3> QED BY <1>4, <3>1 DEF Departed
  <2> QED BY <1>4, <1>6, <1>9, <1>11, <2>2, <2>3, <2>4 DEF WorkersInv, WorkersTyped
<1>15. StayFollows' /\ LineOf(line, run)'
  BY <1>2, <1>4, <1>7 DEF StayFollows, RunsStayed, LineOf
<1> QED BY <1>8, <1>9, <1>12, <1>13, <1>14, <1>15 DEF WorkersInv

\* A reload changes no count, for no worker is of statistics made with it.
LEMMA ReloadKeeps ==
  ASSUME WorkersInv, NEW to \in {{}} \cup {{k} : k \in Scripts}, reloadScript(to), UNCHANGED maxWorkers
  PROVE  WorkersInv'
<1>1. /\ pending = {} /\ reloads < MaxRetained /\ to # script /\ reloads' = reloads + 1 /\ script' = to
      /\ stay' = (IF script = {} THEN reloads' + 1 ELSE stay)
      /\ under' = [k \in Scripts |-> IF k \in to THEN stay' ELSE under[k]]
      /\ pending' = IF to = {} THEN {"retain", "retire"} ELSE {"retain"}
      /\ UNCHANGED <<run, idle, line, live, obsolete, tally, maxWorkers>>
  BY DEF reloadScript
<1>2. /\ reloads \in 0..MaxRetained /\ MaxRetained \in Nat /\ stay \in 0..(reloads + 1)
      /\ run \in [Runs -> RunStates] /\ under \in [Scripts -> 0..(reloads + 1)]
      /\ \A r \in Runs : run[r].at # "away" => run[r].of.stats <= reloads + 1
      /\ idle \in Seq(Workers) /\ IdleKept /\ TalliesKept /\ StayFollows
  BY PythonAssumption DEF WorkersInv, WorkersTyped
<1>3. /\ reloads' \in 0..MaxRetained /\ stay' \in 0..(reloads' + 1)
      /\ under' \in [Scripts -> 0..(reloads' + 1)]
  <2>1. reloads' \in 0..MaxRetained /\ stay' \in 0..(reloads' + 1)
    BY <1>1, <1>2
  <2>2. \A x \in 0..(reloads + 1) : x \in 0..(reloads' + 1)
    BY <1>1, <1>2
  <2> QED BY <1>1, <1>2, <2>1, <2>2
<1>4. \A r \in Runs : run[r].at # "away" => run[r].of \in Workers /\ run[r].of.stats \in Nat
  <2> SUFFICES ASSUME NEW r \in Runs, run[r].at # "away"
               PROVE  run[r].of \in Workers /\ run[r].of.stats \in Nat
    OBVIOUS
  <2>1. run[r] \in [at : Doing, of : Workers, reused : BOOLEAN]
    BY <1>2 DEF RunStates, Away
  <2> QED BY <2>1 DEF Workers, Numbers
<1>5. WorkersTyped'
  <2>1. \A r \in Runs : run'[r].at # "away" => run'[r].of.stats <= reloads' + 1
    BY <1>1, <1>2, <1>4
  <2>2. script' \in SUBSET Scripts
    BY <1>1
  <2>3. /\ maxWorkers' \in Nat /\ live' \in Nat /\ idle' \in Seq(Workers) /\ line' \in Seq(Runs)
        /\ obsolete' \in SUBSET Scripts /\ tally' \in TallyStates /\ run' \in [Runs -> RunStates]
    BY <1>1 DEF WorkersInv, WorkersTyped
  <2> QED BY <1>3, <2>1, <2>2, <2>3 DEF WorkersTyped
<1>6. StayFollows'
  <2>1. "retire" \in pending' <=> to = {}
    BY <1>1
  <2>2. stay = Departed <=> script = {}
    BY <1>1, <1>2 DEF StayFollows
  <2>3. stay' # Departed
    <3>1. reloads' + 1 # 0
      BY <1>1, <1>2
    <3> QED BY <1>1, <2>2, <3>1 DEF Departed
  <2> QED BY <1>1, <2>1, <2>3 DEF StayFollows
<1>7. script = {} => idle = <<>>
  <2> SUFFICES ASSUME script = {} PROVE idle = <<>>
    OBVIOUS
  <2>1. stay = Departed
    BY <1>1, <1>2 DEF StayFollows
  <2>2. \A i \in DOMAIN idle : Retired(idle[i].stats)
    BY <2>1 DEF Retired
  <2>3. DOMAIN idle = {} /\ DOMAIN idle = 1..Len(idle) /\ Len(idle) \in Nat
    BY <1>2, <2>2 DEF IdleKept
  <2>4. Len(idle) = 0
    <3>1. Len(idle) # 0 => 1 \in 1..Len(idle)
      BY <2>3
    <3> QED BY <2>3, <3>1
  <2> QED BY <1>2, <2>4, EmptySeq
<1>8. IdleKept'
  <2>1. \A k : OfScript(k)' = OfScript(k) /\ Busy(run, k)' = Busy(run, k)
    BY <1>1 DEF OfScript, Workers, Busy
  <2>2. (\A i \in DOMAIN idle : ~Retired(idle[i].stats))'
    <3>1. CASE script = {}
      <4>1. DOMAIN idle' = {}
        BY <1>1, <1>7, <3>1
      <4> QED BY <4>1
    <3>2. CASE script # {}
      <4>1. stay' = stay
        BY <1>1, <3>2
      <4> QED BY <1>1, <1>2, <4>1 DEF IdleKept, Retired
    <3> QED BY <3>1, <3>2
  <2>3. (\A k \in Scripts : CountIn(idle, OfScript(k)) <= MaxIdle)'
    BY <1>1, <1>2, <2>1 DEF IdleKept
  <2>4. (\A k \in obsolete : Busy(run, k) # {} /\ \A i \in DOMAIN idle : idle[i].script # k)'
    BY <1>1, <1>2, <2>1 DEF IdleKept
  <2> QED BY <2>2, <2>3, <2>4 DEF IdleKept
<1>9. ASSUME NEW s \in Numbers
      PROVE  /\ \A where \in {"starting", "busy"} :
                  HavingAt(run, where, CountedIn(s)') = HavingAt(run, where, CountedIn(s))
             /\ CountIn(idle, CountedIn(s)') = CountIn(idle, CountedIn(s))
  <2>1. CASE script # {}
    <3>1. CountedIn(s)' = CountedIn(s)
      BY <1>1, <2>1, CountedSame
    <3> QED BY <3>1
  <2>2. CASE script = {}
    <3>1. stay = Departed /\ stay' = reloads + 2
      BY <1>1, <1>2, <2>2 DEF StayFollows
    <3>2. ASSUME NEW w \in Workers, w.stats <= reloads + 1, w.stats \in Nat
          PROVE  w \in CountedIn(s)' <=> w \in CountedIn(s)
      <4>1. w.stats # reloads + 2
        BY <1>2, <3>2
      <4>2. w \in CountedIn(s) <=> Departed = s
        BY <3>1 DEF CountedIn, countedLocked, Retired
      <4>3. w \in CountedIn(s)' <=> Departed = s
        BY <3>1, <4>1 DEF CountedIn, countedLocked, Retired, Workers
      <4> QED BY <4>2, <4>3
    <3>3. ASSUME NEW where \in {"starting", "busy"}
          PROVE  HavingAt(run, where, CountedIn(s)') = HavingAt(run, where, CountedIn(s))
      <4>1. ASSUME NEW r \in Runs, run[r].at = where
            PROVE  run[r].of \in CountedIn(s)' <=> run[r].of \in CountedIn(s)
        <5>1. run[r].at # "away"
          BY <4>1
        <5> QED BY <1>2, <1>4, <3>2, <5>1
      <4> QED BY <4>1 DEF HavingAt
    <3>4. DOMAIN idle = {}
      BY <1>7, <2>2
    <3>5. \A V : {i \in DOMAIN idle : idle[i] \in V} = {}
      BY <3>4
    <3> QED BY <3>3, <3>5 DEF CountIn
  <2> QED BY <2>1, <2>2
<1>10. TalliesKept'
  <2>1. ASSUME NEW s \in Numbers
        PROVE  /\ tally'[s].starting = Having(run', "starting", CountedIn(s)')
               /\ tally'[s].busy = Having(run', "busy", CountedIn(s)')
               /\ tally'[s].alive = Having(run', "busy", CountedIn(s)') + CountIn(idle', CountedIn(s)')
    <3>1. /\ tally[s].starting = Having(run, "starting", CountedIn(s))
          /\ tally[s].busy = Having(run, "busy", CountedIn(s))
          /\ tally[s].alive = Having(run, "busy", CountedIn(s)) + CountIn(idle, CountedIn(s))
      BY <1>2 DEF TalliesKept
    <3>2. \A where \in {"starting", "busy"} :
            Having(run', where, CountedIn(s)') = Having(run, where, CountedIn(s))
      BY <1>1, <1>9 DEF Having
    <3>3. CountIn(idle', CountedIn(s)') = CountIn(idle, CountedIn(s))
      BY <1>1, <1>9
    <3> QED BY <1>1, <3>1, <3>2, <3>3
  <2> QED BY <2>1 DEF TalliesKept
<1>11. PlacesKept' /\ live' <= maxWorkers' /\ NoWakeLost' /\ LineOf(line, run)'
  <2>1. Workers' = Workers
    BY DEF Workers
  <2> QED BY <1>1, <2>1 DEF WorkersInv, PlacesKept, NoWakeLost, Are, LineOf, Having, HavingAt
<1> QED BY <1>5, <1>6, <1>8, <1>10, <1>11 DEF WorkersInv

LEMMA PythonInitInv == PythonInit => WorkersInv
<1> SUFFICES ASSUME PythonInit PROVE WorkersInv
  OBVIOUS
<1>1. /\ script \in {{}} \cup {{k} : k \in Scripts} /\ stay = (IF script = {} THEN Departed ELSE 1)
      /\ under = [k \in Scripts |-> IF k \in script THEN stay ELSE Departed]
      /\ pending = {} /\ reloads = 0 /\ run = [r \in Runs |-> Away]
      /\ maxWorkers \in Nat /\ idle = <<>> /\ line = <<>> /\ live = 0 /\ obsolete = {}
      /\ tally = [s \in Numbers |-> [starting |-> 0, busy |-> 0, alive |-> 0]]
      /\ MaxRetained \in Nat /\ MaxIdle \in Nat
  BY PythonAssumption DEF PythonInit
<1>2. WorkersTyped
  <2>1. stay \in 0..(reloads + 1) /\ reloads \in 0..MaxRetained
    BY <1>1 DEF Departed
  <2>2. under \in [Scripts -> 0..(reloads + 1)]
    BY <1>1, <2>1 DEF Departed
  <2>3. run \in [Runs -> RunStates] /\ \A r \in Runs : run[r].at = "away"
    BY <1>1 DEF RunStates, Away
  <2>4. tally \in TallyStates
    BY <1>1 DEF TallyStates
  <2>5. script \in SUBSET Scripts /\ obsolete \in SUBSET Scripts /\ live \in Nat
    BY <1>1
  <2>6. idle \in Seq(Workers) /\ line \in Seq(Runs)
    BY <1>1
  <2> QED BY <1>1, <2>1, <2>2, <2>3, <2>4, <2>5, <2>6 DEF WorkersTyped
<1>3. StayFollows
  BY <1>1 DEF StayFollows, Departed
<1>4. \A V : /\ Having(run, "starting", V) = 0 /\ Having(run, "busy", V) = 0
             /\ CountIn(idle, V) = 0
  <2>1. \A V : HavingAt(run, "starting", V) = {} /\ HavingAt(run, "busy", V) = {}
    BY <1>1 DEF HavingAt, Away
  <2>2. DOMAIN idle = {}
    BY <1>1
  <2>3. \A V : {i \in DOMAIN idle : idle[i] \in V} = {}
    BY <2>2
  <2> QED BY <2>1, <2>3, FS_EmptySet DEF Having, CountIn
<1>5. LineOf(line, run)
  BY <1>1 DEF LineOf, IsInjective, ToSet, Away
<1>6. PlacesKept /\ live <= maxWorkers
  <2>1. Len(idle) = 0
    BY <1>1
  <2> QED BY <1>1, <1>4, <2>1 DEF PlacesKept
<1>7. TalliesKept
  BY <1>1, <1>4 DEF TalliesKept
<1>8. IdleKept
  BY <1>1, <1>4 DEF IdleKept
<1>9. NoWakeLost
  BY <1>1 DEF NoWakeLost
<1> QED BY <1>2, <1>3, <1>5, <1>6, <1>7, <1>8, <1>9 DEF WorkersInv

LEMMA PythonStepKeeps == WorkersInv /\ [PythonNext]_pvars => WorkersInv'
<1> SUFFICES ASSUME WorkersInv, [PythonNext]_pvars PROVE WorkersInv'
  OBVIOUS
<1>1. ASSUME NEW r \in Runs, NEW k \in Scripts, NEW s \in Numbers, begin(r, k, s), UNCHANGED maxWorkers
      PROVE  WorkersInv'
  BY <1>1, BeginKeeps
<1>2. ASSUME NEW r \in Runs, acquireWorker(r), UNCHANGED maxWorkers PROVE WorkersInv'
  BY <1>2, AcquireKeeps
<1>3. ASSUME NEW r \in Runs, leaveLine(r), UNCHANGED maxWorkers PROVE WorkersInv'
  BY <1>3, LeaveKeeps
<1>4. ASSUME NEW r \in Runs, workerStarted(r), UNCHANGED maxWorkers PROVE WorkersInv'
  BY <1>4, StartedKeeps
<1>5. ASSUME NEW r \in Runs, discard(r), UNCHANGED maxWorkers PROVE WorkersInv'
  BY <1>5, DiscardKeeps
<1>6. ASSUME NEW r \in Runs, releaseWorker(r), UNCHANGED maxWorkers PROVE WorkersInv'
  BY <1>6, ReleaseKeeps
<1>7. ASSUME NEW n \in DOMAIN idle, reap(n), UNCHANGED maxWorkers PROVE WorkersInv'
  BY <1>7, ReapKeeps
<1>8. ASSUME NEW to \in {{}} \cup {{k} : k \in Scripts}, reloadScript(to), UNCHANGED maxWorkers
      PROVE  WorkersInv'
  BY <1>8, ReloadKeeps
<1>9. ASSUME Retain, UNCHANGED maxWorkers PROVE WorkersInv'
  BY <1>9, RetainKeeps
<1>10. ASSUME Retire, UNCHANGED maxWorkers PROVE WorkersInv'
  BY <1>10, RetireKeeps
<1>11. CASE UNCHANGED pvars
  <2>1. UNCHANGED <<script, stay, under, pending, reloads, run, maxWorkers, idle, line, live, obsolete, tally>>
    BY <1>11 DEF pvars, ofReloads
  <2>2. (WorkersTyped /\ StayFollows /\ LineOf(line, run) /\ live <= maxWorkers /\ NoWakeLost)'
    BY <2>1 DEF WorkersInv, WorkersTyped, StayFollows, LineOf, NoWakeLost, Are
  <2>3. /\ Workers' = Workers /\ \A s : CountedIn(s)' = CountedIn(s)
        /\ \A k : OfScript(k)' = OfScript(k) /\ Busy(run, k)' = Busy(run, k)
    BY <2>1, CountedSame DEF Workers, OfScript, Busy
  <2>4. PlacesKept'
    BY <2>1, <2>3 DEF WorkersInv, PlacesKept, Having, HavingAt
  <2>5. TalliesKept'
    BY <2>1, <2>3 DEF WorkersInv, TalliesKept, Having, HavingAt, CountIn
  <2>6. IdleKept'
    BY <2>1, <2>3 DEF WorkersInv, IdleKept, Retired, CountIn
  <2> QED BY <2>2, <2>4, <2>5, <2>6 DEF WorkersInv
<1> QED BY <1>1, <1>2, <1>3, <1>4, <1>5, <1>6, <1>7, <1>8, <1>9, <1>10, <1>11 DEF PythonNext, PythonSteps

LEMMA WorkersAreServed == WorkersInv => WorkersServe
<1> SUFFICES ASSUME WorkersInv PROVE WorkersServe
  OBVIOUS
<1>1. /\ idle \in Seq(Workers) /\ run \in [Runs -> RunStates] /\ tally \in TallyStates
      /\ PlacesKept /\ live <= maxWorkers /\ TalliesKept /\ IdleKept /\ NoWakeLost
  BY DEF WorkersInv, WorkersTyped
<1>2. \A r \in Runs : run[r].at \in {"starting", "busy"} => run[r].of \in Workers
  BY <1>1 DEF RunStates, Away
<1>3. \A where \in {"starting", "busy"} : Are(where) = HavingAt(run, where, Workers)
  BY <1>2 DEF Are, HavingAt
<1>4. PlacesCounted
  <2>1. live = Cardinality(Are("starting")) + Cardinality(Are("busy")) + Len(idle)
    BY <1>1, <1>3 DEF PlacesKept, Having
  <2>2. \A k \in Scripts : Cardinality(IdleWorkers(k)) <= MaxIdle
    BY <1>1, IdleOfScript DEF IdleKept
  <2>3. \A k \in obsolete : Busy(run, k) # {} /\ IdleWorkers(k) = {}
    BY <1>1 DEF IdleKept, IdleWorkers
  <2> QED BY <1>1, <2>1, <2>2, <2>3 DEF PlacesCounted
<1>5. CountsOfStay
  <2>1. ASSUME NEW s \in Numbers
        PROVE  LET of(where) == {r \in Are(where) : countedLocked(run[r].of.stats) = s}
                   its == {i \in DOMAIN idle : idle[i].stats = s}
               IN tally[s] = [starting |-> Cardinality(of("starting")),
                              busy |-> Cardinality(of("busy")),
                              alive |-> Cardinality(of("busy")) + Cardinality(its)]
    <3> DEFINE of(where) == {r \in Are(where) : countedLocked(run[r].of.stats) = s}
               its == {i \in DOMAIN idle : idle[i].stats = s}
    <3>1. of("starting") = HavingAt(run, "starting", CountedIn(s)) /\ of("busy") = HavingAt(run, "busy", CountedIn(s))
      BY <1>2 DEF Are, HavingAt, CountedIn
    <3>2. its = {i \in DOMAIN idle : idle[i] \in CountedIn(s)}
      <4>1. \A i \in DOMAIN idle : idle[i] \in Workers /\ ~Retired(idle[i].stats)
        BY <1>1 DEF IdleKept
      <4> QED BY <4>1 DEF CountedIn, countedLocked
    <3> HIDE DEF of, its
    <3>3. /\ tally[s].starting = Cardinality(of("starting")) /\ tally[s].busy = Cardinality(of("busy"))
          /\ tally[s].alive = Cardinality(of("busy")) + Cardinality(its)
      BY <1>1, <3>1, <3>2 DEF TalliesKept, Having, CountIn
    <3>4. tally[s] = [starting |-> tally[s].starting, busy |-> tally[s].busy, alive |-> tally[s].alive]
      <4>1. tally[s] \in [starting : Int, busy : Int, alive : Int]
        BY <1>1 DEF TallyStates
      <4> QED BY <4>1
    <3> QED BY <3>3, <3>4 DEF of, its
  <2> QED BY <1>1, <2>1 DEF CountsOfStay, IdleKept
<1> QED BY <1>1, <1>4, <1>5 DEF WorkersServe

\* WorkersServe: the pool counts its workers as they are, within its limits,
\* and no run waits for one it could have.
THEOREM WorkersAreServedAlways == PythonSpec => []WorkersServe
<1>1. PythonInit => WorkersInv
  BY PythonInitInv
<1>2. WorkersInv /\ [PythonNext]_pvars => WorkersInv'
  BY PythonStepKeeps
<1>3. WorkersInv => WorkersServe
  BY WorkersAreServed
<1> QED BY <1>1, <1>2, <1>3, PTL DEF PythonSpec

=============================================================================
