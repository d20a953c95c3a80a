--------------------------- MODULE CountingLemmas ---------------------------
(***************************************************************************)
(* What the proofs say of finite sets that are counted, of how many of a   *)
(* sequence are in a set, of sequences without repetition, of what is done *)
(* one step after another, of powers of two, quotients and sums. Nothing   *)
(* here is of one component.                                               *)
(***************************************************************************)
EXTENDS FiniteSetTheorems, SequenceTheorems, WellFoundedInduction, SequencesExt, Sums, TLAPS

-----------------------------------------------------------------------------
(* Finite sets. *)

\* Sets with nothing in common are counted one after the other.
LEMMA CountedApart ==
  ASSUME NEW H, IsFiniteSet(H), NEW P, IsFiniteSet(P), H \cap P = {}
  PROVE  /\ Cardinality(H) \in Nat /\ Cardinality(P) \in Nat
         /\ IsFiniteSet(H \cup P)
         /\ Cardinality(H \cup P) = Cardinality(H) + Cardinality(P)
<1>1. Cardinality(H) \in Nat /\ Cardinality(P) \in Nat /\ Cardinality({}) = 0
  BY FS_CardinalityType, FS_EmptySet
<1>2. /\ IsFiniteSet(H \cup P)
      /\ Cardinality(H \cup P) = Cardinality(H) + Cardinality(P) - Cardinality(H \cap P)
  BY FS_Union
<1>3. Cardinality(H \cap P) = 0
  BY <1>1
<1> QED BY <1>1, <1>2, <1>3

\* A set with no two is counted by none, or one.
LEMMA AtMostOne ==
  ASSUME NEW S, IsFiniteSet(S), ~(Cardinality(S) > 1)
  PROVE  \A p, q \in S : p = q
<1> SUFFICES ASSUME NEW p \in S, NEW q \in S, p # q PROVE FALSE
  OBVIOUS
<1>1. IsFiniteSet({p}) /\ Cardinality({p}) = 1 /\ IsFiniteSet({q}) /\ Cardinality({q}) = 1
  BY FS_Singleton
<1>2. Cardinality({p} \cup {q}) = 2
  BY <1>1, CountedApart
<1>3. Cardinality({p} \cup {q}) <= Cardinality(S) /\ Cardinality(S) \in Nat
  BY FS_Subset, FS_CardinalityType
<1> QED BY <1>2, <1>3

\* Points given up are counted: they are unaccounted for with those before.
LEMMA CountGone ==
  ASSUME NEW before, NEW after, NEW gone, IsFiniteSet(after),
         after = before \cup gone, before \cap gone = {}
  PROVE  /\ Cardinality(after) = Cardinality(before) + Cardinality(gone)
         /\ Cardinality(before) \in Nat /\ Cardinality(gone) \in Nat
<1>1. before \in SUBSET after /\ gone \in SUBSET after
  OBVIOUS
<1>2. IsFiniteSet(before) /\ IsFiniteSet(gone)
  BY <1>1, FS_Subset
<1> QED BY <1>2, CountedApart

\* One, if something holds.
OneIf(c) == IF c THEN 1 ELSE 0

\* Two sets that differ in one at most.
LEMMA CountedButOne ==
  ASSUME NEW S, IsFiniteSet(S), NEW A \in SUBSET S, NEW B \in SUBSET S, NEW r \in S,
         \A q \in S : q # r => (q \in A <=> q \in B)
  PROVE  /\ Cardinality(A) \in Nat /\ Cardinality(B) \in Nat
         /\ Cardinality(B) = Cardinality(A) + OneIf(r \in B) - OneIf(r \in A)
<1>1. IsFiniteSet(A) /\ IsFiniteSet(B)
  BY FS_Subset
<1>2. Cardinality(A) \in Nat /\ Cardinality(B) \in Nat
  BY <1>1, FS_CardinalityType
<1>3. CASE (r \in A) = (r \in B)
  <2>1. A = B
    BY <1>3
  <2> QED BY <1>2, <1>3, <2>1 DEF OneIf
<1>4. CASE r \in A /\ r \notin B
  <2>1. B = A \ {r}
    BY <1>4
  <2>2. Cardinality(B) = Cardinality(A) - 1
    BY <1>1, <1>4, <2>1, FS_RemoveElement
  <2> QED BY <1>2, <1>4, <2>2 DEF OneIf
<1>5. CASE r \notin A /\ r \in B
  <2>1. B = A \cup {r}
    BY <1>5
  <2>2. Cardinality(B) = Cardinality(A) + 1
    BY <1>1, <1>5, <2>1, FS_AddElement
  <2> QED BY <1>2, <1>5, <2>2 DEF OneIf
<1> QED BY <1>3, <1>4, <1>5

\* One set counted as another is that it corresponds to, one by one.
LEMMA CountedAlike ==
  ASSUME NEW S, IsFiniteSet(S), NEW T, NEW f \in [S -> T],
         \A s, t \in S : f[s] = f[t] => s = t,
         \A t \in T : \E s \in S : f[s] = t
  PROVE  IsFiniteSet(T) /\ Cardinality(T) = Cardinality(S)
<1>1. f \in Surjection(S, T)
  BY DEF Surjection
<1>2. f \in Injection(S, T)
  BY DEF Injection, IsInjective
<1> QED BY <1>1, <1>2, FS_Surjection

\* What a finite set of indices leads to is no more than the indices.
LEMMA LedTo ==
  ASSUME NEW I, IsFiniteSet(I), NEW f, DOMAIN f = I
  PROVE  LET T == {f[i] : i \in I}
         IN  IsFiniteSet(T) /\ Cardinality(T) <= Cardinality(I)
             /\ Cardinality(T) \in Nat /\ Cardinality(I) \in Nat
<1> DEFINE T == {f[i] : i \in I}
           g == [i \in I |-> f[i]]
<1>1. g \in Surjection(I, T)
  BY DEF Surjection
<1> HIDE DEF g, T
<1>2. IsFiniteSet(T) /\ Cardinality(T) <= Cardinality(I)
  BY <1>1, FS_Surjection
<1> QED BY <1>2, FS_CardinalityType DEF T

\* Numbers, any of them, have a least.
LEMMA LeastOf ==
  ASSUME NEW S \in SUBSET Nat, S # {}
  PROVE  \E n \in S : \A m \in S : n <= m
<1>1. PICK n \in S : \A m \in S : ~(<<m, n>> \in OpToRel(<, Nat))
  BY NatLessThanWellFounded, WFMin
<1>2. \A m \in S : ~(m < n)
  BY <1>1 DEF OpToRel
<1> QED BY <1>2

\* The members of a finite set of numbers are numbered in their order.
LEMMA Numbering ==
  ASSUME NEW S, S \subseteq Nat, IsFiniteSet(S)
  PROVE  LET place(s) == Cardinality({r \in S : r <= s})
         IN  /\ Cardinality(S) \in Nat
             /\ \A s \in S : place(s) \in 1..Cardinality(S)
             /\ \A s, t \in S : place(s) = place(t) => s = t
             /\ \A i \in 1..Cardinality(S) : \E s \in S : place(s) = i
<1> DEFINE upTo(s) == {r \in S : r <= s}
           place(s) == Cardinality(upTo(s))
           n == Cardinality(S)
           f == [s \in S |-> place(s)]
<1>1. n \in Nat
  BY FS_CardinalityType
<1>2. ASSUME NEW s \in S
      PROVE  IsFiniteSet(upTo(s)) /\ place(s) \in 1..n
  <2>1. upTo(s) \in SUBSET S /\ s \in upTo(s)
    OBVIOUS
  <2>2. IsFiniteSet(upTo(s)) /\ place(s) <= n
    BY <2>1, FS_Subset
  <2>3. place(s) \in Nat /\ place(s) # 0
    BY <2>1, <2>2, FS_CardinalityType, FS_EmptySet
  <2> QED BY <1>1, <2>2, <2>3
<1>3. ASSUME NEW s \in S, NEW t \in S, s < t
      PROVE  place(s) # place(t)
  <2>1. upTo(s) \in SUBSET upTo(t) /\ t \in upTo(t) /\ t \notin upTo(s)
    <3>1. s \in Nat /\ t \in Nat /\ \A r \in S : r \in Nat
      OBVIOUS
    <3>2. \A r \in S : r <= s => r <= t
      BY <1>3, <3>1
    <3>3. t <= t /\ ~(t <= s)
      BY <1>3, <3>1
    <3> QED BY <3>2, <3>3
  <2>2. place(t) = place(s) => upTo(t) = upTo(s)
    BY <1>2, <2>1, FS_Subset
  <2> QED BY <2>1, <2>2
<1>4. \A s, t \in S : place(s) = place(t) => s = t
  <2> SUFFICES ASSUME NEW s \in S, NEW t \in S, place(s) = place(t), s # t PROVE FALSE
    OBVIOUS
  <2>1. s < t \/ t < s
    OBVIOUS
  <2> QED BY <1>3, <2>1
<1> HIDE DEF place
<1>5. f \in Injection(S, 1..n)
  BY <1>2, <1>4 DEF Injection, IsInjective
<1>6. IsFiniteSet(1..n) /\ Cardinality(1..n) = n
  BY <1>1, FS_Interval
<1>7. f \in Surjection(S, 1..n)
  BY <1>5, <1>6, FS_Injection
<1>8. \A i \in 1..n : \E s \in S : place(s) = i
  BY <1>7 DEF Surjection
<1> QED BY <1>1, <1>2, <1>4, <1>8 DEF place

-----------------------------------------------------------------------------
(* How many of a sequence are in a set. *)

\* How many of a sequence are in a set.
CountIn(f, V) == Cardinality({i \in DOMAIN f : f[i] \in V})

\* One more at the end counts if it is in the set.
LEMMA CountsAppended ==
  ASSUME NEW W, NEW s \in Seq(W), NEW w \in W, NEW V
  PROVE  /\ CountIn(s, V) \in Nat
         /\ CountIn(Append(s, w), V) = CountIn(s, V) + OneIf(w \in V)
<1> DEFINE n == Len(s)
           A == {i \in DOMAIN s : s[i] \in V}
           B == {i \in DOMAIN Append(s, w) : Append(s, w)[i] \in V}
<1>1. n \in Nat /\ DOMAIN s = 1..n /\ DOMAIN Append(s, w) = 1..(n + 1)
  OBVIOUS
<1>2. IsFiniteSet(1..(n + 1)) /\ n + 1 \in 1..(n + 1)
  BY <1>1, FS_Interval
<1>3. \A i \in 1..(n + 1) : i # n + 1 => i \in 1..n /\ Append(s, w)[i] = s[i]
  BY <1>1
<1>4. Append(s, w)[n + 1] = w
  BY <1>1
<1>5. A \in SUBSET (1..(n + 1)) /\ B \in SUBSET (1..(n + 1))
      /\ n + 1 \notin A /\ (n + 1 \in B <=> w \in V)
  BY <1>1, <1>2, <1>4
<1>6. \A i \in 1..(n + 1) : i # n + 1 => (i \in A <=> i \in B)
  BY <1>1, <1>3
<1> HIDE DEF A, B
<1>7. Cardinality(A) \in Nat /\ Cardinality(B) = Cardinality(A) + OneIf(n + 1 \in B) - OneIf(n + 1 \in A)
  <2> DEFINE D == 1..(n + 1)
             r == n + 1
  <2>1. IsFiniteSet(D) /\ A \in SUBSET D /\ B \in SUBSET D /\ r \in D
    BY <1>2, <1>5
  <2>2. \A q \in D : q # r => (q \in A <=> q \in B)
    BY <1>6
  <2> HIDE DEF D, r
  <2>3. Cardinality(A) \in Nat /\ Cardinality(B) = Cardinality(A) + OneIf(r \in B) - OneIf(r \in A)
    BY <2>1, <2>2, CountedButOne
  <2> QED BY <2>3 DEF r
<1>8. Cardinality(B) = Cardinality(A) + OneIf(w \in V)
  BY <1>5, <1>7 DEF OneIf
<1> QED BY <1>7, <1>8 DEF CountIn, A, B

\* Without its first a sequence counts one less if that is in the set.
LEMMA CountsTail ==
  ASSUME NEW W, NEW s \in Seq(W), s # <<>>, NEW V
  PROVE  CountIn(Tail(s), V) = CountIn(s, V) - OneIf(Head(s) \in V)
<1> DEFINE n == Len(s)
           A == {i \in DOMAIN s : s[i] \in V}
           B == {i \in DOMAIN Tail(s) : Tail(s)[i] \in V}
           C == {i \in 2..n : s[i] \in V}
<1>1. n \in Nat \ {0} /\ DOMAIN s = 1..n /\ DOMAIN Tail(s) = 1..(n - 1) /\ Head(s) = s[1]
  OBVIOUS
<1>2. \A i \in 1..(n - 1) : Tail(s)[i] = s[i + 1]
  BY <1>1
<1>3. IsFiniteSet(1..n) /\ A \in SUBSET (1..n) /\ C \in SUBSET (1..n) /\ 1 \in 1..n
  <2>1. IsFiniteSet(1..n)
    BY <1>1, FS_Interval
  <2>2. A \in SUBSET (1..n) /\ C \in SUBSET (1..n) /\ 1 \in 1..n
    BY <1>1
  <2> QED BY <2>1, <2>2
<1>4. \A i \in 1..n : i # 1 => (i \in A <=> i \in C)
  BY <1>1
<1>5. 1 \notin C /\ (1 \in A <=> Head(s) \in V)
  BY <1>1
<1> DEFINE f == [i \in B |-> i + 1]
<1>6. /\ f \in [B -> C]
      /\ \A i, j \in B : f[i] = f[j] => i = j
      /\ \A j \in C : \E i \in B : f[i] = j
  <2>1. \A i \in B : i \in 1..(n - 1) /\ s[i + 1] \in V
    BY <1>1, <1>2
  <2>2. \A j \in C : j - 1 \in 1..(n - 1) /\ s[(j - 1) + 1] \in V
    BY <1>1
  <2>3. \A j \in C : j - 1 \in B /\ j = (j - 1) + 1
    BY <1>1, <1>2, <2>2
  <2>4. \A i \in B : i + 1 \in C
    BY <1>1, <2>1
  <2> HIDE DEF B, C
  <2>5. \A i \in B : i \in Int
    BY <1>1, <2>1
  <2> QED BY <2>3, <2>4, <2>5
<1>7. IsFiniteSet(B)
  <2>1. B \in SUBSET (1..(n - 1)) /\ IsFiniteSet(1..(n - 1))
    BY <1>1, FS_Interval
  <2> QED BY <2>1, FS_Subset
<1> HIDE DEF A, B, C, f
<1>8. Cardinality(C) = Cardinality(B)
  BY <1>6, <1>7, CountedAlike
<1>9. Cardinality(A) \in Nat /\ Cardinality(C) = Cardinality(A) + OneIf(1 \in C) - OneIf(1 \in A)
  <2> DEFINE D == 1..n
  <2>1. IsFiniteSet(D) /\ A \in SUBSET D /\ C \in SUBSET D /\ 1 \in D /\ \A q \in D : q # 1 => (q \in A <=> q \in C)
    BY <1>3, <1>4
  <2> HIDE DEF D
  <2> QED BY <2>1, CountedButOne
<1>10. Cardinality(B) = Cardinality(A) - OneIf(Head(s) \in V)
  BY <1>5, <1>8, <1>9 DEF OneIf
<1> QED BY <1>10 DEF CountIn, A, B

\* Of a sequence of its own members everything counts, and of one alike all or none.
LEMMA CountsAll ==
  ASSUME NEW W, NEW s \in Seq(W)
  PROVE  CountIn(s, W) = Len(s) /\ Len(s) \in Nat
<1>1. {i \in DOMAIN s : s[i] \in W} = 1..Len(s) /\ Len(s) \in Nat
  OBVIOUS
<1> DEFINE n == Len(s)
<1>2. Cardinality(1..n) = n
  <2>1. Cardinality(1..n) = IF 1 > n THEN 0 ELSE n - 1 + 1
    BY <1>1, FS_Interval
  <2> QED BY <1>1, <2>1
<1>3. CountIn(s, W) = Cardinality(1..n)
  BY <1>1 DEF CountIn
<1> QED BY <1>1, <1>2, <1>3

LEMMA CountsSame ==
  ASSUME NEW w, NEW n \in Nat, NEW V
  PROVE  CountIn([i \in 1..n |-> w], V) = IF w \in V THEN n ELSE 0
<1> DEFINE s == [i \in 1..n |-> w]
<1>1. {i \in DOMAIN s : s[i] \in V} = IF w \in V THEN 1..n ELSE {}
  OBVIOUS
<1>2. Cardinality(1..n) = n /\ Cardinality({}) = 0
  BY FS_Interval, FS_EmptySet
<1> QED BY <1>1, <1>2 DEF CountIn

\* Some of a sequence and the rest of it are counted apart.
CountsAt(s, X, V) == Cardinality({i \in X : s[i] \in V})

LEMMA CountsParted ==
  ASSUME NEW W, NEW s \in Seq(W), NEW gone \in SUBSET DOMAIN s, NEW V
  PROVE  /\ CountsAt(s, DOMAIN s \ gone, V) = CountIn(s, V) - CountsAt(s, gone, V)
         /\ CountIn(s, V) \in Nat /\ CountsAt(s, gone, V) \in Nat
         /\ CountsAt(s, DOMAIN s \ gone, V) \in Nat
<1> DEFINE A == {i \in DOMAIN s \ gone : s[i] \in V}
           B == {i \in gone : s[i] \in V}
           C == {i \in DOMAIN s : s[i] \in V}
<1>1. Len(s) \in Nat /\ DOMAIN s = 1..Len(s)
  OBVIOUS
<1>2. IsFiniteSet(DOMAIN s)
  BY <1>1, FS_Interval
<1>3. A \in SUBSET DOMAIN s /\ B \in SUBSET DOMAIN s /\ C = A \cup B /\ A \cap B = {}
  OBVIOUS
<1> HIDE DEF A, B, C
<1>4. IsFiniteSet(A) /\ IsFiniteSet(B)
  BY <1>2, <1>3, FS_Subset
<1>5. /\ Cardinality(A) \in Nat /\ Cardinality(B) \in Nat
      /\ Cardinality(C) = Cardinality(A) + Cardinality(B)
  BY <1>3, <1>4, CountedApart
<1> QED BY <1>5 DEF CountIn, CountsAt, A, B, C

\* The members of two sets with nothing in common are counted apart.
LEMMA CountsApart ==
  ASSUME NEW W, NEW s \in Seq(W), NEW V, NEW U, V \cap U = {}
  PROVE  /\ CountIn(s, V) \in Nat /\ CountIn(s, U) \in Nat
         /\ CountIn(s, V \cup U) = CountIn(s, V) + CountIn(s, U)
<1> DEFINE A == {i \in DOMAIN s : s[i] \in V}
           B == {i \in DOMAIN s : s[i] \in U}
           C == {i \in DOMAIN s : s[i] \in V \cup U}
<1>1. Len(s) \in Nat /\ DOMAIN s = 1..Len(s)
  OBVIOUS
<1>2. IsFiniteSet(DOMAIN s)
  BY <1>1, FS_Interval
<1>3. A \in SUBSET DOMAIN s /\ B \in SUBSET DOMAIN s /\ C = A \cup B /\ A \cap B = {}
  OBVIOUS
<1> HIDE DEF A, B, C
<1>4. IsFiniteSet(A) /\ IsFiniteSet(B)
  BY <1>2, <1>3, FS_Subset
<1>5. /\ Cardinality(A) \in Nat /\ Cardinality(B) \in Nat
      /\ Cardinality(C) = Cardinality(A) + Cardinality(B)
  BY <1>3, <1>4, CountedApart
<1> QED BY <1>5 DEF CountIn, A, B, C

\* It is a number.
LEMMA CountsNat ==
  ASSUME NEW W, NEW s \in Seq(W), NEW V
  PROVE  CountIn(s, V) \in Nat
<1> DEFINE A == {i \in DOMAIN s : s[i] \in V}
<1>1. IsFiniteSet(DOMAIN s) /\ A \in SUBSET DOMAIN s
  <2>1. Len(s) \in Nat /\ DOMAIN s = 1..Len(s)
    OBVIOUS
  <2> QED BY <2>1, FS_Interval
<1> HIDE DEF A
<1>2. IsFiniteSet(A)
  BY <1>1, FS_Subset
<1> QED BY <1>2, FS_CardinalityType DEF CountIn, A

\* Without one of its elements a sequence counts no more.
LEMMA CountsTakenOut ==
  ASSUME NEW W, NEW s \in Seq(W), NEW i \in DOMAIN s, NEW V
  PROVE  /\ RemoveAt(s, i) \in Seq(W) /\ CountIn(RemoveAt(s, i), V) <= CountIn(s, V)
         /\ \A j \in DOMAIN RemoveAt(s, i) : \E k \in DOMAIN s : RemoveAt(s, i)[j] = s[k]
<1> DEFINE n == Len(s)
           l == SubSeq(s, 1, i - 1)
           r == SubSeq(s, i + 1, n)
           q == RemoveAt(s, i)
<1>1. n \in Nat /\ DOMAIN s = 1 .. n /\ i \in 1 .. n /\ \A j \in 1 .. n : s[j] \in W
  BY LenProperties
<1>2. l \in Seq(W) /\ Len(l) = i - 1 /\ \A j \in 1 .. i - 1 : l[j] = s[j]
  BY <1>1, SubSeqProperties
<1>3. r \in Seq(W) /\ Len(r) = n - i /\ \A j \in 1 .. n - i : r[j] = s[i + j]
  BY <1>1, SubSeqProperties
<1> HIDE DEF l, r, n
<1>4. q = l \o r
  BY DEF RemoveAt, l, r, n
<1>5. q \in Seq(W) /\ Len(q) = n - 1 /\ \A j \in 1 .. n - 1 : q[j] = IF j <= i - 1 THEN l[j] ELSE r[j - (i - 1)]
  <2>1. /\ l \o r \in Seq(W) /\ Len(l \o r) = Len(l) + Len(r)
        /\ \A j \in 1 .. Len(l) + Len(r) : (l \o r)[j] = IF j <= Len(l) THEN l[j] ELSE r[j - Len(l)]
    BY <1>2, <1>3, ConcatProperties
  <2>2. Len(l) + Len(r) = n - 1 /\ Len(l) = i - 1
    BY <1>1, <1>2, <1>3
  <2> QED BY <1>4, <2>1, <2>2
<1>6. \A j \in 1 .. n - 1 : q[j] = IF j < i THEN s[j] ELSE s[j + 1]
  <2> TAKE j \in 1 .. n - 1
  <2>1. CASE j < i
    BY <1>1, <1>2, <1>5, <2>1
  <2>2. CASE j >= i
    <3>1. j - (i - 1) \in 1 .. n - i /\ i + (j - (i - 1)) = j + 1
      BY <1>1, <2>2
    <3>2. r[j - (i - 1)] = s[j + 1]
      BY <1>3, <3>1
    <3>3. ~(j <= i - 1)
      BY <1>1, <2>2
    <3> QED BY <1>5, <2>2, <3>2, <3>3
  <2> QED BY <1>1, <2>1, <2>2
<1> HIDE DEF q
<1>7. DOMAIN q = 1 .. n - 1
  BY <1>1, <1>5, LenProperties
<1> DEFINE A == {j \in DOMAIN q : q[j] \in V}
           B == {j \in DOMAIN s : s[j] \in V}
           f == [j \in A |-> IF j < i THEN j ELSE j + 1]
<1>8. \A j \in 1 .. n - 1 : (IF j < i THEN j ELSE j + 1) \in 1 .. n
  BY <1>1
<1>9. f \in [A -> B]
  BY <1>1, <1>6, <1>7, <1>8
<1>10. \A j, k \in A : f[j] = f[k] => j = k
  <2>1. \A j \in A : j \in Int
    BY <1>1, <1>7
  <2> HIDE DEF A
  <2> QED BY <1>1, <2>1
<1>11. IsFiniteSet(B)
  <2>1. B \in SUBSET (1..n) /\ IsFiniteSet(1..n)
    BY <1>1, FS_Interval
  <2> QED BY <2>1, FS_Subset
<1> HIDE DEF A, B, f
<1>12. Cardinality(A) <= Cardinality(B)
  <2>1. f \in Injection(A, B)
    BY <1>9, <1>10 DEF Injection, IsInjective
  <2> QED BY <1>11, <2>1, FS_Injection
<1>13. CountIn(q, V) <= CountIn(s, V)
  BY <1>12 DEF CountIn, A, B
<1>14. \A j \in DOMAIN q : \E k \in DOMAIN s : q[j] = s[k]
  BY <1>1, <1>6, <1>7, <1>8
<1> QED BY <1>5, <1>13, <1>14 DEF q

-----------------------------------------------------------------------------
(* Sequences without repetition. *)

\* Taking one out of a sequence without repetition takes it out of its set.
LEMMA OneTakenOut ==
  ASSUME NEW S, NEW s \in Seq(S), IsInjective(s), NEW i \in DOMAIN s
  PROVE  /\ RemoveAt(s, i) \in Seq(S) /\ IsInjective(RemoveAt(s, i))
         /\ Len(RemoveAt(s, i)) = Len(s) - 1 /\ Len(s) \in Nat \ {0}
         /\ ToSet(RemoveAt(s, i)) = ToSet(s) \ {s[i]}
<1> DEFINE n == Len(s)
           l == SubSeq(s, 1, i - 1)
           r == SubSeq(s, i + 1, n)
           q == RemoveAt(s, i)
<1>1. n \in Nat /\ DOMAIN s = 1 .. n /\ i \in 1 .. n /\ \A j \in 1 .. n : s[j] \in S
  BY LenProperties
<1>2. l \in Seq(S) /\ Len(l) = i - 1 /\ \A j \in 1 .. i - 1 : l[j] = s[j]
  BY <1>1, SubSeqProperties
<1>3. r \in Seq(S) /\ Len(r) = n - i /\ \A j \in 1 .. n - i : r[j] = s[i + j]
  BY <1>1, SubSeqProperties
<1> HIDE DEF l, r, n
<1>4. q = l \o r
  BY DEF RemoveAt, l, r, n
<1>5. q \in Seq(S) /\ Len(q) = n - 1 /\ \A j \in 1 .. n - 1 : q[j] = IF j <= i - 1 THEN l[j] ELSE r[j - (i - 1)]
  <2>1. /\ l \o r \in Seq(S) /\ Len(l \o r) = Len(l) + Len(r)
        /\ \A j \in 1 .. Len(l) + Len(r) : (l \o r)[j] = IF j <= Len(l) THEN l[j] ELSE r[j - Len(l)]
    BY <1>2, <1>3, ConcatProperties
  <2>2. Len(l) + Len(r) = n - 1 /\ Len(l) = i - 1
    BY <1>1, <1>2, <1>3
  <2> QED BY <1>4, <2>1, <2>2
<1>6. \A j \in 1 .. n - 1 : q[j] = IF j < i THEN s[j] ELSE s[j + 1]
  <2> TAKE j \in 1 .. n - 1
  <2>1. CASE j < i
    BY <1>1, <1>2, <1>5, <2>1
  <2>2. CASE j >= i
    <3>1. j - (i - 1) \in 1 .. n - i /\ i + (j - (i - 1)) = j + 1
      BY <1>1, <2>2
    <3>2. r[j - (i - 1)] = s[j + 1]
      BY <1>3, <3>1
    <3>3. ~(j <= i - 1)
      BY <1>1, <2>2
    <3> QED BY <1>5, <2>2, <3>2, <3>3
  <2> QED BY <1>1, <2>1, <2>2
<1> HIDE DEF q
<1>7. DOMAIN q = 1 .. n - 1
  BY <1>1, <1>5, LenProperties
<1>8. \A j, k \in 1 .. n : s[j] = s[k] => j = k
  BY <1>1 DEF IsInjective
<1>9. IsInjective(q)
  <2> SUFFICES ASSUME NEW j \in 1 .. n - 1, NEW k \in 1 .. n - 1, q[j] = q[k] PROVE j = k
    BY <1>7 DEF IsInjective
  <2> QED BY <1>1, <1>6, <1>8
<1>10. ToSet(q) \subseteq ToSet(s) \ {s[i]}
  <2> SUFFICES ASSUME NEW j \in 1 .. n - 1 PROVE q[j] \in ToSet(s) \ {s[i]}
    BY <1>7 DEF ToSet
  <2>1. PICK k \in 1 .. n : k # i /\ q[j] = s[k]
    BY <1>1, <1>6
  <2> QED BY <1>1, <1>8, <2>1 DEF ToSet
<1>11. ToSet(s) \ {s[i]} \subseteq ToSet(q)
  <2> SUFFICES ASSUME NEW k \in 1 .. n, k # i PROVE s[k] \in ToSet(q)
    BY <1>1 DEF ToSet
  <2>1. PICK j \in 1 .. n - 1 : q[j] = s[k]
    <3>1. CASE k < i
      BY <1>1, <1>6, <3>1
    <3>2. CASE k > i
      <4>1. k - 1 \in 1 .. n - 1 /\ ~(k - 1 < i) /\ (k - 1) + 1 = k
        BY <1>1, <3>2
      <4> QED BY <1>6, <4>1
    <3> QED BY <1>1, <3>1, <3>2
  <2> QED BY <1>7, <2>1 DEF ToSet
<1> QED BY <1>1, <1>5, <1>9, <1>10, <1>11 DEF n, q

\* The rest of a sequence without repetition has none.
LEMMA FirstTakenOut ==
  ASSUME NEW S, NEW s \in Seq(S), IsInjective(s), s # <<>>
  PROVE  /\ Tail(s) \in Seq(S) /\ IsInjective(Tail(s))
         /\ Len(Tail(s)) = Len(s) - 1 /\ ToSet(Tail(s)) \subseteq ToSet(s)
<1> DEFINE n == Len(s)
           q == Tail(s)
<1>1. n \in Nat \ {0} /\ DOMAIN s = 1 .. n
  BY LenProperties, EmptySeq
<1>2. q \in Seq(S) /\ Len(q) = n - 1 /\ \A j \in 1 .. n - 1 : q[j] = s[j + 1]
  BY HeadTailProperties
<1> HIDE DEF q, n
<1>3. DOMAIN q = 1 .. n - 1
  BY <1>2, LenProperties
<1>4. \A j \in 1 .. n - 1 : j + 1 \in 1 .. n
  BY <1>1
<1>5. IsInjective(q)
  <2> SUFFICES ASSUME NEW j \in 1 .. n - 1, NEW k \in 1 .. n - 1, q[j] = q[k] PROVE j = k
    BY <1>3 DEF IsInjective
  <2>1. s[j + 1] = s[k + 1] /\ j + 1 \in 1 .. n /\ k + 1 \in 1 .. n
    BY <1>2, <1>4
  <2>2. j + 1 = k + 1
    BY <1>1, <2>1 DEF IsInjective
  <2> QED BY <2>2
<1>6. ToSet(q) \subseteq ToSet(s)
  BY <1>1, <1>2, <1>3, <1>4 DEF ToSet
<1> QED BY <1>2, <1>5, <1>6 DEF n, q

\* One more at the end of a sequence without repetition.
LEMMA OnePutLast ==
  ASSUME NEW S, NEW s \in Seq(S), IsInjective(s), NEW e \in S, e \notin ToSet(s)
  PROVE  /\ Append(s, e) \in Seq(S) /\ IsInjective(Append(s, e))
         /\ Len(Append(s, e)) = Len(s) + 1 /\ ToSet(Append(s, e)) = ToSet(s) \cup {e}
<1> DEFINE n == Len(s)
           q == Append(s, e)
<1>1. n \in Nat /\ DOMAIN s = 1 .. n
  BY LenProperties
<1>2. q \in Seq(S) /\ Len(q) = n + 1 /\ \A j \in 1 .. n + 1 : q[j] = IF j = n + 1 THEN e ELSE s[j]
  BY <1>1
<1> HIDE DEF q, n
<1>3. DOMAIN q = 1 .. n + 1
  BY <1>2, LenProperties
<1>4. \A j \in 1 .. n : s[j] # e /\ \A k \in 1 .. n : s[j] = s[k] => j = k
  BY <1>1 DEF ToSet, IsInjective
<1>5. IsInjective(q)
  <2> SUFFICES ASSUME NEW j \in 1 .. n + 1, NEW k \in 1 .. n + 1, q[j] = q[k] PROVE j = k
    BY <1>3 DEF IsInjective
  <2> QED BY <1>1, <1>2, <1>4
<1>6. ToSet(q) \subseteq ToSet(s) \cup {e}
  BY <1>1, <1>2, <1>3 DEF ToSet
<1>7. ToSet(s) \cup {e} \subseteq ToSet(q)
  <2>1. e \in ToSet(q)
    <3>1. n + 1 \in 1 .. n + 1 /\ q[n + 1] = e
      BY <1>1, <1>2
    <3> QED BY <1>3, <3>1 DEF ToSet
  <2>2. ASSUME NEW j \in 1 .. n PROVE s[j] \in ToSet(q)
    <3>1. j \in 1 .. n + 1 /\ q[j] = s[j]
      BY <1>1, <1>2
    <3> QED BY <1>3, <3>1 DEF ToSet
  <2> QED BY <1>1, <2>1, <2>2 DEF ToSet
<1> QED BY <1>2, <1>5, <1>6, <1>7 DEF n, q

\* One more at its head.
LEMMA OnePutFirst ==
  ASSUME NEW S, NEW s \in Seq(S), IsInjective(s), NEW e \in S, e \notin ToSet(s)
  PROVE  /\ <<e>> \o s \in Seq(S) /\ IsInjective(<<e>> \o s)
         /\ ToSet(<<e>> \o s) = ToSet(s) \cup {e}
<1> DEFINE n == Len(s)
           q == <<e>> \o s
<1>1. n \in Nat /\ DOMAIN s = 1 .. n /\ \A j \in 1 .. n : s[j] \in S /\ s[j] # e
  BY LenProperties DEF ToSet
<1>2. <<e>> \in Seq(S) /\ Len(<<e>>) = 1 /\ <<e>>[1] = e
  OBVIOUS
<1>3. /\ q \in Seq(S) /\ Len(q) = n + 1 /\ q[1] = e
      /\ \A j \in 2 .. n + 1 : q[j] = s[j - 1]
  <2>1. /\ q \in Seq(S) /\ Len(q) = Len(<<e>>) + Len(s)
        /\ \A j \in 1 .. Len(<<e>>) + Len(s) : q[j] = IF j <= Len(<<e>>) THEN <<e>>[j] ELSE s[j - Len(<<e>>)]
    BY <1>2, ConcatProperties
  <2> HIDE DEF q, n
  <2>2. n = Len(s) /\ 1 + n = n + 1
    BY <1>1 DEF n
  <2>3. Len(q) = n + 1 /\ \A j \in 1 .. n + 1 : q[j] = IF j <= 1 THEN <<e>>[j] ELSE s[j - 1]
    BY <1>2, <2>1, <2>2
  <2>4. 1 \in 1 .. n + 1 /\ \A j \in 2 .. n + 1 : j \in 1 .. n + 1 /\ ~(j <= 1)
    BY <1>1
  <2> QED BY <1>2, <2>1, <2>3, <2>4
<1> HIDE DEF q
<1>4. DOMAIN q = 1 .. n + 1
  BY <1>1, <1>3, LenProperties
<1> HIDE DEF n
<1>5. \A j, k \in 1 .. n : s[j] = s[k] => j = k
  BY <1>1 DEF IsInjective
<1>6. \A j \in 1 .. n + 1 : j = 1 \/ (j \in 2 .. n + 1 /\ j - 1 \in 1 .. n)
  BY <1>1
<1>7. IsInjective(q)
  <2> SUFFICES ASSUME NEW j \in 1 .. n + 1, NEW k \in 1 .. n + 1, q[j] = q[k] PROVE j = k
    BY <1>4 DEF IsInjective
  <2>1. CASE j = 1 \/ k = 1
    BY <1>1, <1>3, <1>6, <2>1
  <2>2. CASE j # 1 /\ k # 1
    <3>1. j - 1 = k - 1
      BY <1>3, <1>5, <1>6, <2>2
    <3> QED BY <1>1, <3>1
  <2> QED BY <2>1, <2>2
<1>8. ToSet(q) \subseteq ToSet(s) \cup {e}
  <2> SUFFICES ASSUME NEW j \in 1 .. n + 1 PROVE q[j] \in ToSet(s) \cup {e}
    BY <1>4 DEF ToSet
  <2> QED BY <1>1, <1>3, <1>6 DEF ToSet
<1>9. ToSet(s) \cup {e} \subseteq ToSet(q)
  <2>1. e \in ToSet(q)
    <3>1. 1 \in 1 .. n + 1
      BY <1>1
    <3> QED BY <1>3, <1>4, <3>1 DEF ToSet
  <2>2. ASSUME NEW j \in 1 .. n PROVE s[j] \in ToSet(q)
    <3>1. j + 1 \in 1 .. n + 1 /\ j + 1 \in 2 .. n + 1 /\ (j + 1) - 1 = j
      BY <1>1
    <3> QED BY <1>3, <1>4, <3>1 DEF ToSet
  <2> QED BY <1>1, <2>1, <2>2 DEF ToSet
<1> QED BY <1>3, <1>7, <1>8, <1>9 DEF q

-----------------------------------------------------------------------------
(* Taking one after another. *)

\* Of finitely many in an order, one has none before it.
LEMMA Foremost ==
  ASSUME NEW S, IsFiniteSet(S), S # {}, NEW R,
         \A a \in S : ~(<<a, a>> \in R),
         \A a, b, c \in S : <<a, b>> \in R /\ <<b, c>> \in R => <<a, c>> \in R
  PROVE  \E m \in S : \A n \in S : ~(<<n, m>> \in R)
<1> DEFINE above(m) == {n \in S : <<n, m>> \in R}
           count == [m \in S |-> Cardinality(above(m))]
           counts == {count[m] : m \in S}
<1>1. ASSUME NEW m \in S
      PROVE  IsFiniteSet(above(m)) /\ Cardinality(above(m)) \in Nat
  <2>1. above(m) \in SUBSET S
    OBVIOUS
  <2> HIDE DEF above
  <2>2. IsFiniteSet(above(m))
    BY <2>1, FS_Subset
  <2> QED BY <2>2, FS_CardinalityType
<1> HIDE DEF above
<1>2. count \in [S -> Nat] /\ \A m \in S : count[m] = Cardinality(above(m))
  BY <1>1
<1> HIDE DEF count
<1>3. counts \in SUBSET Nat /\ counts # {}
  BY <1>2
<1>4. PICK c \in counts : \A d \in counts : c <= d
  BY <1>3, LeastOf
<1>5. PICK m \in S : c = count[m]
  BY <1>4
<1>6. SUFFICES ASSUME NEW n \in S, <<n, m>> \in R PROVE FALSE
  BY <1>5
<1>7. above(n) \in SUBSET above(m) /\ n \in above(m) /\ n \notin above(n)
  BY <1>6 DEF above
<1>8. c <= count[n]
  BY <1>4
<1>9. /\ Cardinality(above(n)) <= Cardinality(above(m))
      /\ Cardinality(above(n)) = Cardinality(above(m)) => above(n) = above(m)
  BY <1>1, <1>7, FS_Subset
<1>10. count[n] \in Nat /\ count[m] \in Nat
  BY <1>2
<1> QED BY <1>2, <1>5, <1>7, <1>8, <1>9, <1>10

\* What is so of no members, and stays so with one more, is so of all of finitely
\* many.
LEMMA OneByOne ==
  ASSUME NEW S, IsFiniteSet(S), NEW U \in SUBSET SUBSET S, {} \in U,
         \A T \in U : \A x \in S \ T : T \cup {x} \in U
  PROVE  S \in U
<1> DEFINE lacks(T) == Cardinality(S \ T)
           count == [T \in U |-> lacks(T)]
           counts == {count[T] : T \in U}
<1>1. ASSUME NEW T \in SUBSET S
      PROVE  IsFiniteSet(S \ T) /\ lacks(T) \in Nat
  <2>1. S \ T \in SUBSET S
    OBVIOUS
  <2>2. IsFiniteSet(S \ T)
    BY <2>1, FS_Subset
  <2> QED BY <2>2, FS_CardinalityType
<1> HIDE DEF lacks
<1>2. count \in [U -> Nat] /\ \A T \in U : count[T] = lacks(T)
  BY <1>1
<1> HIDE DEF count
<1>3. counts \in SUBSET Nat /\ counts # {}
  BY <1>2
<1>4. PICK c \in counts : \A d \in counts : c <= d
  BY <1>3, LeastOf
<1>5. PICK T \in U : c = count[T]
  BY <1>4
<1>6. SUFFICES ASSUME NEW x \in S \ T PROVE FALSE
  BY <1>5
<1>7. T \cup {x} \in U
  BY <1>6
<1>8. c <= count[T \cup {x}]
  BY <1>4, <1>7
<1>9. S \ (T \cup {x}) = (S \ T) \ {x} /\ x \in S \ T
  BY <1>6
<1>10. lacks(T \cup {x}) = lacks(T) - 1
  <2>1. T \in SUBSET S /\ IsFiniteSet(S \ T)
    BY <1>1
  <2>2. Cardinality((S \ T) \ {x}) = Cardinality(S \ T) - 1
    BY <1>9, <2>1, FS_RemoveElement
  <2> QED BY <1>9, <2>2 DEF lacks
<1>11. lacks(T) \in Nat
  BY <1>1
<1> QED BY <1>2, <1>5, <1>7, <1>8, <1>10, <1>11

\* f is what F, done n times to z, has made of it after each.
Repeats(f, n, z, F, R) ==
  f \in [0 .. n -> R] /\ f[0] = z /\ \A i \in 1 .. n : f[i] = F[f[i - 1]]

\* What F does n times from z is a function.
LEMMA Repeated ==
  ASSUME NEW R, NEW F \in [R -> R], NEW z \in R, NEW N \in Nat
  PROVE  \E f : Repeats(f, N, z, F, R)
<1> DEFINE Has(n) == \E f : Repeats(f, n, z, F, R)
           S == {n \in Nat : ~Has(n)}
<1>1. Has(0)
  <2> DEFINE f == [i \in 0 .. 0 |-> z]
  <2>1. f \in [0 .. 0 -> R] /\ f[0] = z /\ 1 .. 0 = {}
    OBVIOUS
  <2> QED BY <2>1 DEF Repeats
<1>2. ASSUME NEW n \in Nat, Has(n) PROVE Has(n + 1)
  <2>1. PICK f : Repeats(f, n, z, F, R)
    BY <1>2
  <2>2. f \in [0 .. n -> R] /\ f[0] = z /\ \A i \in 1 .. n : f[i] = F[f[i - 1]]
    BY <2>1 DEF Repeats
  <2> DEFINE g == [i \in 0 .. n + 1 |-> IF i = n + 1 THEN F[f[n]] ELSE f[i]]
  <2>3. g \in [0 .. n + 1 -> R]
    <3>1. \A i \in 0 .. n + 1 : i # n + 1 => i \in 0 .. n
      OBVIOUS
    <3> QED BY <2>2, <3>1
  <2>4. \A i \in 0 .. n : g[i] = f[i]
    OBVIOUS
  <2>5. g[n + 1] = F[f[n]] /\ 0 \in 0 .. n
    OBVIOUS
  <2> HIDE DEF g
  <2>6. ASSUME NEW i \in 1 .. n + 1 PROVE g[i] = F[g[i - 1]]
    <3>1. i - 1 \in 0 .. n /\ (i = n + 1 => i - 1 = n) /\ (i # n + 1 => i \in 1 .. n /\ i \in 0 .. n)
      OBVIOUS
    <3> QED BY <2>2, <2>4, <2>5, <3>1
  <2>7. Repeats(g, n + 1, z, F, R)
    BY <2>2, <2>3, <2>4, <2>5, <2>6 DEF Repeats
  <2> QED BY <2>7
<1> HIDE DEF Has
<1>3. S = {}
  <2> SUFFICES ASSUME S # {} PROVE FALSE
    OBVIOUS
  <2>1. PICK k \in S : \A j \in S : k <= j
    BY LeastOf
  <2>2. k \in Nat /\ ~Has(k) /\ k # 0
    BY <1>1
  <2>3. k - 1 \in Nat /\ ~(k <= k - 1) /\ (k - 1) + 1 = k
    BY <2>2
  <2>4. Has(k - 1)
    BY <2>1, <2>3
  <2> QED BY <1>2, <2>2, <2>3, <2>4
<1>4. Has(N)
  BY <1>3
<1> QED BY <1>4 DEF Has

-----------------------------------------------------------------------------
(* Powers of two, and quotients. *)

\* The subsets of n numbers are a power of two.
LEMMA Subsets ==
  ASSUME NEW n \in Nat
  PROVE  IsFiniteSet(SUBSET (1..n)) /\ Cardinality(SUBSET (1..n)) = 2^n
<1>1. IsFiniteSet(1..n) /\ Cardinality(1..n) = n
  BY FS_Interval
<1>2. IsFiniteSet(SUBSET (1..n)) /\ Cardinality(SUBSET (1..n)) = 2^Cardinality(1..n)
  BY <1>1, FS_SUBSET
<1> QED BY <1>1, <1>2

\* A power of two is twice the one before it.
LEMMA Doubled ==
  ASSUME NEW n \in Nat
  PROVE  2^n \in Nat \ {0} /\ 2^(n + 1) = 2 * 2^n
<1> DEFINE T == SUBSET (1..n)
           U == {t \cup {n + 1} : t \in T}
           f == [t \in T |-> t \cup {n + 1}]
<1>1. IsFiniteSet(T) /\ Cardinality(T) = 2^n /\ Cardinality(T) \in Nat
  BY Subsets, FS_CardinalityType
<1>2. Cardinality(SUBSET (1..(n + 1))) = 2^(n + 1)
  BY Subsets
<1>3. SUBSET (1..(n + 1)) = T \cup U
  <2>1. 1..(n + 1) = (1..n) \cup {n + 1}
    OBVIOUS
  <2>2. ASSUME NEW s \in SUBSET (1..(n + 1)) PROVE s \in T \cup U
    <3>1. CASE n + 1 \in s
      <4>1. s = (s \ {n + 1}) \cup {n + 1} /\ s \ {n + 1} \in T
        BY <2>1, <3>1
      <4> QED BY <4>1
    <3>2. CASE n + 1 \notin s
      BY <2>1, <3>2
    <3> QED BY <3>1, <3>2
  <2>3. ASSUME NEW s \in T \cup U PROVE s \in SUBSET (1..(n + 1))
    BY <2>1
  <2> QED BY <2>2, <2>3
<1>4. n + 1 \notin 1..n
  OBVIOUS
<1>5. T \cap U = {}
  BY <1>4
<1>6. IsFiniteSet(U) /\ Cardinality(U) = Cardinality(T)
  <2>1. f \in [T -> U]
    OBVIOUS
  <2>2. \A s, t \in T : f[s] = f[t] => s = t
    <3> SUFFICES ASSUME NEW s \in T, NEW t \in T, s \cup {n + 1} = t \cup {n + 1} PROVE s = t
      OBVIOUS
    <3>1. n + 1 \notin s /\ n + 1 \notin t
      BY <1>4
    <3> QED BY <3>1
  <2>3. \A u \in U : \E t \in T : f[t] = u
    OBVIOUS
  <2> HIDE DEF f, T, U
  <2> QED BY <1>1, <2>1, <2>2, <2>3, CountedAlike
<1> HIDE DEF T, U
<1>7. Cardinality(SUBSET (1..(n + 1))) = Cardinality(T) + Cardinality(U)
  BY <1>1, <1>3, <1>5, <1>6, CountedApart
<1>8. {} \in T
  BY DEF T
<1>9. Cardinality(T) # 0
  BY <1>1, <1>8, FS_EmptySet
<1>10. PICK k \in Nat : k = Cardinality(T)
  BY <1>1
<1>11. 2^(n + 1) = k + k /\ 2^n = k
  BY <1>1, <1>2, <1>6, <1>7, <1>10
<1> QED BY <1>9, <1>10, <1>11

\* No power of two is less than one before it.
LEMMA PowersGrow ==
  ASSUME NEW m \in Nat, NEW n \in Nat, m <= n
  PROVE  2^m <= 2^n
<1> DEFINE S == {k \in Nat : ~(2^m <= 2^(m + k))}
<1>1. S = {}
  <2> SUFFICES ASSUME S # {} PROVE FALSE
    OBVIOUS
  <2>1. PICK k \in S : \A j \in S : k <= j
    BY LeastOf
  <2>2. k \in Nat /\ ~(2^m <= 2^(m + k))
    OBVIOUS
  <2>3. k # 0
    <3>1. m + 0 = m /\ 2^m \in Nat
      BY Doubled
    <3> QED BY <2>2, <3>1
  <2>4. k - 1 \in Nat /\ ~(k <= k - 1)
    BY <2>2, <2>3
  <2>5. k - 1 \notin S
    BY <2>1, <2>4
  <2> HIDE DEF S
  <2>6. 2^m <= 2^(m + (k - 1))
    BY <2>4, <2>5 DEF S
  <2>7. m + (k - 1) \in Nat /\ (m + (k - 1)) + 1 = m + k
    BY <2>2, <2>4
  <2>8. 2^(m + k) = 2 * 2^(m + (k - 1)) /\ 2^(m + (k - 1)) \in Nat /\ 2^m \in Nat
    BY <2>7, Doubled
  <2> QED BY <2>2, <2>6, <2>8
<1>2. n - m \in Nat /\ m + (n - m) = n
  OBVIOUS
<1> HIDE DEF S
<1>3. n - m \notin S
  BY <1>1
<1>4. 2^m <= 2^(m + (n - m))
  BY <1>2, <1>3 DEF S
<1> QED BY <1>2, <1>4

\* Numbers are in the order of their products with one above nought.
LEMMA Timesed ==
  ASSUME NEW a \in Int, NEW b \in Int, NEW c \in Nat \ {0}
  PROVE  /\ a * c \in Int /\ (a <= b <=> a * c <= b * c) /\ (a < b <=> a * c < b * c)
         /\ (a = b <=> a * c = b * c)
OBVIOUS

\* A quotient is rounded down.
LEMMA Quotient ==
  ASSUME NEW a \in Nat, NEW b \in Nat \ {0}
  PROVE  /\ a \div b \in Nat
         /\ (a \div b) * b <= a /\ a < (a \div b + 1) * b
OBVIOUS

\* What is no more than a quotient, times the divisor, is no more than the dividend.
LEMMA QuotientAtLeast ==
  ASSUME NEW a \in Nat, NEW b \in Nat \ {0}, NEW c \in Int
  PROVE  a \div b \in Nat /\ (c <= a \div b <=> c * b <= a)
<1>1. PICK q \in Nat : q = a \div b /\ q * b <= a /\ a < (q + 1) * b
  BY Quotient
<1>2. c <= q => c * b <= a
  <2>1. c <= q => c * b <= q * b
    BY Timesed
  <2> QED BY <1>1, <2>1
<1>3. c > q => c * b > a
  <2>1. c > q => (q + 1) * b <= c * b
    BY Timesed
  <2> QED BY <1>1, <2>1
<1> QED BY <1>1, <1>2, <1>3

\* Quotients of one divisor are in the order of their dividends.
LEMMA QuotientsOrdered ==
  ASSUME NEW a \in Nat, NEW b \in Nat \ {0}, NEW c \in Nat, a <= c
  PROVE  a \div b \in Nat /\ c \div b \in Nat /\ a \div b <= c \div b
<1>1. PICK q \in Nat : q = a \div b /\ q * b <= a
  BY Quotient
<1>2. q <= c \div b /\ c \div b \in Nat
  BY <1>1, QuotientAtLeast
<1> QED BY <1>1, <1>2

\* Quotients, compared crossed, are in an order.
LEMMA CrossedOrder ==
  ASSUME NEW a \in Nat, NEW b \in Nat, NEW c \in Nat,
         NEW x \in Nat \ {0}, NEW y \in Nat \ {0}, NEW z \in Nat \ {0},
         a * y <= b * x, b * z <= c * y
  PROVE  /\ a * z <= c * x
         /\ a * y < b * x \/ b * z < c * y => a * z < c * x
<1>1. PICK p \in Nat : p = (a * y) * z
  OBVIOUS
<1>2. PICK q \in Nat : q = (b * x) * z
  OBVIOUS
<1>3. PICK r \in Nat : r = (c * y) * x
  OBVIOUS
<1>4. p <= q /\ (a * y < b * x => p < q)
  <2>1. a * y \in Int /\ b * x \in Int
    OBVIOUS
  <2> QED BY <1>1, <1>2, <2>1, Timesed
<1>5. q <= r /\ (b * z < c * y => q < r)
  <2>1. q = (b * z) * x
    BY <1>2
  <2>2. b * z \in Int /\ c * y \in Int
    OBVIOUS
  <2> QED BY <1>3, <2>1, <2>2, Timesed
<1>6. p = (a * z) * y /\ r = (c * x) * y
  BY <1>1, <1>3
<1>7. a * z \in Int /\ c * x \in Int
  OBVIOUS
<1>8. (a * z <= c * x <=> p <= r) /\ (a * z < c * x <=> p < r)
  BY <1>6, <1>7, Timesed
<1> QED BY <1>4, <1>5, <1>8

-----------------------------------------------------------------------------
(* What the numbers of a function add up to. *)

\* As many as a number says, each told by its number.
LEMMA Numbered ==
  ASSUME NEW x, NEW n \in Nat
  PROVE  IsFiniteSet({x} \X (1..n)) /\ Cardinality({x} \X (1..n)) = n
<1> DEFINE S == {x}
           T == 1..n
<1>1. IsFiniteSet(S) /\ Cardinality(S) = 1
  BY FS_Singleton
<1>2. IsFiniteSet(T) /\ Cardinality(T) = n
  BY FS_Interval
<1> HIDE DEF S, T
<1>3. IsFiniteSet(S \X T) /\ Cardinality(S \X T) = Cardinality(S) * Cardinality(T)
  BY <1>1, <1>2, FS_Product
<1>4. Cardinality(S) * Cardinality(T) = n
  BY <1>1, <1>2
<1> QED BY <1>3, <1>4 DEF S, T

\* A sum of finitely many numbers is one.
LEMMA SumFinite ==
  ASSUME NEW A, IsFiniteSet(A), NEW f \in [A -> Nat]
  PROVE  IsFiniteSet(UNION {{x} \X (1..f[x]) : x \in A}) /\ SumOf(f) \in Nat
<1> DEFINE g == [x \in A |-> {x} \X (1..f[x])]
           T == {g[x] : x \in A}
<1>1. IsFiniteSet(T)
  <2>1. DOMAIN g = A
    OBVIOUS
  <2> HIDE DEF g
  <2> QED BY <2>1, LedTo
<1>2. \A t \in T : IsFiniteSet(t)
  <2> SUFFICES ASSUME NEW x \in A PROVE IsFiniteSet(g[x])
    OBVIOUS
  <2> QED BY Numbered
<1>3. T = {{x} \X (1..f[x]) : x \in A} /\ DOMAIN f = A
  OBVIOUS
<1>4. IsFiniteSet(UNION T)
  <2> HIDE DEF T
  <2> QED BY <1>1, <1>2, FS_UNION
<1> HIDE DEF T
<1> QED BY <1>3, <1>4, FS_CardinalityType DEF SumOf

\* Two sums that differ in one number.
LEMMA SumButOne ==
  ASSUME NEW A, IsFiniteSet(A), NEW f \in [A -> Nat], NEW g \in [A -> Nat], NEW x \in A,
         \A y \in A : y # x => g[y] = f[y]
  PROVE  /\ SumOf(f) \in Nat /\ SumOf(g) \in Nat
         /\ SumOf(g) + f[x] = SumOf(f) + g[x]
<1> DEFINE rest == UNION {{y} \X (1..f[y]) : y \in A \ {x}}
           F == {x} \X (1..f[x])
           G == {x} \X (1..g[x])
           allF == UNION {{y} \X (1..f[y]) : y \in A}
           allG == UNION {{y} \X (1..g[y]) : y \in A}
<1>1. IsFiniteSet(allF) /\ SumOf(f) \in Nat
  BY SumFinite
<1>2. IsFiniteSet(allG) /\ SumOf(g) \in Nat
  BY SumFinite
<1>3. SumOf(f) = Cardinality(allF) /\ SumOf(g) = Cardinality(allG)
  BY DEF SumOf
<1>4. allF = rest \cup F /\ rest \cap F = {}
  OBVIOUS
<1>5. allG = rest \cup G /\ rest \cap G = {}
  <2>1. rest = UNION {{y} \X (1..g[y]) : y \in A \ {x}}
    OBVIOUS
  <2> HIDE DEF rest
  <2> QED BY <2>1
<1>6. IsFiniteSet(F) /\ Cardinality(F) = f[x] /\ IsFiniteSet(G) /\ Cardinality(G) = g[x]
  BY Numbered
<1> HIDE DEF allF, allG, rest, F, G
<1>7. IsFiniteSet(rest)
  <2>1. rest \in SUBSET allF
    BY <1>4
  <2> QED BY <1>1, <2>1, FS_Subset
<1>8. Cardinality(allF) = Cardinality(rest) + Cardinality(F) /\ Cardinality(rest) \in Nat
  BY <1>4, <1>6, <1>7, CountedApart
<1>9. Cardinality(allG) = Cardinality(rest) + Cardinality(G)
  BY <1>5, <1>6, <1>7, CountedApart
<1>10. f[x] \in Nat /\ g[x] \in Nat
  OBVIOUS
<1> QED BY <1>1, <1>2, <1>3, <1>6, <1>8, <1>9, <1>10

\* A sum over other numbers of which none is new or greater is no greater.
LEMMA SumFewer ==
  ASSUME NEW A, IsFiniteSet(A), NEW f \in [A -> Nat],
         NEW B, IsFiniteSet(B), NEW g \in [B -> Nat],
         \A y \in B : g[y] = 0 \/ (y \in A /\ g[y] <= f[y])
  PROVE  SumOf(f) \in Nat /\ SumOf(g) \in Nat /\ SumOf(g) <= SumOf(f)
<1> DEFINE allF == UNION {{y} \X (1..f[y]) : y \in A}
           allG == UNION {{y} \X (1..g[y]) : y \in B}
<1>1. IsFiniteSet(allF) /\ SumOf(f) \in Nat
  BY SumFinite
<1>2. SumOf(g) \in Nat
  BY SumFinite
<1>3. SumOf(f) = Cardinality(allF) /\ SumOf(g) = Cardinality(allG)
  BY DEF SumOf
<1>4. allG \in SUBSET allF
  <2>1. \A y \in B : \A i \in 1..g[y] : y \in A /\ i \in 1..f[y]
    <3> SUFFICES ASSUME NEW y \in B, NEW i \in 1..g[y] PROVE y \in A /\ i \in 1..f[y]
      OBVIOUS
    <3>1. g[y] \in Nat /\ i \in Int /\ 1 <= i /\ i <= g[y]
      OBVIOUS
    <3>2. y \in A /\ g[y] <= f[y]
      BY <3>1
    <3>3. f[y] \in Nat
      BY <3>2
    <3> QED BY <3>1, <3>2, <3>3
  <2> QED BY <2>1
<1> HIDE DEF allF, allG
<1> QED BY <1>1, <1>2, <1>3, <1>4, FS_Subset

\* A sum of numbers none of which is greater is no greater, and one of noughts
\* is nought.
LEMMA SumNoMore ==
  ASSUME NEW A, IsFiniteSet(A), NEW f \in [A -> Nat], NEW g \in [A -> Nat],
         \A y \in A : g[y] <= f[y]
  PROVE  SumOf(f) \in Nat /\ SumOf(g) \in Nat /\ SumOf(g) <= SumOf(f)
BY SumFewer

LEMMA SumOfNone ==
  ASSUME NEW f, \A y \in DOMAIN f : f[y] = 0
  PROVE  SumOf(f) = 0
<1>1. UNION {{y} \X (1..f[y]) : y \in DOMAIN f} = {}
  <2>1. 1..0 = {}
    OBVIOUS
  <2>2. \A y \in DOMAIN f : {y} \X (1..f[y]) = {}
    BY <2>1
  <2> QED BY <2>2
<1> QED BY <1>1, FS_EmptySet DEF SumOf

\* The sum of one number, or none, is within what that is.
LEMMA SumOfOne ==
  ASSUME NEW A, IsFiniteSet(A), NEW f \in [A -> Nat], NEW n \in Nat,
         \A x, y \in A : x = y, \A x \in A : f[x] <= n
  PROVE  SumOf(f) <= n
<1>1. CASE A = {}
  <2>1. SumOf(f) = 0
    BY <1>1, SumOfNone
  <2> QED BY <2>1
<1>2. CASE A # {}
  <2>1. PICK x \in A : A = {x}
    BY <1>2
  <2>2. UNION {{y} \X (1..f[y]) : y \in DOMAIN f} = {x} \X (1..f[x])
    BY <2>1
  <2>3. SumOf(f) = f[x]
    BY <2>2, Numbered DEF SumOf
  <2> QED BY <2>3
<1> QED BY <1>1, <1>2

\* A sum of one number more.
LEMMA SumOneMore ==
  ASSUME NEW A, IsFiniteSet(A), NEW f \in [A -> Nat], NEW x, x \notin A,
         NEW B, B = A \cup {x}, NEW g \in [B -> Nat], \A y \in A : g[y] = f[y]
  PROVE  SumOf(f) \in Nat /\ SumOf(g) \in Nat /\ SumOf(g) = SumOf(f) + g[x]
<1> DEFINE h == [y \in B |-> IF y = x THEN 0 ELSE f[y]]
<1>1. IsFiniteSet(B)
  BY FS_AddElement
<1>2. h \in [B -> Nat] /\ h[x] = 0 /\ \A y \in A : h[y] = f[y]
  OBVIOUS
<1>3. x \in B /\ g \in [B -> Nat] /\ g[x] \in Nat /\ A \subseteq B
  OBVIOUS
<1>4. \A y \in B : y # x => g[y] = h[y]
  BY <1>2
<1>5. \A y \in B : h[y] = 0 \/ (y \in A /\ h[y] <= f[y])
  BY <1>2
<1>6. \A y \in A : y \in B /\ f[y] <= h[y]
  BY <1>2
<1> HIDE DEF h
<1>7. SumOf(h) \in Nat /\ SumOf(g) \in Nat /\ SumOf(g) + h[x] = SumOf(h) + g[x]
  BY <1>1, <1>2, <1>3, <1>4, SumButOne
<1>8. SumOf(f) \in Nat /\ SumOf(h) <= SumOf(f)
  BY <1>1, <1>2, <1>5, SumFewer
<1>9. SumOf(f) <= SumOf(h)
  BY <1>1, <1>2, <1>6, SumFewer
<1> QED BY <1>2, <1>3, <1>7, <1>8, <1>9

\* A number is no more than the sum it is part of.
LEMMA SumAtLeast ==
  ASSUME NEW A, IsFiniteSet(A), NEW f \in [A -> Nat], NEW x \in A
  PROVE  SumOf(f) \in Nat /\ f[x] \in Nat /\ f[x] <= SumOf(f)
<1> DEFINE g == [y \in A |-> IF y = x THEN 0 ELSE f[y]]
<1>1. g \in [A -> Nat] /\ g[x] = 0 /\ \A y \in A : y # x => g[y] = f[y]
  OBVIOUS
<1> HIDE DEF g
<1>2. SumOf(f) \in Nat /\ SumOf(g) \in Nat /\ SumOf(g) + f[x] = SumOf(f) + g[x]
  BY <1>1, SumButOne
<1> QED BY <1>1, <1>2

\* A sum of numbers that are one and the same.
LEMMA SumAlike ==
  ASSUME NEW A, IsFiniteSet(A), NEW f, NEW c \in Nat, f = [x \in A |-> c]
  PROVE  Cardinality(A) \in Nat /\ SumOf(f) = Cardinality(A) * c
<1>1. UNION {{x} \X (1..f[x]) : x \in DOMAIN f} = A \X (1..c)
  OBVIOUS
<1>2. IsFiniteSet(1..c) /\ Cardinality(1..c) = c
  BY FS_Interval
<1>3. Cardinality(A \X (1..c)) = Cardinality(A) * Cardinality(1..c)
  BY <1>2, FS_Product
<1> QED BY <1>1, <1>2, <1>3, FS_CardinalityType DEF SumOf

\* Of two functions' numbers, compared crossed, one's are no more.
Crossed(A, f, g, a, b) == \A x \in A : a * f[x] <= g[x] * b

\* Sums are as their numbers are, compared crossed.
LEMMA SumsCrossed ==
  ASSUME NEW A, IsFiniteSet(A), NEW f \in [A -> Nat], NEW g \in [A -> Nat],
         NEW a \in Nat, NEW b \in Nat, Crossed(A, f, g, a, b)
  PROVE  a * SumOf(f) <= SumOf(g) * b
<1> DEFINE fs(T) == [x \in T |-> f[x]]
           gs(T) == [x \in T |-> g[x]]
           Is(T) == a * SumOf(fs(T)) <= SumOf(gs(T)) * b
           U == {T \in SUBSET A : Is(T)}
<1>1. Is({})
  <2>1. SumOf(fs({})) = 0 /\ SumOf(gs({})) = 0
    BY SumOfNone
  <2> QED BY <2>1
<1> HIDE DEF Is
<1>2. ASSUME NEW T \in SUBSET A, Is(T), NEW x \in A \ T PROVE Is(T \cup {x})
  <2>1. IsFiniteSet(T)
    BY FS_Subset
  <2>2. fs(T) \in [T -> Nat] /\ fs(T \cup {x}) \in [T \cup {x} -> Nat]
        /\ fs(T \cup {x})[x] = f[x] /\ \A y \in T : fs(T \cup {x})[y] = fs(T)[y]
    OBVIOUS
  <2>3. gs(T) \in [T -> Nat] /\ gs(T \cup {x}) \in [T \cup {x} -> Nat]
        /\ gs(T \cup {x})[x] = g[x] /\ \A y \in T : gs(T \cup {x})[y] = gs(T)[y]
    OBVIOUS
  <2> HIDE DEF fs, gs
  <2>4. PICK s \in Nat : s = SumOf(fs(T)) /\ SumOf(fs(T \cup {x})) = s + f[x]
    <3>1. PICK p : p = fs(T)
      OBVIOUS
    <3>2. PICK q : q = fs(T \cup {x})
      OBVIOUS
    <3> DEFINE B == T \cup {x}
    <3>3. x \notin T /\ p \in [T -> Nat] /\ q \in [B -> Nat] /\ B = T \cup {x}
      BY <2>2, <3>1, <3>2
    <3>4. q[x] = f[x] /\ \A y \in T : q[y] = p[y]
      BY <2>2, <3>1, <3>2
    <3> HIDE DEF B
    <3>5. SumOf(p) \in Nat /\ SumOf(q) = SumOf(p) + q[x]
      BY <2>1, <3>3, <3>4, SumOneMore
    <3> QED BY <3>1, <3>2, <3>4, <3>5
  <2>5. PICK t \in Nat : t = SumOf(gs(T)) /\ SumOf(gs(T \cup {x})) = t + g[x]
    <3>1. PICK p : p = gs(T)
      OBVIOUS
    <3>2. PICK q : q = gs(T \cup {x})
      OBVIOUS
    <3> DEFINE B == T \cup {x}
    <3>3. x \notin T /\ p \in [T -> Nat] /\ q \in [B -> Nat] /\ B = T \cup {x}
      BY <2>3, <3>1, <3>2
    <3>4. q[x] = g[x] /\ \A y \in T : q[y] = p[y]
      BY <2>3, <3>1, <3>2
    <3> HIDE DEF B
    <3>5. SumOf(p) \in Nat /\ SumOf(q) = SumOf(p) + q[x]
      BY <2>1, <3>3, <3>4, SumOneMore
    <3> QED BY <3>1, <3>2, <3>4, <3>5
  <2>6. PICK m \in Nat : m = f[x]
    OBVIOUS
  <2>7. PICK n \in Nat : n = g[x]
    OBVIOUS
  <2>8. a * s <= t * b /\ a * m <= n * b
    BY <1>2, <2>4, <2>5, <2>6, <2>7 DEF Is, Crossed
  <2>9. a * (s + m) = a * s + a * m /\ (t + n) * b = t * b + n * b
    OBVIOUS
  <2>10. a * s \in Nat /\ a * m \in Nat /\ t * b \in Nat /\ n * b \in Nat
    OBVIOUS
  <2>11. a * (s + m) <= (t + n) * b
    BY <2>8, <2>9, <2>10
  <2> QED BY <2>4, <2>5, <2>6, <2>7, <2>11 DEF Is
<1>3. A \in U
  <2>1. U \in SUBSET SUBSET A /\ {} \in U
    BY <1>1
  <2>2. \A T \in U : \A x \in A \ T : T \cup {x} \in U
    BY <1>2
  <2> HIDE DEF U
  <2> QED BY <2>1, <2>2, OneByOne
<1>4. fs(A) = f /\ gs(A) = g
  OBVIOUS
<1> QED BY <1>3, <1>4 DEF Is

=============================================================================
