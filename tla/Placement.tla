------------------------------- MODULE Placement -------------------------------
(***************************************************************************)
(* How pue-allocator places the targets over the members of its list       *)
(* (internal/allocator/placement.go): weighted rendezvous hashing with     *)
(* bounded loads.  PlacementPass checks it.                                *)
(*                                                                         *)
(* Hashes are numbers below 2^HashBits (64 in the code), their logarithms  *)
(* integers of LogBits bits of fraction (32 in the code): log2Fixed is the *)
(* code's digit by digit loop at that width, its rounding included.        *)
(***************************************************************************)
EXTENDS Integers, FiniteSets, Sums

CONSTANTS
  Keys,             \* the shard keys of units
  Names,            \* the names of members
  Score(_, _),      \* allocapi.Score: the hash of a member for a key
  unitOrder(_),     \* a hash of a key
  rank(_),          \* the order of names and keys as strings
  HashBits,         \* the width of a hash
  LogBits,          \* the fraction of a logarithm
  Milli             \* one, in the unit of weights and capacities

ASSUME PlacementAssumption ==
  /\ HashBits \in Nat \ {0, 1} /\ LogBits \in Nat /\ Milli \in Nat \ {0}
  /\ IsFiniteSet(Keys) /\ IsFiniteSet(Names)
  /\ \A m \in Names, k \in Keys : Score(m, k) \in 0 .. 2^HashBits - 1
  /\ \A k \in Keys : unitOrder(k) \in Int
  /\ \A m \in Names : rank(m) \in Int /\ \A n \in Names : rank(m) = rank(n) => m = n
  /\ \A j \in Keys : rank(j) \in Int /\ \A k \in Keys : rank(j) = rank(k) => j = k

-----------------------------------------------------------------------------
(* Logarithms. *)

\* The highest bit set of v.
HighBit(v) == CHOOSE n \in 0 .. HashBits - 1 : 2^n <= v /\ v < 2^(n + 1)

\* One, where what is left is kept: HashBits - 2 bits of fraction.
One == 2^(HashBits - 2)

\* nextDigit, but for what is left after a digit of 1.
nextDigit_Whole(d) ==
  LET y == (d.y * d.y) \div One
  IN  [y |-> y, sum |-> 2 * d.sum + (y \div (2 * One))]

\* The next bit of the fraction: of 1, when the square of what is left is 2 or
\* above, of which half is left.
nextDigit(d) ==
  LET y == (d.y * d.y) \div One
  IN  IF y >= 2 * One
      THEN [y |-> y \div 2, sum |-> 2 * d.sum + 1]
      ELSE [y |-> y, sum |-> 2 * d.sum]

\* The first bits of the fraction of the logarithm of y, from 1 to 2, and what
\* is left after each.
digits(y) ==
  LET digit[i \in 0 .. LogBits] ==
        IF i = 0 THEN [y |-> y, sum |-> 0] ELSE nextDigit(digit[i - 1])
  IN  digit

\* log2 of v, for v of 1 to 2^(HashBits-1), rounded down: the whole part, and
\* each bit of the fraction by squaring what is left.
log2Fixed(v) ==
  LET n == HighBit(v)
  IN  n * 2^LogBits + digits((v * One) \div 2^n)[LogBits].sum

\* -log2 of a hash as a fraction of the hashes: (hash/2 + 1) / 2^(HashBits-1).
negLog(hash) ==
  (HashBits - 1) * 2^LogBits - log2Fixed((hash \div 2) + 1)

-----------------------------------------------------------------------------
(* Which member a unit prefers, and which has room for it. *)

\* m ranks above n for key: the higher score, capacity over -log2 hash,
\* compared crossed; then the higher hash, then the lower name.  Members of
\* one capacity are compared by their hashes alone.
better(m, n, key, capOf) ==
  LET hm == Score(m, key)
      hn == Score(n, key)
      sm == capOf[m] * negLog(hn)
      sn == capOf[n] * negLog(hm)
  IN  IF capOf[m] # capOf[n] /\ sm # sn
      THEN sm > sn
      ELSE hm > hn \/ (hm = hn /\ rank(m) < rank(n))

\* The best of a set of members.
First(S, key, capOf) ==
  CHOOSE m \in S : \A n \in S \ {m} : better(m, n, key, capOf)

total(weight) == SumOf(weight)

capacity(capOf) == SumOf(capOf)

\* The balance factor times a member's fair share of `sum', rounded down.
boundOf(m, capOf, sum, factor) ==
  (factor * sum * capOf[m]) \div (capacity(capOf) * Milli)

\* lessLoaded, but for the capacities.
lessLoaded_Plain(m, n, load, capOf) == load[m] < load[n]

\* m is less loaded than n for its capacity, the quotients compared crossed.
lessLoaded(m, n, load, capOf) == load[m] * capOf[n] < load[n] * capOf[m]

\* pick, but for a member of a lower score that has room.
pick_Least(key, w, capOf, load, sum, factor) ==
  First({m \in DOMAIN capOf :
           \A n \in DOMAIN capOf : ~lessLoaded(n, m, load, capOf)}, key, capOf)

\* The member a unit goes to: the first in score order with room, or else the
\* least loaded for its capacity, the higher in score order of those alike.
pick(key, w, capOf, load, sum, factor) ==
  LET room  == {m \in DOMAIN capOf :
                  load[m] + w <= boundOf(m, capOf, sum, factor)}
      least == {m \in DOMAIN capOf :
                  \A n \in DOMAIN capOf : ~lessLoaded(n, m, load, capOf)}
  IN  First(IF room # {} THEN room ELSE least, key, capOf)

\* The pass takes the units in the order of a hash of their keys.
before(j, k) ==
  unitOrder(j) < unitOrder(k) \/ (unitOrder(j) = unitOrder(k) /\ rank(j) < rank(k))

LastOf(S)  == CHOOSE k \in S : \A j \in S \ {k} : before(j, k)
FirstOf(S) == CHOOSE k \in S : \A j \in S \ {k} : before(k, j)

\* placeUnit, but for the load.
placeUnit_NoLoad(p, key, weight, capOf, factor) ==
  LET m == pick(key, weight[key], capOf, p.load, total(weight), factor)
  IN  [owner |-> [k \in DOMAIN p.owner \cup {key} |->
                    IF k = key THEN m ELSE p.owner[k]],
       load  |-> p.load]

\* One unit placed: p is the placement of those before it.
placeUnit(p, key, weight, capOf, factor) ==
  LET m == pick(key, weight[key], capOf, p.load, total(weight), factor)
  IN  [owner |-> [k \in DOMAIN p.owner \cup {key} |->
                    IF k = key THEN m ELSE p.owner[k]],
       load  |-> [p.load EXCEPT ![m] = @ + weight[key]]]

NothingPlaced(capOf) ==
  [owner |-> [k \in {} |-> 0], load |-> [m \in DOMAIN capOf |-> 0]]

\* The placement of the units of each set, in the order of the pass.
placements(weight, capOf, factor) ==
  LET after[S \in SUBSET DOMAIN weight] ==
        IF S = {} THEN NothingPlaced(capOf)
        ELSE placeUnit(after[S \ {LastOf(S)}], LastOf(S), weight, capOf, factor)
  IN  after

\* The placement of units over members: `weight' has the weight of each unit,
\* `capOf' the capacity of each member.
place(weight, capOf, factor) ==
  IF DOMAIN capOf = {}
  THEN NothingPlaced(capOf)
  ELSE placements(weight, capOf, factor)[DOMAIN weight]

\* Plain rendezvous hashing (allocapi.Owner), which the placement is held to.
Owner(S, key) ==
  CHOOSE m \in S : \A n \in S \ {m} :
    \/ Score(m, key) > Score(n, key)
    \/ Score(m, key) = Score(n, key) /\ rank(m) < rank(n)

=============================================================================
