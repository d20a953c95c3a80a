---------------------------- MODULE PlacementPass ----------------------------
(***************************************************************************)
(* The loop of place (internal/allocator/placement.go), a unit at a step,  *)
(* over every small set of units and members, and what the placement it    *)
(* ends with promises.                                                     *)
(***************************************************************************)
EXTENDS Placement

CONSTANTS
  Weights,          \* the weights a unit may have
  Caps,             \* the capacities a member may have
  Factors           \* the balance factors, 1 (Milli) or above

ASSUME PassAssumption ==
  /\ Weights \subseteq Nat \ {0} /\ Caps \subseteq Nat \ {0}
  /\ Factors \subseteq Nat /\ \A f \in Factors : f >= Milli

VARIABLES
  weight,     \* the units, with their weights
  capOf,      \* the members, with their capacities
  factor,     \* the balance factor
  placed      \* the placement so far

vars == <<weight, capOf, factor, placed>>

left == DOMAIN weight \ DOMAIN placed.owner

Init ==
  /\ weight \in UNION {[K -> Weights] : K \in SUBSET Keys}
  /\ capOf \in UNION {[S -> Caps] : S \in (SUBSET Names) \ {{}}}
  /\ factor \in Factors
  /\ placed = NothingPlaced(capOf)

PlaceNext ==
  /\ left # {}
  /\ placed' = placeUnit(placed, FirstOf(left), weight, capOf, factor)
  /\ UNCHANGED <<weight, capOf, factor>>

Next == PlaceNext

Spec == Init /\ [][Next]_vars

-----------------------------------------------------------------------------
(* Properties. *)

\* The units on a member.
held(m) == {k \in DOMAIN placed.owner : placed.owner[k] = m}

\* Part of PlacementHolds: a unit is on a member of the list, and a member's
\* load is the weight of the units on it.
TypeOK ==
  /\ DOMAIN placed.owner \subseteq DOMAIN weight
  /\ \A k \in DOMAIN placed.owner : placed.owner[k] \in DOMAIN capOf
  /\ \A m \in DOMAIN capOf :
       placed.load[m] = SumOf([k \in held(m) |-> weight[k]])

\* Part of PlacementHolds: members rank in one strict order for every key,
\* whatever their capacities and however the logarithms round, so sorting by
\* better gives one order and pick does not depend on the order it is given the
\* members in.
OneOrder ==
  \A k \in Keys : \A m, n \in DOMAIN capOf :
    m # n =>
      /\ better(m, n, k, capOf) <=> ~better(n, m, k, capOf)
      /\ \A o \in DOMAIN capOf \ {m, n} :
           better(m, n, k, capOf) /\ better(n, o, k, capOf)
             => better(m, o, k, capOf)

\* Part of PlacementHolds: no member holds more than its bound but by the one
\* unit that found no room anywhere, which went to a member below its fair
\* share: what a member holds is within its bound, or within its fair share and
\* one unit.
BoundKept ==
  \A m \in DOMAIN capOf :
    \/ placed.load[m] <= boundOf(m, capOf, total(weight), factor)
    \/ \E k \in held(m) :
         (placed.load[m] - weight[k]) * capacity(capOf) < total(weight) * capOf[m]

\* Part of PlacementHolds: with the balance factor at the number of members or
\* above, and members of one capacity, every unit goes to the member plain
\* rendezvous hashing gives.
PlainWhenRoomy ==
  \A k \in DOMAIN placed.owner :
    /\ factor >= Cardinality(DOMAIN capOf) * Milli
    /\ \A m, n \in DOMAIN capOf : capOf[m] = capOf[n]
    => placed.owner[k] = Owner(DOMAIN capOf, k)

\* With a balance factor that leaves room for everything everywhere, a member
\* that leaves the list moves its own units alone.
OnlyItsOwnMove ==
  left = {} =>
    \A gone \in DOMAIN capOf :
      LET rest == [m \in DOMAIN capOf \ {gone} |-> capOf[m]]
          then == place(weight, rest, factor)
      IN  /\ DOMAIN rest # {}
          /\ \A m \in DOMAIN rest :
               /\ boundOf(m, capOf, total(weight), factor) >= total(weight)
               /\ boundOf(m, rest, total(weight), factor) >= total(weight)
          => \A k \in DOMAIN weight :
               placed.owner[k] # gone => then.owner[k] = placed.owner[k]

\* Part of PlacementHolds: a member of the higher hash and no less capacity
\* ranks above, so that the rounding of logarithms never takes a key from it:
\* log2Fixed never falls.
HigherWins ==
  \A k \in Keys : \A m, n \in DOMAIN capOf :
    Score(m, k) > Score(n, k) /\ capOf[m] >= capOf[n] => better(m, n, k, capOf)

\* The order members rank in is one, and that of their scores; loads are what
\* the placement says, and bounded; and no unit is elsewhere than plain
\* rendezvous hashing has it where there is room for it there.
PlacementHolds == OneOrder /\ HigherWins /\ TypeOK /\ BoundKept /\ PlainWhenRoomy

=============================================================================
