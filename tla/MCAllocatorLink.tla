--------------------------- MODULE MCAllocatorLink ---------------------------
(***************************************************************************)
(* What goes between the allocators and a replica, for TLC: the heartbeats *)
(* one way and the bundle the other, the peers that choose who discovers,  *)
(* and the placement that bundles are made by, with names and keys that    *)
(* are numbers, hashes 5 bits wide, with ties, and logarithms of 2 bits of *)
(* fraction.  These share no state, so a behaviour is of one part.         *)
(***************************************************************************)
EXTENDS Heartbeats, BundleDelivery, Peers, PlacementPass

VARIABLE part

CONSTANTS g1, g2, g3

MCGenerations == {g1, g2, g3}
MCRefused == {g2}

MCInstances == {1, 2}
MCIds == {1, 2}

MCKeys  == 1 .. 4
MCNames == 1 .. 3

\* The hashes of members 1 to 3 for each key: for key 2 two high ones; for
\* key 4 those of 1 and 2 tie, and their scores with that of 3 when it has a
\* third of their capacity.
MCScore(m, k) ==
  <<<<23, 17, 25>>, <<7, 29, 31>>, <<23, 27, 13>>, <<10, 10, 24>>>>[k][m]

\* Keys 2 and 3 hash alike.
MCunitOrder(k) == IF k \in {2, 3} THEN 5 ELSE (9 * k) % 16

MCrank(x) == x

\* The parts that a behaviour is not of have one state to begin in.
MCInit ==
  /\ part \in {"heartbeats", "bundles", "peers", "placement"}
  /\ HeartbeatsInit
  /\ DeliveryInit /\ (part = "bundles" \/ inForce = NoBundle)
  /\ PeersInit
  /\ part # "peers" => \A i \in Instances : reach[i] /\ id[i] = i
  /\ \/ part = "placement" /\ Init
     \/ /\ part # "placement"
        /\ weight = <<>> /\ capOf = <<>> /\ factor = Milli
        /\ placed = NothingPlaced(capOf)

MCNext ==
  \/ part = "heartbeats" /\ HeartbeatsNext /\ UNCHANGED <<part, dvars, pvars, vars>>
  \/ part = "bundles" /\ DeliveryNext /\ UNCHANGED <<part, hvars, pvars, vars>>
  \/ part = "peers" /\ PeersNext /\ UNCHANGED <<part, hvars, dvars, vars>>
  \/ part = "placement" /\ Next /\ UNCHANGED <<part, hvars, dvars, pvars>>

MCSpec ==
  /\ MCInit /\ [][MCNext]_<<part, hvars, dvars, pvars, vars>>
  /\ \/ part = "heartbeats" /\ HeartbeatsFairness
     \/ part = "bundles" /\ DeliveryFairness
     \/ part = "peers" /\ PeersFairness
     \/ part = "placement"

\* RecordHeals, of the behaviours of heartbeats.
HeartbeatsHeal == part = "heartbeats" => RecordHeals

\* Delivered, of the behaviours of the bundle loop.
BundlesDelivered == part = "bundles" => Delivered

\* OneDiscovers, of the behaviours of the peers.
PeersSettle == part = "peers" => OneDiscovers

=============================================================================
