-------------------------------- MODULE Peers --------------------------------
(***************************************************************************)
(* The instances of pue-allocator that discover, as peers                  *)
(* (internal/allocator/peers.go): the rounds in which each asks the others *)
(* whether they are up and chooses a leader, the snapshots it fetches      *)
(* beside the rounds, and who asks the discovery sources.                  *)
(*                                                                         *)
(* An instance is its address, and addresses are in their order.  A round  *)
(* is three steps, as others change in between: the answers come in, the   *)
(* leader is chosen under the mutex, and the instance acts on it once the  *)
(* fetch it cancels has ended.  A fetch that seeds a new leader looks who  *)
(* leads under the mutex and begins to discover after it.                  *)
(***************************************************************************)
EXTENDS Naturals, FiniteSets

CONSTANTS
  Nobody,            \* no leader, or no answer
  Instances,         \* the addresses, numbers in the order of comparePeers
  Ids,               \* the ids of processes
  FailureThreshold,  \* --peers.failure-threshold
  MaxLost,           \* bound: checks of an instance that runs which fail
  MaxStops           \* bound: instances that shut down or crash

ASSUME PeersAssumption ==
  /\ Instances \subseteq Nat /\ Nobody \notin Instances
  /\ IsFiniteSet(Ids) /\ Ids \subseteq Nat
  /\ Cardinality(Instances) <= Cardinality(Ids)
  /\ FailureThreshold \in Nat \ {0} /\ MaxLost \in Nat /\ MaxStops \in Nat

VARIABLES
  reach,        \* whether --peers leads an instance to its own address
  up,           \* whether an instance runs, is shutting down, or is down
  id,           \* its process's id
  self,         \* whether it knows its own address
  known,        \* peers.known: of each peer, live, fails, and its last answer
  leader,       \* the leader it has chosen, itself when it leads, or Nobody
  took,         \* it has fetched a snapshot as a follower
  discovering,  \* it asks the discovery sources
  round,        \* where its round is, and what the round has found out
  snap,         \* its snapshot fetch
  lost, stops   \* what the bounds count

learned == <<self, known, leader, took>>
pvars   == <<reach, up, id, learned, discovering, round, snap, lost, stops>>

Failed  == [says |-> "failed", id |-> 0, discovering |-> FALSE, addressKnown |-> FALSE]
Leaving == [Failed EXCEPT !.says = "shutting down"]
Unseen  == [live |-> FALSE, fails |-> 0, answer |-> Failed]
Waiting == [at |-> "waiting", answers |-> Nobody, seed |-> FALSE]
NoFetch == [at |-> "ended", from |-> Nobody, seed |-> FALSE, cancelled |-> FALSE]

Lowest(S) == CHOOSE x \in S : \A y \in S : x <= y

Running(i) == up[i] = "running"

\* A process ends, and what it knew with it; one that shuts down stops its
\* rounds, its fetch and its refresh loops.
Forgets(i) ==
  /\ self' = [self EXCEPT ![i] = FALSE]
  /\ known' = [known EXCEPT ![i] = [j \in Instances |-> Unseen]]
  /\ leader' = [leader EXCEPT ![i] = Nobody]
  /\ took' = [took EXCEPT ![i] = FALSE]
  /\ discovering' = [discovering EXCEPT ![i] = FALSE]
  /\ round' = [round EXCEPT ![i] = Waiting]
  /\ snap' = [snap EXCEPT ![i] = NoFetch]

PeersInit ==
  /\ reach \in [Instances -> BOOLEAN]
  /\ up = [i \in Instances |-> "running"]
  /\ id \in [Instances -> Ids] /\ \A i, j \in Instances : i # j => id[i] # id[j]
  /\ self = [i \in Instances |-> FALSE]
  /\ known = [i \in Instances |-> [j \in Instances |-> Unseen]]
  /\ leader = [i \in Instances |-> Nobody]
  /\ took = [i \in Instances |-> FALSE]
  /\ discovering = [i \in Instances |-> FALSE]
  /\ round = [i \in Instances |-> Waiting]
  /\ snap = [i \in Instances |-> NoFetch]
  /\ lost = 0 /\ stops = 0

-----------------------------------------------------------------------------
(* A round. *)

\* The instances i checks: not itself once it knows its address, nor when
\* --peers does not lead there.
Checked(i) == {j \in Instances : j # i \/ (reach[i] /\ ~self[i])}

\* What instance j answers at PeerPath.
servePeer(j) ==
  IF up[j] = "down" THEN Failed
  ELSE IF up[j] = "stopping" THEN Leaving
  ELSE [says |-> "up", id |-> id[j], discovering |-> discovering[j],
        addressKnown |-> self[j]]

\* Who discovers is of use only to an instance that does not know its address.
Heard(i, answer) ==
  IF self[i] THEN [Failed EXCEPT !.says = answer.says] ELSE answer

\* The answers come in; those of `slow' do not, though they may have come.
check(i) ==
  /\ Running(i)
  /\ round[i].at = "waiting"
  /\ \E slow \in SUBSET {j \in Checked(i) : Running(j)} :
       /\ lost + Cardinality(slow) <= MaxLost
       /\ lost' = lost + Cardinality(slow)
       /\ round' = [round EXCEPT ![i] = [Waiting EXCEPT
            !.at = "checked",
            !.answers = [j \in Checked(i) |->
                           IF j \in slow THEN Failed ELSE Heard(i, servePeer(j))]]]
  /\ UNCHANGED <<reach, up, id, learned, discovering, snap, stops>>

\* What one check leaves known of a peer: how often a live one has failed in a
\* row, and its last answer.  One that is shutting down is not live at once.
Noted(st, answer) ==
  IF answer.says = "up" THEN [live |-> TRUE, fails |-> 0, answer |-> answer]
  ELSE IF st.live /\ answer.says = "failed" /\ st.fails + 1 < FailureThreshold
  THEN [st EXCEPT !.fails = @ + 1]
  ELSE Unseen

\* What instance i knows after its round's answers, itself left out.
KnownAfter(i) ==
  [j \in Instances |->
     IF j = i THEN Unseen ELSE Noted(known[i][j], round[i].answers[j])]

LiveIn(peers) == {j \in Instances : peers[j].live}

\* chooseLeader, but for who discovers.
chooseLeader_Lowest(i, knows, peers) ==
  IF knows \/ LiveIn(peers) = {} THEN Lowest(LiveIn(peers) \cup {i})
                                ELSE Lowest(LiveIn(peers))

\* The leader among an instance and its live peers: the lowest address, or,
\* for one that does not know its own, the lowest of those that discover and
\* know theirs, else the one of the lowest id of those that discover, itself
\* included when it does.
chooseLeader(i, knows, peers) ==
  LET others == LiveIn(peers)
      busy   == {j \in others : peers[j].answer.discovering}
      ranked == {j \in busy : peers[j].answer.addressKnown}
      first  == CHOOSE j \in busy :
                  \A k \in busy : peers[j].answer.id <= peers[k].answer.id
  IN  IF knows THEN Lowest(others \cup {i})
      ELSE IF ranked # {} THEN Lowest(ranked)
      ELSE IF busy = {} \/ (discovering[i] /\ id[i] < peers[first].answer.id) THEN i
      ELSE first

Ended(f) == f.at = "ended"

\* Kept, but for whom it is from.
Kept_Any(i, chosen, seed) == ~seed

\* Whether the round goes on with the fetch under way: a follower's of the
\* leader it has, or the one that seeds the leader.
Kept(i, chosen, seed) ==
  IF chosen = i THEN snap[i].seed /\ ~seed
                ELSE ~snap[i].seed /\ snap[i].from = chosen

\* What is known is brought up to date and the leader chosen, under the mutex;
\* a fetch the round does not go on with is cancelled.
choose(i) ==
  /\ Running(i)
  /\ round[i].at = "checked"
  /\ LET knows  == self[i] \/ (i \in Checked(i) /\ round[i].answers[i].says = "up")
         now    == KnownAfter(i)
         chosen == chooseLeader(i, knows, now)
         seed   == chosen = i /\ leader[i] # i /\ ~took[i] /\ LiveIn(now) # {}
     IN  /\ self' = [self EXCEPT ![i] = knows]
         /\ known' = [known EXCEPT ![i] = now]
         /\ leader' = [leader EXCEPT ![i] = chosen]
         /\ round' = [round EXCEPT ![i] = [Waiting EXCEPT !.at = "chosen", !.seed = seed]]
         /\ snap' = [snap EXCEPT ![i].cancelled =
                        ~Ended(snap[i]) /\ (@ \/ ~Kept(i, chosen, seed))]
  /\ UNCHANGED <<reach, up, id, took, discovering, lost, stops>>

\* The instance acts on its choice: a leader that has nothing yet is seeded,
\* another discovers, and a follower stops discovering and fetches.
Acts(i) ==
  /\ round' = [round EXCEPT ![i] = Waiting]
  /\ LET leads == leader[i] = i
         seeds == leads /\ round[i].seed
     IN  /\ discovering' = [discovering EXCEPT ![i] =
                leads /\ (@ \/ (Ended(snap[i]) /\ ~seeds))]
         /\ snap' = [snap EXCEPT ![i] =
                IF ~Ended(@) \/ (leads /\ ~seeds) THEN @
                ELSE [at |-> "asking", seed |-> leads, cancelled |-> FALSE,
                      from |-> IF leads THEN Lowest(LiveIn(known[i])) ELSE leader[i]]]
  /\ UNCHANGED <<reach, up, id, learned, lost, stops>>

\* act, but for the wait.
act_AtOnce(i) == Running(i) /\ round[i].at = "chosen" /\ Acts(i)

\* It does so once a fetch it has cancelled has ended.
act(i) ==
  /\ Running(i) /\ round[i].at = "chosen"
  /\ Ended(snap[i]) \/ ~snap[i].cancelled
  /\ Acts(i)

-----------------------------------------------------------------------------
(* A fetch, and who comes and goes. *)

\* A fetch ends, or finds that its instance leads, unless it was cancelled.
fetchEnds(i) ==
  /\ snap[i].at = "asking"
  /\ LET f == snap[i] IN
       \/ /\ snap' = [snap EXCEPT ![i] =
                IF f.seed /\ ~f.cancelled /\ leader[i] = i
                THEN [f EXCEPT !.at = "leading"] ELSE NoFetch]
          /\ UNCHANGED took
       \/ /\ ~f.seed /\ ~f.cancelled /\ up[f.from] # "down"
          /\ snap' = [snap EXCEPT ![i] = NoFetch]
          /\ took' = [took EXCEPT ![i] = TRUE]
  /\ UNCHANGED <<reach, up, id, self, known, leader, discovering, round, lost, stops>>

\* The seeded leader begins to discover.
seedLeads(i) ==
  /\ snap[i].at = "leading"
  /\ snap' = [snap EXCEPT ![i] = NoFetch]
  /\ discovering' = [discovering EXCEPT ![i] = TRUE]
  /\ UNCHANGED <<reach, up, id, learned, round, lost, stops>>

\* The process shuts down, which its PeerPath tells, or crashes.
Leaves(i, to) ==
  /\ Running(i)
  /\ stops < MaxStops
  /\ stops' = stops + 1
  /\ up' = [up EXCEPT ![i] = to]
  /\ Forgets(i)
  /\ UNCHANGED <<reach, id, lost>>

BeginShutdown(i) == Leaves(i, "stopping")
Crash(i)         == Leaves(i, "down")

Exit(i) ==
  /\ up[i] = "stopping"
  /\ up' = [up EXCEPT ![i] = "down"]
  /\ UNCHANGED <<reach, id, learned, discovering, round, snap, lost, stops>>

\* Another process starts at the address, of an id no other has.
Start(i) ==
  /\ up[i] = "down"
  /\ up' = [up EXCEPT ![i] = "running"]
  /\ \E n \in Ids \ {id[j] : j \in Instances \ {i}} : id' = [id EXCEPT ![i] = n]
  /\ UNCHANGED <<reach, learned, discovering, round, snap, lost, stops>>

Rounds(i) == check(i) \/ choose(i) \/ act(i)
Fetches(i) == fetchEnds(i) \/ seedLeads(i)

PeersNext ==
  \E i \in Instances :
    \/ Rounds(i) \/ Fetches(i)
    \/ BeginShutdown(i) \/ Crash(i) \/ Exit(i) \/ Start(i)

PeersSpec == PeersInit /\ [][PeersNext]_pvars

\* Rounds go on, each bounded by the timeouts of its checks, and a fetch ends
\* by its own or when it is cancelled.
PeersFairness ==
  \A i \in Instances :
    WF_pvars(Rounds(i)) /\ WF_pvars(Fetches(i)) /\ WF_pvars(Exit(i))

PeersFairSpec == PeersSpec /\ PeersFairness

-----------------------------------------------------------------------------
(* Properties. *)

\* Part of PeersInOrder: every variable has its type, and one that does not run
\* knows nothing and does nothing.
PeersTypeOK ==
  /\ up \in [Instances -> {"running", "stopping", "down"}]
  /\ id \in [Instances -> Ids]
  /\ \A i \in Instances :
       /\ self[i] \in BOOLEAN /\ took[i] \in BOOLEAN
       /\ discovering[i] \in BOOLEAN
       /\ leader[i] \in Instances \cup {Nobody}
       /\ round[i].at \in {"waiting", "checked", "chosen"}
       /\ snap[i].at \in {"ended", "asking", "leading"}
       /\ \A j \in Instances : known[i][j].fails \in 0 .. FailureThreshold
       /\ ~Running(i) => leader[i] = Nobody /\ Ended(snap[i]) /\ ~discovering[i]

\* Part of PeersInOrder: between two rounds an instance asks the sources exactly
\* while it leads and is not being seeded: no fetch that ends late begins to
\* discover for an instance that follows again, and none leaves a leader
\* without.
DiscoversAsChosen ==
  \A i \in Instances :
    round[i].at # "chosen" /\ ~(snap[i].seed /\ leader[i] = i) =>
      (discovering[i] <=> leader[i] = i)

\* Part of PeersInOrder: while a follower fetches, it is from the leader it has
\* chosen.
FetchesOfLeader ==
  \A i \in Instances :
    ~Ended(snap[i]) /\ ~snap[i].cancelled =>
      IF snap[i].seed THEN leader[i] = i ELSE snap[i].from = leader[i]

\* Who discovers, and whom the others follow, is as the last round of each has
\* chosen.
PeersInOrder == PeersTypeOK /\ DiscoversAsChosen /\ FetchesOfLeader

\* Answers to a round do not come in just while another instance acts on its
\* choice, which takes no time next to the wait between rounds.
Apart ==
  [][\A i, j \in Instances :
       round[i].at = "waiting" /\ round[j].at = "chosen" => round'[i] = round[i]]_pvars

\* Once no instance comes or goes, no check is lost and rounds no longer meet
\* as they act, exactly one of those that run asks the sources, whichever of
\* them know their own address.
OneDiscovers ==
  <>Apart =>
  <>[](\/ \A i \in Instances : ~Running(i)
       \/ Cardinality({i \in Instances : Running(i) /\ discovering[i]}) = 1)

=============================================================================
