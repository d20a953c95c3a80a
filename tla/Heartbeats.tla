------------------------------ MODULE Heartbeats ------------------------------
(***************************************************************************)
(* The heartbeats of one replica on their way to one instance of the       *)
(* allocator: the processes that run as the replica one after the other    *)
(* (internal/allocclient/client.go), what travels, and the allocator's     *)
(* record of the member (internal/allocator/allocator.go).                 *)
(*                                                                         *)
(* A heartbeat given up on still travels, and may arrive after later ones, *)
(* of its process or of the next.  A process numbers its heartbeats; the   *)
(* numbers are only compared, so they are modelled by the order of what    *)
(* travels, and the number last applied by how many of those are older.    *)
(***************************************************************************)
EXTENDS Naturals, Sequences, SequencesExt

CONSTANTS
  NoRecord,      \* no record, or no process
  MaxProcesses,  \* bound: the processes that run as the replica in turn
  MaxInFlight,   \* bound: the heartbeats of a process that travel at once
  RecordTTL      \* the allocator's member TTL, in ticks

ASSUME HeartbeatsAssumption ==
  MaxProcesses \in Nat \ {0} /\ MaxInFlight \in Nat \ {0} /\ RecordTTL \in Nat \ {0}

Processes == 1 .. MaxProcesses

ASSUME NoRecordAssumption == NoRecord \notin Processes

VARIABLES
  process,     \* the process that runs: Client.instance
  down,        \* its Client.shuttingDown
  sending,     \* the slot of the address: a heartbeat is waited for
  travelling,  \* each process's heartbeats on their way, as they were built
  member       \* the allocator's record of the member, or NoRecord

hvars == <<process, down, sending, travelling, member>>

HeartbeatsInit ==
  /\ process = 1
  /\ down = FALSE
  /\ sending = FALSE
  /\ travelling = [p \in Processes |-> <<>>]
  /\ member = NoRecord

-----------------------------------------------------------------------------
(* The replica. *)

\* A heartbeat is built with its number once the slot is free: by the loop at
\* any time, and by ShuttingDown when its turn comes before its context ends.
heartbeatOne ==
  /\ ~sending
  /\ Len(travelling[process]) < MaxInFlight
  /\ sending' = TRUE
  /\ travelling' = [travelling EXCEPT ![process] = Append(@, down)]
  /\ UNCHANGED <<process, down, member>>

\* The reply is in, or the heartbeat is given up on; it may still travel.
heartbeatBack ==
  /\ sending
  /\ sending' = FALSE
  /\ UNCHANGED <<process, down, travelling, member>>

ShuttingDown ==
  /\ ~down
  /\ down' = TRUE
  /\ UNCHANGED <<process, sending, travelling, member>>

\* The process ends, however it does, and the next of the same member starts.
Restart ==
  /\ process < MaxProcesses
  /\ process' = process + 1
  /\ down' = FALSE
  /\ sending' = FALSE
  /\ UNCHANGED <<travelling, member>>

-----------------------------------------------------------------------------
(* The allocator. *)

\* stale, but for the numbers.
stale_Instance(p, k) == member.instance # p /\ member.retired = p

\* Whether the k-th heartbeat of p is older than the last applied.
stale(p, k) ==
  IF member.instance = p THEN k <= member.older ELSE member.retired = p

\* The record, the k-th heartbeat of p not travelling any more.
Gone(p, k) ==
  IF member # NoRecord /\ member.instance = p /\ k <= member.older
  THEN [member EXCEPT !.older = @ - 1] ELSE member

\* Ignored, but for the time of the last heartbeat.
Ignored_Seen(p, k) ==
  IF member = NoRecord THEN NoRecord ELSE [Gone(p, k) EXCEPT !.age = 0]

\* The record an ignored heartbeat leaves: what it was.
Ignored(p, k) == Gone(p, k)

\* The record the k-th heartbeat of p leaves: it names the process before, and
\* everything p built before the heartbeat is older than it.
Applied(p, k) ==
  [instance |-> p,
   retired  |-> IF member = NoRecord THEN NoRecord
                ELSE IF member.instance # p THEN member.instance
                ELSE member.retired,
   shuttingDown |-> travelling[p][k],
   older    |-> k - 1,
   age      |-> 0]

\* A heartbeat arrives.
Heartbeat(p, k) ==
  /\ k \in 1 .. Len(travelling[p])
  /\ member' = IF IF member = NoRecord THEN travelling[p][k] ELSE stale(p, k)
               THEN Ignored(p, k) ELSE Applied(p, k)
  /\ travelling' = [travelling EXCEPT ![p] = RemoveAt(@, k)]
  /\ UNCHANGED <<process, down, sending>>

\* A heartbeat is lost.
Lose(p, k) ==
  /\ k \in 1 .. Len(travelling[p])
  /\ member' = Gone(p, k)
  /\ travelling' = [travelling EXCEPT ![p] = RemoveAt(@, k)]
  /\ UNCHANGED <<process, down, sending>>

\* Time passes without a heartbeat applied.
Age ==
  /\ member # NoRecord
  /\ member.age < RecordTTL
  /\ member' = [member EXCEPT !.age = @ + 1]
  /\ UNCHANGED <<process, down, sending, travelling>>

\* A member that is not live leaves the list, and then its record is dropped;
\* an instance of the allocator that starts has none.
Forget ==
  /\ member # NoRecord
  /\ member.age = RecordTTL
  /\ member' = NoRecord
  /\ UNCHANGED <<process, down, sending, travelling>>

Travels(p) == \E k \in 1 .. MaxInFlight : Heartbeat(p, k) \/ Lose(p, k)

HeartbeatsNext ==
  \/ heartbeatOne \/ heartbeatBack \/ ShuttingDown \/ Restart
  \/ \E p \in Processes : Travels(p)
  \/ Age \/ Forget

HeartbeatsSpec == HeartbeatsInit /\ [][HeartbeatsNext]_hvars

\* The running process heartbeats at its interval and gives up in time, what
\* travels does not travel for ever, the network loses not every heartbeat
\* that is the last built, time passes, and a member that is no longer live is
\* dropped in the end (Membership's ListTakesEffect).
HeartbeatsFairness ==
  /\ WF_hvars(heartbeatOne) /\ WF_hvars(heartbeatBack)
  /\ \A p \in Processes :
       /\ WF_hvars(Travels(p))
       /\ SF_hvars(p = process /\ Heartbeat(p, Len(travelling[p])))
  /\ WF_hvars(Age) /\ WF_hvars(Forget)

-----------------------------------------------------------------------------
(* Properties. *)

\* Part of DownStaysDown: every variable has its type, and what is older than
\* the last applied is part of what travels.
HeartbeatsTypeOK ==
  /\ process \in Processes /\ down \in BOOLEAN /\ sending \in BOOLEAN
  /\ travelling \in [Processes -> Seq(BOOLEAN)]
  /\ member # NoRecord =>
       /\ member \in [instance : Processes, retired : Processes \cup {NoRecord},
                      shuttingDown : BOOLEAN, older : Nat, age : 0 .. RecordTTL]
       /\ member.older <= Len(travelling[member.instance])

\* While a member's record is held, one that said it is shutting down is not
\* made live again by a heartbeat its process sent before, however many of
\* them were given up on and in whatever order they arrive.
DownStaysDown ==
  /\ []HeartbeatsTypeOK
  /\ [][member # NoRecord /\ member.shuttingDown /\ member' # NoRecord
          /\ ~member'.shuttingDown => member'.instance # member.instance]_hvars

\* Whatever arrived late, the record is in the end, and for good, what the
\* process that runs last says of itself; and while it is not shutting down it
\* is on record again and again.
RecordHeals ==
  /\ <>[](\/ member = NoRecord
          \/ member.instance = process /\ member.shuttingDown = down)
  /\ []<>(member # NoRecord \/ down)

=============================================================================
