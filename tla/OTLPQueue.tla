------------------------------ MODULE OTLPQueue ------------------------------
(***************************************************************************)
(* The queue of data points on their way out over OTLP                     *)
(* (internal/exporter/otlp.go): results queue their points, a newer one of *)
(* a series in the place of the one waiting; an export drains the queue,   *)
(* sends what it drained in requests one after another, and queues again   *)
(* what it could not deliver, while results go on queueing; past the cap   *)
(* the oldest points are dropped; export may be switched off and on; and   *)
(* the shutdown cuts an export short and makes the last one (main.go).     *)
(*                                                                         *)
(* A point is its number, pendingMetric.seq, given as it is queued: the    *)
(* larger, the newer.  The exporter's own metrics are left out: they are   *)
(* in an export without being in the queue.                                *)
(***************************************************************************)
EXTENDS Integers, FiniteSets, FiniteSetsExt

CONSTANTS
  Series,       \* the series points are of, in the order of their keys
  MaxPending,   \* otlp.max_pending_points
  MaxRequests,  \* bound: the requests an export is split into
  MaxPoints     \* bound: the points queued

ASSUME QueueAssumption ==
  /\ IsFiniteSet(Series) /\ Series \subseteq Nat
  /\ {MaxPending, MaxRequests} \subseteq Nat \ {0} /\ MaxPoints \in Nat

VARIABLES
  enabled,    \* otlp.enabled, of the configuration in force
  otlpSeq,    \* Server.otlpSeq
  pending,    \* the point of each series in Server.otlpPending, or 0
  exporting,  \* the point of each series an export has yet to settle, or 0
  request,    \* otlpRequests.last of each series of the export
  sending,    \* the request the export is at, 0 without one
  phase,      \* how far the shutdown is
  dropped,    \* the sum of otlpStatus.dropped
  newest,     \* history: the point of each series queued last
  acked,      \* history: the points the endpoint took
  replaced,   \* history: those given up for a newer one of their series
  off         \* history: those thrown away with export switched off

history == <<newest, acked, replaced, off>>
export  == <<exporting, request, sending>>
qvars   == <<enabled, otlpSeq, pending, export, phase, dropped, history>>

NoPoints  == [s \in Series |-> 0]
Points(q) == {q[s] : s \in Series} \ {0}

QueueInit ==
  /\ enabled = TRUE
  /\ otlpSeq = 0 /\ pending = NoPoints /\ newest = NoPoints
  /\ exporting = NoPoints /\ request = [s \in Series |-> 1] /\ sending = 0
  /\ phase = "run" /\ dropped = 0
  /\ acked = {} /\ replaced = {} /\ off = {}

-----------------------------------------------------------------------------
(* The queue. *)

\* How many of n points capPendingLocked drops: past the cap, down to nine
\* tenths of it.
Excess(n) == IF n <= MaxPending THEN 0 ELSE n - (MaxPending * 9) \div 10

\* The points it drops, the oldest.
Oldest(q) ==
  {p \in Points(q) : Cardinality({o \in Points(q) : o < p}) < Excess(Cardinality(Points(q)))}

\* The queue without some of its points.
Without(q, gone) == [s \in Series |-> IF q[s] \in gone THEN 0 ELSE q[s]]

\* The queue with the points put in it, and what is dropped counted.
Capped(q, counted) ==
  /\ pending' = Without(q, Oldest(q))
  /\ dropped' = dropped + counted + Cardinality(Oldest(q))

\* queueOTLPResource: the points of a result, in the order of their keys.
queueOTLPResource(S) ==
  LET point(s) == otlpSeq + Cardinality({r \in S : r <= s})
      Put(q)   == [s \in Series |-> IF s \in S THEN point(s) ELSE q[s]]
  IN
  /\ enabled /\ phase # "over"
  /\ otlpSeq + Cardinality(S) <= MaxPoints
  /\ otlpSeq' = otlpSeq + Cardinality(S)
  /\ Capped(Put(pending), 0)
  /\ newest' = Put(newest)
  /\ replaced' = replaced \cup ({pending[s] : s \in S} \ {0})
  /\ UNCHANGED <<enabled, export, phase, acked, off>>

\* The points of the export sent last in a request, and in it or after it.
OfRequest(k) == {exporting[s] : s \in {r \in Series : request[r] = k}} \ {0}

\* FromRequest, but for the points of that request.
FromRequest_After(k) == {exporting[s] : s \in {r \in Series : request[r] > k}} \ {0}

FromRequest(k) == {exporting[s] : s \in {r \in Series : request[r] >= k}} \ {0}

\* Requeued, but for what is newer.
Requeued_Over(left) == [s \in Series |-> IF exporting[s] \in left
                                           THEN exporting[s] ELSE pending[s]]

\* requeueOTLP: what is left is put back where nothing newer waits.
Requeued(left) == [s \in Series |-> IF exporting[s] \in left /\ pending[s] = 0
                                      THEN exporting[s] ELSE pending[s]]

requeueOTLP(left) ==
  /\ Capped(Requeued(left), 0)
  /\ replaced' = replaced \cup ((Points(pending) \cup left) \ Points(Requeued(left)))

-----------------------------------------------------------------------------
(* An export. *)

\* The last export ends the process.
AfterExport == IF phase = "flush" THEN "over" ELSE phase

\* exportOTLPOnce drains the queue, and makes the requests of what it
\* drained; with export switched off it throws it away.
drainOTLP ==
  /\ sending = 0 /\ phase # "over"
  /\ pending' = NoPoints
  /\ IF enabled
       THEN /\ exporting' = pending /\ sending' = 1
            /\ request' \in {r \in [Series -> 1..MaxRequests] :
                            \A s \in Series : pending[s] = 0 => r[s] = 1}
            /\ UNCHANGED <<phase, off>>
       ELSE /\ off' = off \cup Points(pending)
            /\ phase' = AfterExport
            /\ UNCHANGED export
  /\ UNCHANGED <<enabled, otlpSeq, dropped, newest, acked, replaced>>

\* The export is over.
exported ==
  /\ exporting' = NoPoints /\ request' = [s \in Series |-> 1] /\ sending' = 0
  /\ phase' = AfterExport

\* The next request, or the end of the export after the last.
nextRequest ==
  IF FromRequest(sending + 1) = {}
    THEN exported
    ELSE /\ sending' = sending + 1
         /\ exporting' = Without(exporting, OfRequest(sending))
         /\ UNCHANGED <<request, phase>>

\* The endpoint takes the request, but for the points it rejects.
delivered(rejected) ==
  /\ sending # 0
  /\ rejected \subseteq OfRequest(sending)
  /\ acked' = acked \cup (OfRequest(sending) \ rejected)
  /\ dropped' = dropped + Cardinality(rejected)
  /\ nextRequest
  /\ UNCHANGED <<enabled, otlpSeq, pending, newest, replaced, off>>

\* The endpoint refuses it: its points are dropped, and the export goes on.
\* Once the loops are to stop, a refusal is not told from being cut short.
refuses ==
  /\ sending # 0 /\ phase # "stopping"
  /\ dropped' = dropped + Cardinality(OfRequest(sending))
  /\ nextRequest
  /\ UNCHANGED <<enabled, otlpSeq, pending, newest, acked, replaced, off>>

\* No attempt succeeds in time, or the shutdown cuts the export short: what is
\* left is queued again.  Of the last export it is dropped.
fails ==
  /\ sending # 0
  /\ exported
  /\ IF phase = "flush"
       THEN /\ dropped' = dropped + Cardinality(FromRequest(sending))
            /\ UNCHANGED <<pending, replaced>>
       ELSE requeueOTLP(FromRequest(sending))
  /\ UNCHANGED <<enabled, otlpSeq, newest, acked, off>>

-----------------------------------------------------------------------------
(* Reloads and the shutdown. *)

switchExport ==
  /\ enabled' = ~enabled
  /\ UNCHANGED <<otlpSeq, pending, export, phase, dropped, history>>

\* stopLoops.
stopExports ==
  /\ phase = "run"
  /\ phase' = "stopping"
  /\ UNCHANGED <<enabled, otlpSeq, pending, export, dropped, history>>

\* The export loop has returned, and FlushOTLP makes the last export.
flushOTLP ==
  /\ phase = "stopping" /\ sending = 0
  /\ phase' = IF enabled THEN "flush" ELSE "over"
  /\ UNCHANGED <<enabled, otlpSeq, pending, export, dropped, history>>

QueueNext ==
  \/ \E S \in (SUBSET Series) \ {{}} : queueOTLPResource(S)
  \/ drainOTLP
  \/ \E rejected \in SUBSET OfRequest(sending) : delivered(rejected)
  \/ refuses \/ fails
  \/ switchExport \/ stopExports \/ flushOTLP

QueueSpec == QueueInit /\ [][QueueNext]_qvars

-----------------------------------------------------------------------------
(* What must hold. *)

\* Every variable has its type; nothing is sent that no export has drained.
QueueTypeOK ==
  /\ {enabled} \subseteq BOOLEAN /\ otlpSeq \in 0..MaxPoints
  /\ {pending, exporting, newest} \subseteq [Series -> 0..otlpSeq]
  /\ request \in [Series -> 1..MaxRequests] /\ sending \in 0..MaxRequests
  /\ phase \in {"run", "stopping", "flush", "over"}
  /\ dropped \in 0..otlpSeq
  /\ \A points \in {acked, replaced, off} : points \subseteq 1..otlpSeq
  /\ sending = 0 => exporting = NoPoints

\* Part of PointsKept: of every point queued it is known what became of it: it waits, is being
\* exported, was taken by the endpoint, gave way to a newer one of its series
\* or was switched off with the export, and all the others are counted in
\* http_exporter_otlp_points_dropped_total, each once.  What the endpoint took
\* is not sent again.
PointsAccounted ==
  LET known == acked \cup replaced \cup off \cup Points(pending) \cup Points(exporting)
  IN /\ QueueTypeOK
     /\ dropped = Cardinality((1..otlpSeq) \ known)
     /\ acked \cap (Points(pending) \cup Points(exporting)) = {}

\* Part of PointsKept: the newest point of a series gives way to none: an
\* export that fails after newer points were queued does not put the old ones
\* back in their place.
NewestKept == \A s \in Series : newest[s] \notin replaced

\* No point is lost without a count of it, and none for the sake of an older.
PointsKept == PointsAccounted /\ NewestKept

=============================================================================
