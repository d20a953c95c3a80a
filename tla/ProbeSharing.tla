----------------------------- MODULE ProbeSharing -----------------------------
(***************************************************************************)
(* Identical probes of a collector: they share one trip to the target      *)
(* (internal/exporter/probeflight.go) and the response cache (cache.go),   *)
(* from the configuration they read to their answer (server.go), while     *)
(* reloads change, remove and bring back the collector.                    *)
(*                                                                         *)
(* The probes are those of one request, so that a key of the cache is the  *)
(* definition it is made with, and that of a shared trip that with the     *)
(* stay it was read in.  The collector has cache.ttl, cache.stale_if_error *)
(* and coalesce.  The slots of trips and failure_backoff are modelled      *)
(* apart, as TripLimiter and FailureBackoff: here they are failed trips.   *)
(***************************************************************************)
EXTENDS Following, FiniteSets

CONSTANTS
  Callers,   \* probes
  Trips,     \* trips, each with its goroutine
  Collector

ASSUME SharingAssumption ==
  Collector \in Names /\ None \notin Trips /\ IsFiniteSet(Callers)

VARIABLES
  at,        \* where each probe is
  read,      \* the collector it read: [def, generation, stay]
  on,        \* the trip it waits for
  answer,    \* what it was answered with
  flights,   \* probeFlights.flights: the trip of each key that has one
  trip,      \* the trips: [phase, key, def, generation, stay, waiters, cancelled, result]
  entry      \* responseCache.entries, by definition: [age, stay, unwatched]

vars == <<force, followed, at, read, on, answer, flights, trip, entry>>
probes == <<at, read, on, answer>>

Generations == 1 .. MaxReloads + 1
Keys == Definitions \X Generations

\* What a trip, or an entry of the cache, answers with: the definition and
\* the stay the series were made in.
Fetched(def, stay) == [def |-> def, stay |-> stay]
Failure == [def |-> None, stay |-> 0]

\* A probe that has read no collector, and the goroutine of no trip.
Unread  == [def |-> None, generation |-> 0, stay |-> 0]
Nothing == [phase |-> "none", key |-> <<None, 0>>, def |-> None, generation |-> 0,
            stay |-> 0, waiters |-> 0, cancelled |-> FALSE, result |-> Failure]

\* The fresh result of the cache under definition d, and any it has.
Fresh(d) == entry[d] # None /\ entry[d].age = "fresh"
Held(d)  == entry[d] # None

-----------------------------------------------------------------------------
(* Reloads. *)

Reload(defs) == Install(defs) /\ UNCHANGED <<probes, flights, trip, entry>>

\* A following drops what is cached for a collector it retires, in one step
\* with it (the lock of the cache).
FollowReload ==
  /\ Follow
  /\ entry' = IF Collector \in stale(followed, followed')
                THEN [d \in Definitions |-> None] ELSE entry
  /\ UNCHANGED <<probes, flights, trip>>

-----------------------------------------------------------------------------
(* Probes. *)

\* A probe reads its collector in the configuration in force, followed.
Begin(p) ==
  /\ at[p] = "idle"
  /\ followed.config = force /\ Collector \in Named(force)
  /\ read' = [read EXCEPT ![p] = [def        |-> force.defs[Collector],
                                  generation |-> followed.generation,
                                  stay       |-> followed.defined[Collector]]]
  /\ at' = [at EXCEPT ![p] = "begun"]
  /\ UNCHANGED <<force, followed, on, answer, flights, trip, entry>>

\* It is answered by the cache, or looks for a trip to share.
Look(p) ==
  /\ at[p] = "begun"
  /\ LET d == read[p].def IN
       \/ /\ Fresh(d)
          /\ answer' = [answer EXCEPT ![p] = Fetched(d, entry[d].stay)]
          /\ at' = [at EXCEPT ![p] = "answered"]
       \/ /\ ~Fresh(d)
          /\ at' = [at EXCEPT ![p] = "missed"]
          /\ UNCHANGED answer
  /\ UNCHANGED <<force, followed, read, on, flights, trip, entry>>

\* flightKey, but for the stay.
flightKey_Definition(p) == <<read[p].def, 1>>

flightKey(p) == <<read[p].def, read[p].stay>>

\* Whether probe p is the last that has to do with the trip it is on.
LastOn(p) == \A q \in Callers \ {p} : on[q] # on[p]

\* It joins the trip in flight for its key, or starts one.
Join(p) ==
  /\ at[p] = "missed"
  /\ at' = [at EXCEPT ![p] = "waiting"]
  /\ LET k == flightKey(p) IN
       \/ /\ flights[k] # None
          /\ on' = [on EXCEPT ![p] = flights[k]]
          /\ trip' = [trip EXCEPT ![flights[k]].waiters = @ + 1]
          /\ UNCHANGED flights
       \/ /\ flights[k] = None
          /\ \E t \in Trips :
               /\ trip[t] = Nothing
               /\ on' = [on EXCEPT ![p] = t]
               /\ flights' = [flights EXCEPT ![k] = t]
               /\ trip' = [trip EXCEPT ![t] =
                    [phase |-> "started", key |-> k, def |-> read[p].def,
                     generation |-> read[p].generation, stay |-> read[p].stay,
                     waiters |-> 1, cancelled |-> FALSE, result |-> Failure]]
  /\ UNCHANGED <<force, followed, read, answer, entry>>

\* The trip a probe waits for is over: it has its result.
Answer(p) ==
  /\ at[p] = "waiting" /\ trip[on[p]].phase = "none"
  /\ answer' = [answer EXCEPT ![p] = trip[on[p]].result]
  /\ at' = [at EXCEPT ![p] = "answered"]
  /\ on' = [on EXCEPT ![p] = None]
  /\ trip' = [trip EXCEPT ![on[p]] = IF LastOn(p) THEN Nothing ELSE @]
  /\ UNCHANGED <<force, followed, read, flights, entry>>

\* A trip one of its probes leaves: the last cancels it.
Left(t) ==
  [trip[t] EXCEPT !.waiters = @ - 1, !.cancelled = @ \/ trip[t].waiters = 1]

\* The caller of a probe goes away, at any time it waits.  The last of a trip
\* takes it out of flight, if it is there.
Leave(p) ==
  /\ at[p] = "waiting"
  /\ at' = [at EXCEPT ![p] = "idle"]
  /\ on' = [on EXCEPT ![p] = None]
  /\ read' = [read EXCEPT ![p] = Unread]
  /\ LET t == on[p] IN
       /\ trip' = [trip EXCEPT ![t] =
                     IF @.phase = "none" /\ LastOn(p) THEN Nothing ELSE Left(t)]
       /\ flights' = [k \in Keys |-> IF flights[k] = t /\ trip[t].waiters = 1
                                       THEN None ELSE flights[k]]
  /\ UNCHANGED <<force, followed, answer, entry>>

\* It writes its answer.
Finish(p) ==
  /\ at[p] = "answered"
  /\ at' = [at EXCEPT ![p] = "idle"]
  /\ answer' = [answer EXCEPT ![p] = Failure]
  /\ read' = [read EXCEPT ![p] = Unread]
  /\ UNCHANGED <<force, followed, on, flights, trip, entry>>

-----------------------------------------------------------------------------
(* Trips. *)

\* A step of trip t, which leaves it in phase `phase' with result r.
Moves(t, phase, r) ==
  /\ trip' = [trip EXCEPT ![t].phase = phase, ![t].result = r]
  /\ UNCHANGED <<force, followed, probes, flights>>

\* TripLook, but for what a probe before left in the cache.
TripLook_No(t) ==
  /\ trip[t].phase = "started"
  /\ Moves(t, "fetching", Failure)
  /\ UNCHANGED entry

\* A trip finds what one before it has just left in the cache, or goes to the
\* target.
TripLook(t) ==
  /\ trip[t].phase = "started"
  /\ LET d == trip[t].def IN
       \/ Fresh(d) /\ Moves(t, "ending", Fetched(d, entry[d].stay))
       \/ ~Fresh(d) /\ Moves(t, "fetching", Failure)
  /\ UNCHANGED entry

\* A result is cached if its collector still stands as the trip read it.
PutFor(t) ==
  IF stands(Collector, trip[t].generation)
    THEN entry' = [entry EXCEPT ![trip[t].def] =
           [age |-> "fresh", stay |-> trip[t].stay, unwatched |-> trip[t].cancelled]]
    ELSE UNCHANGED entry

\* It goes through whole, and its result is cached ...
TripSucceeds(t) ==
  /\ trip[t].phase = "fetching"
  /\ Moves(t, "ending", Fetched(trip[t].def, trip[t].stay))
  /\ PutFor(t)

\* ... or fails, by the target, for want of a slot or by failure_backoff ...
TripFails(t) ==
  /\ trip[t].phase = "fetching"
  /\ Moves(t, "failed", Failure)
  /\ UNCHANGED entry

\* ... in which case the last good result answers, stale as it may be ...
TripStale(t) ==
  /\ trip[t].phase = "failed"
  /\ LET d == trip[t].def IN
       Moves(t, "ending", IF Held(d) THEN Fetched(d, entry[d].stay) ELSE Failure)
  /\ UNCHANGED entry

\* ... or is refused, cut short, carried on past its failure or panics, and is
\* answered with nothing of the target's.
TripEnds(t) ==
  /\ trip[t].phase = "fetching"
  /\ Moves(t, "ending", Failure)
  /\ UNCHANGED entry

\* Unmap, but for whose the key is now.
Unmap_Key(t) ==
  /\ trip[t].phase = "ending"
  /\ flights' = [flights EXCEPT ![trip[t].key] = None]
  /\ trip' = [trip EXCEPT ![t].phase = "closing"]
  /\ UNCHANGED <<force, followed, probes, entry>>

\* The goroutine's deferred end takes the trip out of flight if it is there ...
Unmap(t) ==
  /\ trip[t].phase = "ending"
  /\ flights' = [k \in Keys |-> IF flights[k] = t THEN None ELSE flights[k]]
  /\ trip' = [trip EXCEPT ![t].phase = "closing"]
  /\ UNCHANGED <<force, followed, probes, entry>>

\* ... and then tells those that wait for it.
Close(t) ==
  /\ trip[t].phase = "closing"
  /\ trip' = [trip EXCEPT ![t] =
                IF @.waiters = 0 THEN Nothing
                                 ELSE [@ EXCEPT !.phase = "none", !.cancelled = TRUE]]
  /\ UNCHANGED <<force, followed, probes, flights, entry>>

\* Time passes: a result is no longer fresh, and then too old to answer.
Age(d) ==
  /\ Held(d)
  /\ entry' = [entry EXCEPT ![d] = IF @.age = "fresh" THEN [@ EXCEPT !.age = "stale"] ELSE None]
  /\ UNCHANGED <<force, followed, probes, flights, trip>>

-----------------------------------------------------------------------------

Init ==
  /\ FollowingInit
  /\ at = [p \in Callers |-> "idle"]
  /\ read = [p \in Callers |-> Unread]
  /\ on = [p \in Callers |-> None]
  /\ answer = [p \in Callers |-> Failure]
  /\ flights = [k \in Keys |-> None]
  /\ trip = [t \in Trips |-> Nothing]
  /\ entry = [d \in Definitions |-> None]

TripSteps(t) ==
  \/ TripLook(t) \/ TripSucceeds(t) \/ TripFails(t) \/ TripStale(t)
  \/ TripEnds(t) \/ Unmap(t) \/ Close(t)

Next ==
  \/ \E defs \in [Names -> Definitions \cup {None}] : Reload(defs)
  \/ FollowReload
  \/ \E p \in Callers : Begin(p) \/ Look(p) \/ Join(p) \/ Answer(p) \/ Leave(p) \/ Finish(p)
  \/ \E t \in Trips : TripSteps(t)
  \/ \E d \in Definitions : Age(d)

Spec == Init /\ [][Next]_vars

-----------------------------------------------------------------------------
(* Properties. *)

\* The trips under way that probes may still join.
Going == {t \in Trips : trip[t].phase \in {"started", "fetching", "failed", "ending"}}

\* Part of TripsShared: every variable has its type.
TypeOK ==
  /\ FollowingTypeOK
  /\ at \in [Callers -> {"idle", "begun", "missed", "waiting", "answered"}]
  /\ on \in [Callers -> Trips \cup {None}]
  /\ flights \in [Keys -> Trips \cup {None}]
  /\ \A t \in Trips :
       /\ trip[t].phase \in {"none", "closing"} \/ t \in Going
       /\ trip[t].waiters \in 0 .. Cardinality(Callers)
       /\ trip[t].cancelled \in BOOLEAN
  /\ \A d \in Definitions : Held(d) => entry[d].age \in {"fresh", "stale"}

\* What is in flight is exactly the trips that go on for somebody, each under
\* its own key: no probe joins a cancelled trip, none that goes on is lost, and
\* there is one for a key, whatever an older one of that key does meanwhile.
FlightsGoOn ==
  /\ \A k \in Keys : flights[k] # None => trip[flights[k]].key = k
  /\ {flights[k] : k \in Keys} \ {None} = {t \in Going : ~trip[t].cancelled}

\* A trip is cancelled as the last probe leaves it and no sooner: not by the
\* one that started it while others wait.
CancelledWhenAlone ==
  \A t \in Trips : trip[t].phase # "none" =>
    /\ trip[t].waiters = Cardinality({p \in Callers : on[p] = t})
    /\ trip[t].cancelled <=> trip[t].waiters = 0

\* Whoever waits is on a trip that goes on, or that has closed the channel it
\* waits on or is about to: one that panicked leaves nobody waiting.
NoneStranded ==
  \A p \in Callers :
    at[p] = "waiting" => on[p] \in Going \/ trip[on[p]].phase \in {"closing", "none"}

\* A target is not asked again for what probes wait for and the cache has got
\* meanwhile from a trip that went on for its callers.
AskedOnce ==
  \A t \in Going : LET d == trip[t].def IN
    trip[t].phase = "fetching" /\ ~trip[t].cancelled /\ Fresh(d)
      => entry[d].stay # trip[t].stay \/ entry[d].unwatched

\* A trip goes on for those that wait for it, and for nobody else, and only one
\* asks the target for what they wait for.
TripsShared ==
  TypeOK /\ FlightsGoOn /\ CancelledWhenAlone /\ NoneStranded /\ AskedOnce

\* No probe is answered with what another definition made, nor with what its
\* own made before a reload took it away and another brought it back.
NeverOlder ==
  \A p \in Callers : at[p] = "answered" /\ answer[p] # Failure =>
    answer[p].def = read[p].def /\ answer[p].stay >= read[p].stay

\* What is cached is of the collector as it stands: nothing of a stay that is
\* over is left by its last trips, which a later stay would be answered with.
NothingRetired ==
  \A d \in Definitions : Held(d) =>
    /\ Collector \in Named(followed.config)
    /\ d = followed.config.defs[Collector]
    /\ entry[d].stay = followed.defined[Collector]

\* Neither an answer nor the cache is older than the collector.
NothingOlder == NeverOlder /\ NothingRetired

=============================================================================
