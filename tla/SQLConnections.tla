---------------------------- MODULE SQLConnections ----------------------------
(***************************************************************************)
(* The connections a sql collector has open to one target                  *)
(* (internal/fetch/sqlpool.go): a pool for each database, the places of    *)
(* max_per_target that scrapes and keepalive pings hold while they have a  *)
(* connection, the idle connections that hold none, which a scrape closes  *)
(* to make room for its own, and reloads that close pools in use.          *)
(*                                                                         *)
(* A pool is a database and a number, which tells it from one of the same  *)
(* database made after it was closed.  database/sql is external: a pool    *)
(* takes an idle connection before it makes one, makes no more than        *)
(* max_per_target of its own, and closes the idle ones as it likes.        *)
(***************************************************************************)
EXTENDS Integers, FiniteSets, Sequences, SequencesExt, Sums

CONSTANTS
  Databases,     \* the databases scraped on the server
  SQLScrapes,    \* the scrapes under way at a time
  Pinger,        \* the keepalive round under way, one at a time
  MaxPerTarget,  \* request.connections.max_per_target
  MaxIdlePer,    \* request.connections.max_idle_per_target
  MaxClosed      \* bound: the pools that are closed

ASSUME SQLAssumption ==
  /\ IsFiniteSet(Databases) /\ IsFiniteSet(SQLScrapes) /\ Pinger \notin SQLScrapes
  /\ {MaxPerTarget, MaxIdlePer} \subseteq Nat \ {0} /\ MaxClosed \in Nat

VARIABLES
  pools,   \* sqlTarget.pools: the pools whose DB is open
  agent,   \* what each scrape and the round are doing
  giving,  \* who holds sqlTarget.giving, if any
  closed,  \* how many pools have been closed
  crossed  \* a count may have been out of date when it was acted on

sqlvars == <<pools, agent, giving, closed, crossed>>

Agents  == SQLScrapes \cup {Pinger}
Resting == [at |-> "rests", pool |-> <<>>, others |-> {}, todo |-> {}, sum |-> 0,
            have |-> 0, closing |-> <<>>, forgotten |-> FALSE]
Looked(st) == [st EXCEPT !.others = {}, !.todo = {}, !.sum = 0]
Opened  == [closed |-> FALSE, keeps |-> TRUE, idle |-> 0]

SQLInit ==
  /\ pools = <<>>
  /\ agent = [a \in Agents |-> Resting]
  /\ giving = {} /\ closed = 0 /\ crossed = FALSE

-----------------------------------------------------------------------------
(* What is counted. *)

\* The scrapes that use a pool: sqlPool.inUse.  A round is not counted.
Using(p) == {s \in SQLScrapes : agent[s].pool = p /\ agent[s].at # "late"}

\* The pools that are not closed, one for a database at most.
Living == {p \in DOMAIN pools : ~pools[p].closed}
PoolOf(d) == {p \in Living : p[1] = d}

\* The connections a pool keeps idle, none once its DB is closed.
IdleOf(p) == IF p \in DOMAIN pools THEN pools[p].idle ELSE 0

PlacesOf_Early(a) ==
  IF a = Pinger
    THEN agent[a].have + (IF agent[a].at \in {"asks", "over"} THEN 1 ELSE 0)
    ELSE IF agent[a].at \in {"rests", "waits", "leaves", "late", "queues", "tallies"} THEN 0 ELSE 1

\* The places an agent holds: a scrape one, from before it has a connection
\* until after it is back, and a round one for each.
PlacesOf(a) ==
  IF a = Pinger
    THEN agent[a].have + (IF agent[a].at \in {"asks", "over"} THEN 1 ELSE 0)
    ELSE IF agent[a].at \in {"rests", "waits", "leaves", "late"} THEN 0 ELSE 1

\* len(sem) of the target.  A target forgotten with its last pool had others.
Places == SumOf([a \in Agents |-> IF agent[a].forgotten THEN 0 ELSE PlacesOf(a)])

\* A pool's connections that an agent has, and those it has yet to close.
Has(a, p)    == IF agent[a].pool = p THEN agent[a].have ELSE 0
Closes(a, p) == Cardinality({i \in DOMAIN agent[a].closing : agent[a].closing[i] = p})

\* The connections database/sql counts as a pool's.
numOpen(p) == pools[p].idle + SumOf([a \in Agents |-> Has(a, p) + Closes(a, p)])

Becomes(a, st) == agent' = [agent EXCEPT ![a] = st]
At(a, where)   == Becomes(a, [agent[a] EXCEPT !.at = where])
KeepsIdle(p, n)    == pools' = [pools EXCEPT ![p].idle = n]

\* Scrapes that counted the connections open, and have yet to make theirs.
Counting == {s \in SQLScrapes : agent[s].at \in {"counts", "rooms", "awaits", "connects"}}

\* An idle connection is taken, which those who count may not have counted, as
\* those of a closed pool are not.
Takes(a, p) ==
  /\ IdleOf(p) > 0
  /\ KeepsIdle(p, pools[p].idle - 1)
  /\ crossed' = (crossed \/ pools[p].closed \/ Counting \ {a} # {})

\* The pools but for some whose DB is closed, and their idle connections
\* with them; with the last of them, the target is forgotten.
Without(S) == [p \in DOMAIN pools \ S |-> pools[p]]
Forgetting(agents, S) ==
  IF DOMAIN pools \ S = {} /\ agents[Pinger].at # "rests"
    THEN [agents EXCEPT ![Pinger].forgotten = TRUE]
    ELSE agents

-----------------------------------------------------------------------------
(* A scrape: its pool, its place, and room for its connection. *)

\* acquire: the pool of a database, made now when there is none, for which a
\* pool that no scrape uses is closed when there are as many as places.
acquire(s, d) ==
  /\ agent[s].at = "rests"
  /\ \/ \E p \in PoolOf(d) :
          /\ Becomes(s, [Resting EXCEPT !.at = "waits", !.pool = p])
          /\ UNCHANGED <<pools, closed>>
     \/ /\ PoolOf(d) = {}
        /\ \E gone \in SUBSET Living :
             /\ IF Cardinality(Living) < MaxPerTarget
                  THEN gone = {}
                  ELSE Cardinality(gone) = 1 /\ \A q \in gone : Using(q) = {}
             /\ closed' = closed + Cardinality(gone)
             /\ closed' <= MaxClosed
             /\ pools' = [p \in (DOMAIN pools \ gone) \cup {<<d, closed'>>} |->
                            IF p = <<d, closed'>> THEN Opened ELSE pools[p]]
             /\ Becomes(s, [Resting EXCEPT !.at = "waits", !.pool = <<d, closed'>>])
  /\ UNCHANGED <<giving, crossed>>

\* wait: a place is free, or none is by the scrape's deadline.
takePlace(s) ==
  /\ agent[s].at = "waits"
  /\ Places < MaxPerTarget
  /\ At(s, "placed")
  /\ UNCHANGED <<pools, giving, closed, crossed>>

placeTimeout(s) ==
  /\ agent[s].at = "waits"
  /\ At(s, "leaves")
  /\ UNCHANGED <<pools, giving, closed, crossed>>

\* makeRoom reads the other pools of the target, if there are any ...
otherPools(s) ==
  LET others == Living \ {agent[s].pool}
  IN
  /\ agent[s].at = "placed"
  /\ IF Cardinality(DOMAIN pools) < 2
       THEN At(s, "connects")
       ELSE Becomes(s, [agent[s] EXCEPT !.at = "looks", !.others = others, !.todo = others])
  /\ UNCHANGED <<pools, giving, closed, crossed>>

\* ... then the places that are taken ...
readPlaces(s) ==
  /\ agent[s].at = "looks"
  /\ Becomes(s, [agent[s] EXCEPT !.at = "counts", !.sum = Places - MaxPerTarget])
  /\ UNCHANGED <<pools, giving, closed, crossed>>

\* ... then what each of the others keeps idle ...
countIdle(s) ==
  /\ agent[s].at = "counts"
  /\ IF agent[s].todo = {}
       THEN Becomes(s, IF agent[s].sum > 0
                         THEN [agent[s] EXCEPT !.at = "rooms", !.todo = agent[s].others]
                         ELSE [Looked(agent[s]) EXCEPT !.at = "connects"])
       ELSE \E q \in agent[s].todo :
              Becomes(s, [agent[s] EXCEPT !.todo = @ \ {q}, !.sum = @ + IdleOf(q)])
  /\ UNCHANGED <<pools, giving, closed, crossed>>

\* ... and takes as many of those as are too many, each to be closed apart.
makeRoom(s) ==
  /\ agent[s].at = "rooms"
  /\ \/ \E q \in agent[s].todo :
          IF agent[s].sum > 0 /\ IdleOf(q) > 0
            THEN /\ Takes(s, q)
                 /\ Becomes(s, [agent[s] EXCEPT !.sum = @ - 1, !.closing = Append(@, q)])
            ELSE /\ Becomes(s, [agent[s] EXCEPT !.todo = @ \ {q}])
                 /\ UNCHANGED <<pools, crossed>>
     \/ /\ agent[s].todo = {}
        /\ Becomes(s, [Looked(agent[s]) EXCEPT !.at = "awaits"])
        /\ UNCHANGED <<pools, crossed>>
  /\ UNCHANGED <<giving, closed>>

connClosed(s) ==
  /\ agent[s].closing # <<>>
  /\ \E i \in DOMAIN agent[s].closing :
       Becomes(s, [agent[s] EXCEPT !.closing = RemoveAt(@, i)])
  /\ UNCHANGED <<pools, giving, closed, crossed>>

\* It waits for them, within its deadline: past that it makes no connection.
roomMade(s) ==
  /\ agent[s].at = "awaits"
  /\ \/ agent[s].closing = <<>> /\ At(s, "connects")
     \/ agent[s].closing # <<>> /\ At(s, "over")
  /\ UNCHANGED <<pools, giving, closed, crossed>>

-----------------------------------------------------------------------------
(* A scrape: its connection, and the end of it. *)

\* db.Conn gives an idle connection, or makes one, which may fail; it fails at
\* the deadline when the pool has as many as it may.
connect(s) ==
  LET p == agent[s].pool
      got == [agent[s] EXCEPT !.at = "uses", !.have = 1]
  IN
  /\ agent[s].at = "connects"
  /\ \/ Takes(s, p) /\ Becomes(s, got)
     \/ /\ pools[p].idle = 0
        /\ \/ numOpen(p) < MaxPerTarget /\ Becomes(s, got)
           \/ At(s, "over")
        /\ UNCHANGED <<pools, crossed>>
  /\ UNCHANGED <<giving, closed>>

\* The statement ends in time, or the connection is closed under it.
endStatement(s) ==
  /\ agent[s].at = "uses"
  /\ \E to \in {"gives", "discards"} : At(s, to)
  /\ UNCHANGED <<pools, giving, closed, crossed>>

\* giveBack reads whether the pool is closed, and the target's only one ...
giveBack(a) ==
  LET p == agent[a].pool
  IN
  /\ agent[a].at = "gives"
  /\ CASE p \notin Living              -> At(a, "discards")
       [] Cardinality(Living) < 2      -> At(a, "returns")
       [] OTHER                        ->
            Becomes(a, [agent[a] EXCEPT !.at = "queues", !.others = Living, !.todo = Living])
  /\ UNCHANGED <<pools, giving, closed, crossed>>

\* ... and, one at a time for a target, ...
lockGiving(a) ==
  /\ agent[a].at = "queues" /\ giving = {}
  /\ giving' = {a}
  /\ Becomes(a, [agent[a] EXCEPT !.at = "tallies", !.sum = 0])
  /\ UNCHANGED <<pools, closed, crossed>>

tallyIdle_Own(a) ==
  /\ agent[a].at = "tallies"
  /\ \E q \in agent[a].todo :
       Becomes(a, [agent[a] EXCEPT !.todo = {}, !.sum = IdleOf(agent[a].pool)])
  /\ UNCHANGED <<pools, giving, closed, crossed>>

\* ... counts what the pools keep idle, ...
tallyIdle(a) ==
  /\ agent[a].at = "tallies"
  /\ \E q \in agent[a].todo :
       Becomes(a, [agent[a] EXCEPT !.todo = @ \ {q}, !.sum = @ + IdleOf(q)])
  /\ UNCHANGED <<pools, giving, closed, crossed>>

\* The connection goes back to its pool, which closes one too many of its own
\* or one that is broken.
Returned(a) ==
  LET p == agent[a].pool
  IN
  /\ \/ p \in DOMAIN pools /\ pools[p].keeps /\ pools[p].idle < MaxIdlePer
        /\ KeepsIdle(p, pools[p].idle + 1)
     \/ UNCHANGED pools
  /\ Becomes(a, [Looked(agent[a]) EXCEPT !.at = "over", !.have = @ - 1])

\* ... to keep one less than the limit.
keepIdle(a) ==
  /\ agent[a].at = "tallies" /\ agent[a].todo = {}
  /\ IF agent[a].sum < MaxIdlePer
       THEN Returned(a)
       ELSE Becomes(a, [Looked(agent[a]) EXCEPT !.at = "discards"]) /\ UNCHANGED pools
  /\ giving' = {}
  /\ crossed' = (crossed \/ Living \ agent[a].others # {})
  /\ UNCHANGED closed

returnConn(a) ==
  /\ agent[a].at = "returns"
  /\ Returned(a)
  /\ crossed' = (crossed \/ Cardinality(Living) > 1)
  /\ UNCHANGED <<giving, closed>>

discardConn(a) ==
  /\ agent[a].at = "discards"
  /\ Becomes(a, [agent[a] EXCEPT !.at = "over", !.have = @ - 1])
  /\ UNCHANGED <<pools, giving, closed, crossed>>

\* giveUp: the scrape's place is free ...
freePlace(s) ==
  /\ agent[s].at = "over"
  /\ At(s, "leaves")
  /\ UNCHANGED <<pools, giving, closed, crossed>>

release_First(s) ==
  LET p == agent[s].pool
  IN
  /\ agent[s].at = "leaves"
  /\ IF pools[p].closed
       THEN /\ pools' = Without({p})
            /\ agent' = Forgetting([agent EXCEPT ![s] = Resting], {p})
       ELSE At(s, "rests") /\ UNCHANGED pools
  /\ UNCHANGED <<giving, closed, crossed>>

\* ... and then its pool, whose DB is closed when it was closed meanwhile and
\* no other scrape uses it.
release(s) ==
  LET p == agent[s].pool
      last == pools[p].closed /\ Using(p) = {s}
      left == IF agent[s].closing = <<>> THEN Resting ELSE [agent[s] EXCEPT !.at = "late"]
  IN
  /\ agent[s].at = "leaves"
  /\ IF last
       THEN /\ pools' = Without({p})
            /\ agent' = Forgetting([agent EXCEPT ![s] = left], {p})
       ELSE Becomes(s, left) /\ UNCHANGED pools
  /\ UNCHANGED <<giving, closed, crossed>>

\* What a scrape was to close before its deadline is closed.
lateClosed(s) ==
  /\ agent[s].at = "late" /\ agent[s].closing = <<>>
  /\ Becomes(s, Resting)
  /\ UNCHANGED <<pools, giving, closed, crossed>>

-----------------------------------------------------------------------------
(* The keepalive. *)

\* keepaliveOnce, of a pool that has idle connections ...
beginRound(p) ==
  /\ agent[Pinger].at = "rests"
  /\ p \in Living /\ pools[p].idle > 0
  /\ Becomes(Pinger, [Resting EXCEPT !.at = "takes", !.pool = p, !.sum = pools[p].idle])
  /\ UNCHANGED <<pools, giving, closed, crossed>>

\* The round can take no more: its connections are pinged, and given back.
Pinged ==
  Becomes(Pinger, IF agent[Pinger].have = 0
                    THEN Resting
                    ELSE [agent[Pinger] EXCEPT !.at = "gives", !.sum = 0])

\* ... takes a place for each, while there are any ...
pingPlace ==
  /\ agent[Pinger].at = "takes"
  /\ IF agent[Pinger].have < agent[Pinger].sum /\ (agent[Pinger].forgotten \/ Places < MaxPerTarget)
       THEN At(Pinger, "asks")
       ELSE Pinged
  /\ UNCHANGED <<pools, giving, closed, crossed>>

\* ... and the connection, if it is still there, and makes none.
pingConn ==
  LET p == agent[Pinger].pool
  IN
  /\ agent[Pinger].at = "asks"
  /\ IF IdleOf(p) > 0
       THEN /\ Takes(Pinger, p)
            /\ Becomes(Pinger, [agent[Pinger] EXCEPT !.at = "takes", !.have = @ + 1])
       ELSE /\ Pinged
            /\ UNCHANGED <<pools, crossed>>
  /\ UNCHANGED <<giving, closed>>

\* A place is free for each given back.
pingOver ==
  /\ agent[Pinger].at = "over"
  /\ Pinged
  /\ UNCHANGED <<pools, giving, closed, crossed>>

-----------------------------------------------------------------------------
(* What befalls a pool. *)

\* A reload closes it: at once when no scrape uses it ...
closePool(p) ==
  /\ p \in Living /\ closed < MaxClosed
  /\ closed' = closed + 1
  /\ IF Using(p) = {}
       THEN pools' = Without({p}) /\ agent' = Forgetting(agent, {p})
       ELSE pools' = [pools EXCEPT ![p].closed = TRUE] /\ UNCHANGED agent
  /\ UNCHANGED <<giving, crossed>>

\* ... and otherwise only its idle connections, apart.
closeIdle(p) ==
  /\ pools[p].closed /\ pools[p].keeps
  /\ pools' = [pools EXCEPT ![p].keeps = FALSE, ![p].idle = 0]
  /\ UNCHANGED <<agent, giving, closed, crossed>>

\* An idle connection is closed for its age.
expire(p) ==
  /\ pools[p].idle > 0
  /\ KeepsIdle(p, pools[p].idle - 1)
  /\ UNCHANGED <<agent, giving, closed, crossed>>

Gives(a) ==
  giveBack(a) \/ lockGiving(a) \/ tallyIdle(a) \/ keepIdle(a) \/ returnConn(a) \/ discardConn(a)

Scrapes(s) ==
  \/ takePlace(s) \/ placeTimeout(s)
  \/ otherPools(s) \/ readPlaces(s) \/ countIdle(s) \/ makeRoom(s) \/ connClosed(s) \/ roomMade(s)
  \/ connect(s) \/ endStatement(s) \/ freePlace(s) \/ release(s) \/ lateClosed(s)

SQLNext ==
  \/ \E s \in SQLScrapes : Scrapes(s) \/ \E d \in Databases : acquire(s, d)
  \/ \E a \in Agents : Gives(a)
  \/ (\E p \in Living : beginRound(p)) \/ pingPlace \/ pingConn \/ pingOver
  \/ \E p \in DOMAIN pools : closePool(p) \/ closeIdle(p) \/ expire(p)

SQLSpec == SQLInit /\ [][SQLNext]_sqlvars

-----------------------------------------------------------------------------
(* What must hold. *)

IdleOpen == SumOf([p \in Living |-> IdleOf(p)])
Used     == SumOf([a \in Agents |-> IF agent[a].forgotten THEN 0 ELSE agent[a].have])

\* The connections open to the target, in use or idle, are no more than
\* max_per_target.
OpenHeld == IdleOpen + Used <= MaxPerTarget

\* Those that its pools keep idle are no more than max_idle_per_target.
IdleHeld == IdleOpen <= MaxIdlePer

\* So they are, both, unless a count may have been out of date as it was acted on: an
\* idle connection was taken while another scrape counted or was connecting, or one
\* given back after pools were made that whoever gave it back had not seen.
HeldToLimits == crossed \/ (OpenHeld /\ IdleHeld)

\* A pool is open as long as a scrape uses it, and no longer than that once it
\* is closed.
PoolsAsUsed ==
  /\ \A s \in SQLScrapes : agent[s].at \notin {"rests", "late"} => agent[s].pool \in DOMAIN pools
  /\ \A p \in DOMAIN pools :
       /\ pools[p].closed => Using(p) # {}
       /\ pools[p].idle \in 0..MaxIdlePer

\* So it is; no more places are taken than there are; and database/sql makes
\* no more connections of a pool than there are places.
PoolsDrain ==
  /\ PoolsAsUsed
  /\ \A p \in DOMAIN pools : numOpen(p) <= MaxPerTarget
  /\ Places \in 0..MaxPerTarget

=============================================================================
