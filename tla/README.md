# A verification of prometheus-universal-exporter

TLA+ models of the exporter and of its target allocator, checked with TLC on
small instances, with theorems that TLAPS checks for every value of the
constants. The reference is the Go code; paths below are relative to the
repository. `PROJECT.json` maps every definition to the lines it stands for and
lists the components, runs, hazards, findings and theorems.

## 1. The system

`pue` is a Prometheus exporter that asks other systems (HTTP, SQL, SSH, gRPC,
DNS, LDAP and others) and turns what they answer into metrics. A *collector* of
its configuration says what to ask and how to transform it. Prometheus asks for
one with `/probe`, or the exporter scrapes *static targets* itself and exports
or serves the result. `pue-allocator` shares the static targets, and the targets
it discovers, among replicas of the exporter.

| Component | State it keeps | Operations | What is hard | What makes it correct |
|---|---|---|---|---|
| Allocator: member list (`internal/allocator/allocator.go`) | members, proposed and effective list, drains, bundles, one timer | heartbeat, reload, wake, long poll, shutdown | a timer whose goroutine waits for the mutex; settle and TTL deadlines; targets that move while they drain | bundles agree with the lists; a moved target has no gap and is on one owner; no wake is lost; a list settles before it counts |
| Allocator: placement (`placement.go`) | none (pure) | place units over members by rendezvous hashing with capacity bounds | fixed-point scores, ties, rounding | one total order on every instance; loads bounded; a change moves what it must |
| Allocator: peers (`peers.go`) | peers alive, leader, snapshot taken | rounds, choice of a leader, snapshots | views that differ, leaders that change | one leader in the end; nobody loses targets meanwhile |
| Allocator: discovery (`discovery*.go`, `inputs.go`, `expand.go`) | sources, what each found, inputs in force | refresh, answer, reload | refreshes stopped while they answer | what is in force is of the sources in force |
| Allocator: HTTP (`server.go`) | requests that wait | long poll of a bundle, heartbeats | a change between the look and the wait | a change releases whoever waits |
| Allocator client (`internal/allocclient`) | bundle seen, refused and in force; cache directory | heartbeats, fetch, apply, repair, tidy | crashes between links and renames; a refused reload; delayed heartbeats | a restart finds a whole generation; files read are of one generation |
| Configuration manager (`internal/config/config.go`) | configuration in force, generation, what waits for what | reload by watch, signal, request, allocator | files that change one after the other | what is valid gets in force, and nothing else |
| Following reloads (`internal/exporter/reconcile.go`) | configuration followed, from when each collector is defined, its statistics | plan, make, apply | plans made without a lock, applied in any order | following is one step; nothing of a retired collector is kept |
| Shared probes and cache (`probeflight.go`, `cache.go`, `server.go`) | flights, cached results | join, wait, leave, trip, cache | a last waiter that leaves as another joins; late results | one trip at a time for one request; no answer older than the collector |
| Failure backoff (`backoff.go`) | failures and waits of targets, trials | admit, settle, forget | trials whose trip panics, is cancelled or outlives a reload | a target is always tried again; nothing of a definition gone counts |
| Trip limits (`triplimit.go`) | slots of each collector and of all, a line | try, wait, release | a context that ends as a slot is granted; limits that change | no slot lost or given twice; nobody waits for a free one |
| Static targets (`statictargetschedule.go`) | turns, scrapes running, slots | scrape loop, turns, results | scrapes longer than their interval | one scrape of a target at a time, and one in the end |
| OTLP export (`otlp*.go`) | pending points, spans, records | queue, drain, requeue, flush | failed exports racing newer points, the cap | newest value wins; oldest goes first |
| Lifecycle (`lifecycle.go`, `main.go`) | stages of the shutdown | drain, abort, flush | what ends in which order | nothing is accepted after its consumer ended |
| SQL pools (`internal/fetch/sqlpool.go`; `sshconn.go` and `grpcconn.go` are like them) | pools of a target, places, idle connections | acquire, wait, make room, give back, ping, close | counts over several pools read one after the other while scrapes take and give | limits kept; nothing closed in use |
| Logins and rate limits (`login.go`, `ratelimit.go`) | tokens kept, logins under way, counts; buckets | get, log in, refuse, evict, follow | a login that outlives the request, the entry or the collector it was made for | one login for all who need it; no refused token given again |
| Python workers (`internal/transform/pythonworker.go`) | idle and busy workers, waiting runs | acquire, release, evict, retire | a reload and a limit at once | limit kept; nobody waits for ever |
| Request types, decoders, expressions, transforms (`internal/fetch`, `decode`, `expr`, `transform`) | none shared | pure conversions and protocol I/O | parsing | left to the repository's tests and fuzzers |
| Pages, metrics, check and health commands | none | reports | none | left to the tests |

How they interact. The configuration manager puts a configuration in force and
calls the exporter (`OnInstall`), which follows it; probes follow it as well
when they come first. A probe joins a flight or begins one; the flight's trip
looks in the cache, asks the backoff and the limits, makes its request through
the pools, transforms, caches, and its outcome counts for the backoff. Each of
these keeps its state under a mutex of its own, reads the configuration at one
moment and writes at a later one, and takes no other lock meanwhile: the order in
which those sections interleave with reloads is what the models explore. The
allocator's heartbeats and long polls carry the member list and bundles; the
client puts a bundle in the cache directory and reloads it through the
configuration manager.

## 2. Modules

| Module | What it models |
|---|---|
| `Membership` | the allocator's member list: one action per operation under its mutex; the wake timer is two actions, it fires and its goroutine gets the mutex later |
| `MembershipProofs` | theorems about `Membership` |
| `MCMembership` | instance with three replicas, two versions of the inputs, and `Placement` as the placement |
| `Placement` | the pure placement: fixed-point scores, order, capacity bounds, picking an owner |
| `PlacementPass` | `place`, a unit at a time, over every instance of a small size |
| `Heartbeats` | heartbeats of the processes of a replica on their way to an instance of the allocator |
| `BundleDelivery` | the long poll of a bundle, its handler and the client's bundle loop |
| `Peers` | rounds, choice of a leader and snapshots of the instances of the allocator |
| `MCAllocatorLink` | instance of the three above and `PlacementPass` |
| `AllocatorProofs` | theorems about `Heartbeats`, `BundleDelivery`, `Peers` and `PlacementPass` |
| `StaticSchedule` | turns, first scrapes, slots and reloads of the loop that scrapes static targets |
| `TripLimiter` | the slots of trips and the line for them |
| `OTLPQueue` | the points that wait to go out over OTLP |
| `MCStaticScrapes` | instance of the three above: what a static scrape goes through |
| `StaticScrapesProofs` | theorems about the three |
| `Following` | what following a reload promises: one step |
| `Reconcile` | the steps of the code that follow a reload, shown to implement `Following` |
| `FailureBackoff` | the failures remembered of targets, over `Following` |
| `ProbeSharing` | identical probes, flights and the response cache, over `Following` |
| `MCFollowing` | instance of the four models above: what must follow a reload |
| `FollowingProofs` | that `Reconcile` implements `Following`, and theorems about it, `ProbeSharing` and `FailureBackoff` |
| `PythonPool` | the pool of Python workers, with reloads that retire scripts and collectors |
| `SQLConnections` | the connections that a sql collector has open to one target |
| `LoginCache` | the token of a login and the logins that fetch it |
| `MCConnections` | instance of the three above: what trips keep for those after them |
| `ConnectionsProofs` | theorems about `SQLConnections` and `LoginCache` |
| `PythonPoolProofs` | theorem about `PythonPool` |
| `BundleCache` | the cache directory of a replica in allocator mode and the configuration manager that reads it, with kills and losses of power |
| `ConfigWatch` | the configuration manager with its watch: what it stamps, compares, reads, refuses and keeps waiting while files change |
| `MCConfiguration` | instance of the two above: what a configuration is read from |
| `ConfigurationProofs` | theorems about `BundleCache` and `ConfigWatch` |
| `Sums` | the sum of the numbers of a function, for `Placement` and `SQLConnections` |
| `CountingLemmas` | what several proofs say of finite sets counted, sums, sequences without repetition, powers of two and quotients |

`Reconcile` extends `Following` and refines `FollowingSpec` under the identity;
`ProbeSharing` and `FailureBackoff` build on the abstract `Following`, which
`Reconcile` justifies. `MCMembership` composes `Membership` with `Placement`.

Components that share no state are checked in one run: `MCAllocatorLink`,
`MCStaticScrapes`, `MCFollowing`, `MCConnections` and `MCConfiguration` have a
variable `part`, chosen once, and a behaviour is of that part, the others keeping one
state (in `MCFollowing` what `Reconcile` follows by is, in the parts that follow in one
step, as a following leaves it: `InOneStep`). So the run visits the sum
of the states of its parts, not their product, and their properties hold in it for
each part. Every module's type invariant is a conjunct of one of its properties,
and the properties that several conjuncts make up name them (`TripsShared`,
`PeersInOrder`, `PlacementHolds`, `PointsKept`, `WaitsEnd`, `WorkersServe`,
`BackoffHeld`, `TokensShared`).

### Membership

Each variable is a field of `Allocator`: `members`, `proposed`, `effective`,
`settled`, `draining`, `bundles`, `joining`, `timer`, `stopped`. `watchers` are the
requests that hold the channel `changed`, which `rebuild` closes. Instants are
ages, counted no further than anything compares them (the member TTL, the settle
time), and deadlines are how far away they are; `Tick` is a unit of time and
nothing makes the timer punctual. A heartbeat is `late` when the code's comparison
of sequences says so. `Place` is a constant operator of which only what
`PlaceAssumption` says is used: the proofs are for any placement.

Bounds: TTL 2, settle 1, two or three replicas, one process each (a second process
of a replica adds only the comparison with `retired`, which is in `Heartbeats`), two
targets, two versions of the inputs that move one of them. Ages are bounded by what
they are compared with, so nothing is cut off by a counter.

### Heartbeats and BundleDelivery

`Heartbeats` is one replica and one instance. `process` is the process that runs,
`sending` the slot of the address (`Client.heartbeatOne` waits for the heartbeat
before), `travelling` what each process has built and has not arrived or been lost:
a heartbeat given up on still travels, so that any may arrive after later ones. The
numbers a process gives its heartbeats are only compared: they are the order of
what travels, and `member.older` says how many of those the record has overtaken.
`Restart` ends a process however it does; `Forget` is the end of a record, or of the
allocator's memory of everything.

`BundleDelivery` has the handler's look (`takeChanges` before `readBundle`), its wait
and its last look as steps between which the bundle changes, and the client's loop
(`fetch`, `apply`, `waited`) with the reply of a heartbeat that wakes it. `current` is
the bundle of the replica, which a restart of the allocator forgets. Which bundles
are refused is fixed. The end of a bundle sets `seen`, `inForce` and `refused` in one step;
in the code `apply` sets `inForce` first, and a heartbeat built before the other two
(`client.go:889`) says the new generation with the refusal there was before.

Bounds: three processes in turn, so that two are replaced, two heartbeats of each on
their way; three generations of which one is refused, four changes, so that a bundle
is refused, taken back and sent again, and one failure of a request or a write. Only
one replaced process is remembered: a heartbeat of the one before that, still on
its way, is applied, as `docs/ALLOCATOR.md:701` and the comment at
`allocapi.go:131` say.

### Peers

An instance is its address. A round is three steps (`check`, `choose`, `act`), as in
`peers.round`: the answers come in without the mutex, the leader is chosen under it,
and the instance acts on its choice once a fetch it cancelled has ended. `snap` is its
snapshot fetch, of a follower or to seed a leader that has nothing yet. What a
snapshot brings is left out; `took` is that it brought something. `reach` says whether
`--peers` leads an instance to its own address, so that it may not know which of the
addresses is its own.

`OneDiscovers` is under `Apart`: answers to a round do not come in just while another
instance acts. Without it two instances that do not know their own addresses may
follow each other for ever, one round each; the code's answer is that acting takes no
time next to the wait between rounds (`docs/ALLOCATOR.md:540`).

Bounds: two instances, one failed check, which is one too many, one stop or crash. A
threshold of two, with two checks lost, was checked once and passes as well.

### Placement

Hashes are 5 bits wide with ties, logarithms have 2 bits of fraction; widths
are constants, and the fixed-point algorithm is that of the code. The instances
have all sets of at most four units of weights 2 or 5 and all lists of at most three
members of capacity 1 or 3, with three balance factors. What is proved (section 4) is of
every width, and of any units and members. Fractions are compared by
cross multiplication, as the code does with 128-bit products, which cannot overflow
at these sizes and is not what the run shows.

### StaticSchedule

Times are what is left until them. The loop sleeps, plans (`plan`), asks for each
target due whether it may be scraped, sets its scrape off or waits for the one in
flight (`awaited`), and sleeps until the next turn. A scrape is a goroutine that waits
for a slot, scrapes, and at its end clears the flag and wakes the loop: two steps,
between which the loop may look. A reload changes, removes and brings back targets
and replaces the slots; a scrape in flight is held to what it read. The loop may be
late (`Stall`) and a scrape may outlast its deadline (`Overrun`).

Bounds: one target of interval 3, concurrency 1 or 2, two reloads (removed and
brought back), one unit of overrun and of stall. Two targets with one reload, and the
intervals 2 and 3 mixed, were checked once and pass.

### TripLimiter

The state is `tripLimiter`'s: counts held and the line, which is the set of who waits
with, for each, those that came before it and still wait. A scrape waits, a probe
is refused. A grant and the end of the context race (`ContextEnds`, `GiveUp`,
`Proceed`, `Leave`): the waiter that finds itself granted gives the slot back.
A reload changes limits at any time; the exporter's own limit is set at the start
only. The trips of two collectors share two slots; a reload takes the limit of the
first between 1 and 2. A waiter put in line under a lower limit than later ones may be
passed by them until its context ends, so `WaiterServed` is about those that read
the highest.

### OTLPQueue

A point is its number, `pendingMetric.seq`. `queueOTLPResource` puts a result's points
in the queue and drops the oldest past the cap; `drainOTLP` takes the queue, and the
requests it is split into are delivered, refused or fail one after another, the
rest queued again (`requeueOTLP`) where nothing newer waits. The exports are switched
off and on by reloads; the shutdown stops an export that is under way and makes the
last. `acked`, `replaced`, `off` and `newest` are histories.

Bounds: three series, a cap of two, exports of one or two requests, three points; four
and five points were checked once and pass.

### Following and Reconcile

`InForce()` and `followed.Load()` are two reads, in this order; the plan is made
with no lock, and tested against both again under `statsMu`. `applyFollowed` runs
outside it, in any order, and compares generations. `kept` stands for what trips
leave under a collector's name (results, failures, backoffs, recent probes):
each store has its own lock, which covers the test whether the collector stands.
Configurations carry a number, as the code compares pointers.
Reloads are made one at a time (`reloadMu`), the reload's own following
included. Three reloads are enough to remove a definition, bring it back and
change it while a goroutine still has the first.

### FailureBackoff

A target's state is an object, as in the code, where a trip keeps a pointer to
the one it found: a target forgotten and remembered again has another. Whether a
wait has passed is a nondeterministic step (`WaitPasses`); how long waits are is left
out. Failures count up to `After`. One target is remembered at a time, so that each
new one evicts another.

Bounds: two trips to two targets, two failures until a target backs off, three reloads,
and four objects, one more than two trips and the memory can hold, so that there is
always one for a target that fails anew (`BackoffAssumption`).

### PythonPool

`run` is where each run of a script is in `PythonPool.acquire`, `run` and `release`;
`idle`, `line`, `live` and `obsolete` are the pool's fields, `tally` what its statistics
count, those of collectors that are gone under `Departed`. A worker is its script and
the statistics it was started for. The two calls of a reload, `Retain` by the
configuration manager and `Retire` by whatever follows it first, come in any order
after the configuration is in force, and runs of a script read before it begin at any
time. A worker that dies is found dead by the run that is given it.

Bounds: three runs over one or two workers, one idle worker of a script, two scripts,
two reloads. Four runs over two workers were checked once (421 thousand states)
and pass. A run of a changed script that begins late leaves a worker idle which
nobody asks for: it is stopped by the idle timeout alone, so no property says
otherwise.

### ProbeSharing

One request (target and parameters) of one collector. A flight's key is the
definition and the stay, the cache's the definition. A trip is the first caller's
goroutine's; callers wait for it or for their own context. A trip cancelled by
its last waiter goes on until it notices. `Failure` stands for every answer that has
nothing of the target's: failed requests, refusals by limits or the backoff.
Left out: collectors with `coalesce: false`, static scrapes that fill the same
cache, eviction at `max_cache_entries`. Two callers and two trips reach every
combination of an old trip with a new one; two reloads take a definition away and
bring it back.

### SQLConnections

One target, that is `host:port` with the connection settings. `pools` are its pools
whose DB is open, with their idle connections; `agent` is where each scrape, and the
one keepalive round, is: waiting for its place, making room, connecting, using,
giving back. Each read of another pool's `Stats` is a step, as each takes that pool's
own lock. `giving` is `sqlTarget.giving`. database/sql is external: a pool hands out an
idle connection before it makes one, makes no more than `max_per_target`, and closes
idle ones by age.

The limits do not hold at every moment, and the code does not lock them so: `crossed`
is a history variable that says a count was acted on after an idle connection it
covers was taken, or after a pool was made that the giver had not seen. `HeldToLimits`
says there is no other way past them; `sql_open` shows the first to happen. The second
lets the idle connections come to more than `max_idle_per_target`: `giveBack` reads
whether the target has another pool (`single`), or which pools it has, before it
counts. A connection that is being closed is counted by nobody.

Bounds: two places, one idle connection, one closed pool (a reload's, or for room), two
scrapes of two databases with either the keepalive or a closing, or one scrape
of three databases. The keepalive with a closing (1.7 million states) and two idle
connections with a closing (5 million) were checked once and pass. Left out:
`max_targets`, the order of `lastUsed` (any unused pool is closed), and a caller that
waits inside database/sql for its own pool's limit. The keepalive is one round of the
target, where `sqlpool.go:443` starts a goroutine for each pool: rounds of two pools
never overlap here, though a round takes and gives back while scrapes of every pool do.
`crossed` is somewhat broader than what it is there for: it is also set when an idle
connection is taken while another scrape has made its counts and is connecting.

### LoginCache

One key. `login` are the logins under way, each apart from the requests that wait for
it; `entry` the cache's entries, kept or no more, of which a login is under way;
`asker` what each request does: asks, waits, sends, asks again after the target refused
its token, once. `follow` drops the entry with the collector's login, and the counts
with the collector. `evict` is what another key's request does at `maxLoginEntries`.
Times are whether a token is fresh, due or expired.

Bounds: two requests, three logins, two reloads. Three requests (2.6 million states)
and four logins (2.9 million) were checked once and pass.

### BundleCache

`view` is the cache directory as processes see it: what `..data` names, the links
of top-level names through it, and the directory of each generation, there
when it is whole. `disk` holds, of each entry, every value since the last sync of
the directory; a loss of power leaves one of them for each entry by itself, as
POSIX leaves it and as the comments of `cache.go` take it. The call that replaces
a link is a rename, so it is one step; each link made, each one removed, each
sync and each reload is a step of its own (`relink`, `RelinkStep`). `at` is where
`Client.apply` is: repairing what a restore cut short left, writing, checking,
swapping, restoring, undoing a refused reload. `lock` is `Manager.reloadMu`; a
reload of a signal or the watch reads two files in two steps under it.

What a reload makes of a file is a choice, also for a bundle that passed
`CheckReplacement`: configurations read files outside the bundle, which change.
So each part may go alone, as in `apply`. A kill is followed by `Tidy` and the
start in one step, since nothing else runs yet; a start whose bundle does not load
has none in force (`CachedLoads`). The content of files is left out.

A call that fails returns its error (`Fails`), or is not seen to fail: `linkedGeneration`
takes a link it cannot read for none (`cache.go:63`), and `linkedNames` a directory it
cannot list, or a link in it, for no names (`cache.go:396`, `:404`). `Misses` counts the
steps that took something so, wherever one of the two is called: `inUseUnchanged` and
`repair` (`Receive`), `swap`, `discard`, `relink`, `removeOtherGenerations` (`Installs`),
`Tidy` and `CachedGeneration` (`Start`). Two of these cost something: what `swap` did not
see, its restore does not put back, and removes; what `discard` did not see that `..data`
names, it removes. `misled` says that one of the two happened since what is in force was
last put in place, by a reload that took a bundle, by `repair` or by a start. `KillSafe`
is of the rest, and section 3 says what happens then; of the others `StartsFindABundle`
proves that they cost no bundle. Where the code goes on to remove the rest when it could
not remove one directory (`Tidy`, `removeOtherGenerations`), the model removes all or none.

Bounds: three bundles where the machine loses power, two where the process is killed
and calls fail; one kill or one loss of power; two failures, which cut short a swap and
then its restore, or one and a read that fails unseen. A third bundle adds to two that there is one in force, one left in
place and one received; it has names the others lack, so that the premise of
`PowerSafeOfNames` is met in one direction and not in the other. Once a call failed or
the process was killed, reloads of a signal or the watch are left out while the client
has a bundle to go on with: what they put in force bears only on `OneGeneration`, which is
of what was undisturbed.

### ConfigWatch

A reload is the steps of `Manager.apply`. The configuration is stamped; the collector
files it lists are found out by a read of their own (`listedCollectorFiles`) and stamped,
with what the configuration in force names; it is read; its collector files are read and
merged (`mergeCollectorFiles`), upon which what it names is stamped, with what the
descriptor files import; and it is checked against what it names. The target file is
stamped and read, and what its check opens is stamped; the two are checked together, and
one of them alone when they disagree. Files change between any two of these. A file's stamp is the number of writes to it; `lastMod`, `collected`, `retry`,
`descriptors` and `loading` are what the manager compares at a tick, `waits` and `unread` why a file
that was refused is read again. `hidden` are files that cannot be read although
nothing that is stamped says so, as by the permissions of a directory.

A target file that waits for the configuration is not read again when a
configuration is read without it that is not the one in force. There are two ways:
the configuration is written after the tick looked, or it had been refused for a
descriptor file replaced between the two stamps of its load (`config.go:2257` and
`:2260`) and is read again for that file alone. `overtaken` is a history variable that says
so, of reloads that did not begin because the configuration had changed (`job`'s
`awaited`), and the properties are of the rest. `config_waits` shows the case.

A collector file is stamped before it is read only when the read that lists it sees it.
When that read fails the list stays that of the configuration in force
(`config.go:2239`), and when the configuration is written before the load reads it, it is
that of the one before. If the load succeeds, the files of its own list are stamped when
it goes in force (`config.go:2363`), after they were read, and a change between the two is
slept through; if it is refused, they are not watched. `unlisted` is a history variable
that says a collector file was read and not listed, and, once the configuration is in
force, that it was written since it was read; `taken` is what its stamp was then. The
properties are of the rest (section 3). The next reload lists anew and ends it.

There is one collector file, listed or not, one descriptor file with one import, and one
certificate: each stands for any number, as each kind is stamped and compared as a
whole. Several stamps that the code takes without a read between them are one step. At
the start every stamp is taken before the read, as `TakeStamp` and `LoadStamped` do; that
the collector files cannot be listed there either, upon which `NewManager` stamps them
late (`config.go:1715`), is left out: it is the case above again.

Bounds: three writes, one for each file that a change can span, each changing what the
file says; at most one file hidden at a time, and none hidden after the first write. In
the part `descriptors` what is written are the two files of the watch, the descriptor
file, its import and the certificate, no configuration lists the collector file, and the
target file may be hidden; in the part `collectors`, the two files of the watch, of which
the target file stays well formed, and the collector file, and the configuration or that
may be hidden. TLC does not mix the two; the theorem is of all of them
together.

## 3. Runs

| Run | What it shows |
|---|---|
| `membership` | bundles, drains, records and the armed wake agree with the lists in every reachable state; no gap (`NoGap` is an action property) |
| `membership_live` | with the inputs left alone: the proposed list follows the live members, a list is held for the settle time before it takes effect, drains end, and a list that stops changing takes effect |
| `members_max` (violation) | a held member that is back is taken past `--members.max` |
| `allocator_link` | no heartbeat takes back what a later one of its process said, and the record is right in the end; no change of a bundle is slept through, a refusal is reported for as long as it holds, and the last bundle is in force or refused in the end; who discovers and whom the others follow is as each has chosen, and one discovers in the end; order, bounds and moves of the placement |
| `static_scrapes` | one scrape of a target at a time and every turn in the end; slots neither lost nor given twice, and waiters served; every point of the queue accounted for, and none given up but for a newer one |
| `following` | following reloads step by step implements `Following`, and nothing of a retired collector is kept; no trip goes on for nobody, no waiter is stranded, the target is asked once, no answer is older than its collector; trials end, and nothing is remembered of a definition that is gone |
| `connections` | the limits of SQL connections, but where a count was out of date; pools open as long as used; one login for those who need it, and no refused token given again; the worker pool's counts are those of its workers, and no run waits while it could go on |
| `sql_open` (violation) | an idle connection taken between two counts leaves three open at a limit of two |
| `login_counts` (violation) | a login of an earlier stay of a collector is counted as failed in the next, where it was not made |
| `configuration` | no change of a file is slept through, but the one that `config_waits` shows and that of a collector file that was not listed, and files that are valid together get in force in the end; with a kill and two failing calls, a start after the first bundle finds a whole one unless a failure that nobody saw misled `swap` or `discard`, and the right one when nothing failed; a bundle that takes no name of the one before away survives a loss of power, whichever changes are on disk; no reload reads some files of each of two generations, and the generation named is that of the configuration in force |
| `bundle_names` (violation) | a name that the new bundle does not have: its link is removed too early |
| `config_waits` (violation) | a configuration that a tick reads for its descriptors, and that is not the one in force, goes in force without the target file that waits for it |

Runs with `CHECK_DEADLOCK FALSE` are those in which the bounded system really
stops: a placement is done, or the last reload left no collector to probe.

Fairness, of each part by itself. `membership_live`: time passes, a timer that is due
fires, the mutex is granted. `allocator_link`: the running process heartbeats at its
interval and gives up in time, what travels does not travel for ever, and the network
does not lose every heartbeat that was the last built (the one strong fairness: a
process repeats it at every interval); the handler and the loop take their steps and
waits have an end (each has a timer); rounds go on and fetches end, by
their timeouts. `static_scrapes`: the loop and the scrapes, which have deadlines,
are goroutines that are never held for good, time passes, trips end, and a waiter that
has its slot goes on. `configuration`: the watch ticks, and a
reload goes on. None is assumed of probes, reloads, changes, stops or contexts.

### Where code and documents disagree

* `--members.max` is looked at only for members without a record
  (`allocator.go:310`). A member that stopped heartbeating but is still in the list
  in effect, or within its TTL, is taken back when another has its place.
* `cache.go:40` says that a restart finds either the generation before or the whole
  new one. `relink` removes the links of names the new bundle does not have before
  the sync that puts the replacement of `..data` on disk (`cache.go:458`): a loss of power
  between the two may keep the removals and not the replacement. The next start
  finds no bundle, and waits for the allocator (`bundle_names`).
* `docs/SPECIFICATION-EXPORTER.md:2134` says that the connections open to a target
  must not be more than `max_per_target`. `makeRoom` (`sqlpool.go:1013`) reads the places
  taken before the idle connections, which covers a connection on its way back; one on
  its way out, taken with its place in between, is in neither count (`sql_open`).
* `docs/SPECIFICATION-EXPORTER.md:7871` says that the failed logins counted are among
  those made. `finish` (`login.go:1107`) looks only whether the collector has counts: a
  login made for an earlier stay of the collector fails in the next (`login_counts`).

* `config.go:1990` says that a file which waits for the other is read again with it when
  that changes. `reloadChanged` settles what is read before the configuration is
  stamped (`config.go:2016`): one written in between, at a tick that reads it for a
  descriptor file alone, is read without the target file that waits, which no later tick
  reads (`config_waits`). So is one that was refused for a descriptor file replaced
  between the two stamps of its load, and is read again for that file alone. The
  attempt to prove the property without `overtaken`'s second case found this one.

Two more, which the properties except by `misled` and `unlisted`, and no run shows by
itself:

* `cache.go:34` says that what a swap or a restore cut short leaves is put right before
  the next bundle is written, and `cache.go:40` that a restart finds a bundle.
  `linkedNames` is empty when the directory cannot be listed (`cache.go:396`). `swap` then
  has no names to put back, and the restore of a refused reload points `..data` at the old
  generation and removes every link. `repair` looks at `..data` alone (`cache.go:268`) and
  finds it right, so the links stay gone, and a start finds no bundle, until the next
  bundle gets in force.
* `config.go:1565` says that the collector files watched are those of the file last read,
  even when it was refused, so that fixing one it added is a change the watch sees. They
  are those listed by a read of its own (`config.go:2239`). When that fails, and the load
  reads the file and refuses it for a collector file it added, fixing that one is no
  change. When the load succeeds they are stamped once it is in force (`config.go:2363`),
  and one written after the load read it is not read again.

What else the models showed, by the same properties in other bounds:

* `PowerSafe` does not hold of a refused bundle that is taken back and has names
  the one before lacks: `relink` removes their links before the sync, as in
  `bundle_names` (`cache.go:458`), so the premise of `PowerSafeOfNames` turns about while a
  bundle is taken back. The proof found it; two bundles did not show it to TLC.
* `PowerSafe` does not hold after a kill: `Tidy` removes the directories of other
  generations (`cache.go:165`) when the replacement of `..data` is not synced yet.
* The generation named (`OneGeneration`) is not that in force when a cached bundle does
  not load at the start (`CachedLoads` FALSE): it is left in place without a generation
  (`src/allocator.go:196`), and a signal or the watch may put it in force later; `repair`
  then changes its links without the reload lock (`cache.go:263`). Nor after a restore
  that fails (`MaxFailures` 1): the refused bundle is left in place after the
  generation was set back (`allocatormode.go:141`). That is why `PowerSafeOfNames` and
  `OneGeneration` are of what was `Undisturbed`.
* `ProposedCurrent` does not hold while inputs are reloaded: `putInForce`
  (`discovery_runtime.go:343`) schedules without `update`, which `allocator.go:433` says is
  called after every event. A timer that was due is armed again, so that a member's
  TTL takes effect one timer later; nothing is lost, as `WakeArmed` shows. That is why
  `membership_live` has one version of the inputs.
* With `otlp.max_pending_points` 1 the cap drops the newest point too: it keeps nine
  tenths of the limit, rounded down.
* `publishStaticResult` (`statictargetsendpoint.go:88`) queues its points for OTLP after
  it has unlocked, so the points of a scrape that was retired meanwhile may be queued
  after the reload.

## 4. Proofs

Each theorem is `THEOREM Spec => []Inv`, for every value of the constants that the
module's named assumption allows, bounds such as `MaxReloads` included: a bound is
any number. The property is the one that the run checks on a small instance.
Each rests on an inductive invariant (`...Inv`), with one lemma for each kind of
step. An invariant was checked with TLC before it was proved where it was not
obvious.

**`MembershipProofs`** (`ConstantsAssumption`, `PlaceAssumption`: any placement that puts
every target on a member).

* `TypeCorrect`, `BundlesStayCurrent`, `DrainsStayApart`, `RecordsStayHeld` from
  `IInv`, the conjunction of `TypeOK`, `BundlesCurrent`,
  `DrainsApart`, `RecordsHeld` and `Formed`. None is inductive alone: the drains are
  apart only because the list in effect is well typed and formed; the bundles' type
  needs that of the drains; records are held only because `update` keeps those of
  the list that is in effect before and after it.
* `WakeStaysArmed`, a second induction over `IInv`: `schedule` arms the timer for
  the least deadline, and time brings timer and deadlines nearer together.
* `ProposedStaysCurrent`, of behaviours in which inputs stay as they are: a member's
  TTL is one of the deadlines the timer is armed for, which `WakeArmed` says. A
  reload of inputs does not call `update` (section 3), so without the premise it
  is false; `membership_live` has the same premise in its one version of them.
* `ListHeldBeforeEffect` and `NoTargetHasAGap`, action properties, one lemma per kind
  of step.

**`AllocatorProofs`** (`HeartbeatsAssumption`, `NoRecordAssumption`,
`DeliveryAssumption`, `PeersAssumption`, `PlacementAssumption`, `PassAssumption`). Of
placement it is assumed that keys and names are finitely many and, as strings are, each
in an order (`rank`), that a hash is below `2^HashBits`, and that a weight and a capacity
are not nought; nothing of `Score` else, so that any two hashes may tie.

* `DownMembersStayDown`: what makes the comparison of numbers enough is that a process,
  once it has said that it shuts down, says so ever after (`BuiltDown`), so that whatever is
  on its way and newer than the record says so too (`RecordedDown`).
* `NoChangeEverMissed` and `RefusalAlwaysKept` from `DeliveryInv`, which adds to the two
  only that a bundle being applied is one neither seen nor in force.
* `PeersAlwaysInOrder` from `PeersInv`: a fetch that was cancelled is one a round has still
  to act for, and a fetch that leads is a seed. That an instance chooses a
  leader there is, by the least number, needs a least element of a set of numbers.
* `PlacementAlwaysHolds` and `OthersStayAlways` from `PassInv`, in four parts.
  * *Logarithms.* `log2Fixed` never falls (`LogsOrdered`): of two numbers, what is left of
    the greater stays no less after each digit, or a digit has already told them apart
    (`NoMore`, `NextDigitsOrdered`), and what a digit leaves is from 1 to 2
    (`NextDigitIs`). The digits are a recursive function, whose value is proved to exist and
    to be the one there is (`Repeated`, `DigitsAre`). So `negLog` is not below nought, and no
    greater for a higher hash (`NegLogsOrdered`), however coarse the fraction.
  * *The order.* `better` compares `capacity / negLog` for members of different capacities
    and hashes for others, which are two orders; they are one because for equal capacities
    the hashes decide what the logarithms would, or more (`BetterIs`). So it is total and
    transitive (`BetterOneWay`, `BetterOnwards`), and among finitely many members one is first
    (`FirstIs`).
  * *The bound.* The loads add up to what is placed (`IsPlacing`). When no member has room,
    the unit goes to the least loaded for its capacity, and that one is below its fair share,
    or all loads would add up to everything with a unit still to place (`SumsCrossed`,
    `LeastBelow`).
  * *Who moves.* Where all members but one have room for everything, a unit is on that one or
    on the first of the others (`FirstOfOthers`, which a step keeps, where `OnlyItsOwnMove`
    speaks only of the end). The placement over the others alone, made in one go, puts every
    unit on its first as well (`AllOnFirst`, over the subsets of units that `placements`
    recurs on), and the first is the same in both lists (`FirstOfRest`).

**`StaticScrapesProofs`** (`ScheduleAssumption`, `NoStateAssumption`, `LimiterAssumption`,
`QueueAssumption`). `LateShare > 1` is `lateFirstScrapeShare` = 10
(`statictargetschedule.go:79`); `NoState` is the absence of a map entry, which is no state.

* `ScrapesOneAtATime` and `WaitsAlwaysEnd` from `ScheduleInv`: the flag `running` is that
  of the one scrape which is its target's own and has not ended (`FlagsFit`,
  `OneRuns`); a target that waits has a scrape whose end will wake the loop, or the
  wake is on its way (`WakesToCome`); a scrape waited for has less left than the
  turn, since it began a turn before (`InTurn`), which is arithmetic over cadences.
* `SlotsAlwaysServed` from `SlotsInv`. That a collector's trips are within the highest
  limit one of them read is not inductive: that trip may end. What is, is
  that for every number m no more than m of them read a limit of m or less
  (`WithinLimits`), of which the other follows.
* `PointsAlwaysKept` from `QueueInv`: a point is of one series, an export's point is older
  than the one waiting, what is settled is nowhere else, and what an export has yet to
  settle is in a request it has yet to make. The counts of dropped points are then those of
  sets with nothing in common.

**`FollowingProofs`** (`FollowingAssumption`, `SharingAssumption`: finitely many callers at a
time, `BackoffAssumption`).

* `FollowsInOneStep`, the refinement: `Reconcile` implements `FollowingSpec` under the
  identity, `install` being `Install`, a `Make` that makes a following `Follow`, and every
  other step a stutter, by the invariant that the goroutine which reloads is not done
  before what it installed is followed (`ReloadFollowed`): else a second reload would come
  before `Follow`.
* `NothingRetiredKept` and `NothingOlderFollowed` from the same `ReconcileInv`.
* `TripsAlwaysShared` and `NothingOlderAnswers` from one `SharingInv`: what a probe or a trip has
  read of its collector still is the collector's unless a reload changed that since
  (`ReadRight`), a trip answers with its own definition, of its stay or a later one, and its
  `waiters` are no fewer than those who wait.
* `BackoffAlwaysHeld` from `BackoffInv`: an object's trial is in progress exactly if a trip
  points to it, each trip to its own; the objects remembered are of different targets, have
  failed, and are as many as the limit allows; the others are blank, so that one is left for
  a target that fails anew, which is what the number of objects is assumed for: the code
  makes a new one.

**`ConnectionsProofs`** (`LoginAssumption`, `SQLAssumption`).

* `TokensAlwaysShared` from `LoginInv`: a login and its entry know each other, an entry that is not
  kept is one a reload dropped, and the token a request would be left with was
  not refused when it asked.
* `PoolsOpenAsUsed` from `PoolsInv`: pools are open as long as used and closed when not.
* `PoolsAlwaysDrain` from `DrainInv`, which adds that a scrape has a connection exactly from
  when it got it until it has given it back or closed it (`AgentsFit`), and that nobody knows
  of a pool yet to be made (`IdsFit`: else the connections of an old pool could be counted as a new
  one's). What is added up is a set as large (`SumOf`), since a fold would need an
  induction. A step moves one agent and one pool, and the sums follow from theirs
  (`OneMoved`, `OneGoesOn`), or a pool that goes changes several agents, none of which has
  more after it (`NoneMore`): the round that a forgotten target leaves behind holds places of
  that target, which the next target of the same key does not count (`forgotten`).
* `LimitsAlwaysHeld` from `IdleInv` and `OpenInv`, over the same `DrainInv`: unless a count was
  out of date, both limits hold. `IdleInv`, of what is idle (`IdleAlwaysHeld`): who tallies
  has the lock `giving`, and what it has added up is no less than what the pools it has
  read keep idle now, or only one pool is left, which keeps no more than it may by itself.
  `OpenInv`, of what is open, has to say for whom a scrape that makes room does so. It
  covers some scrapes that have a place and no connection yet (`cov`), itself among them:
  those that had one when it read the places. For all it covers there is room, but for
  the idle connections it has yet to count or to take (`CountingRoom`,
  `MakingRoom`), and nobody covered who gets a connection needs more than the place it
  is counted for (`RoomFilled`). Of two scrapes the later covers what the earlier does
  (`Ordered`), so that a connection of one that the other does not cover is one of those
  there was room for before. The hard case is a pool made after a scrape listed the others: it
  does not count what that pool keeps idle. Whoever opens a connection of it read the places
  later, so covers the scrape (`Told`), which goes on with the room made for both. What scrapes
  cover is no state of the model: the invariant says that there is a `cov`. It was checked
  with TLC, for three scrapes, before it was proved.

**`PythonPoolProofs`** (`PythonAssumption`: finitely many runs at a time). `WorkersAreServedAlways`
from `WorkersInv`. The counts are proved for sets of workers: how many runs start or use a worker
of a set (`Having`) and how many of those idle are in it (`CountIn`), for the workers of a
script, those counted in a collector's statistics, and all. Each step moves one worker, or stops
some of those idle, and the counts follow (`Moved`, `Stayed`, `LeftIdle`). What must be added is
that the line is of the runs that wait, each once (`LineOf`): a woken run has left it, so that
each place given back wakes one that looks; and that a collector's statistics are
retired only once its last definition is gone (`StayFollows`). `Retire` moves all that one collector's
statistics count to `Departed` at once; it is right because what is idle of it is stopped in the
same step, and no other statistics are kept (`CountedApartBy`).

**`ConfigurationProofs`** (`BundleAssumption`, `WatchAssumption`). A name is not `..data`, nor
that of a generation's directory: `cache.go:302` refuses names that begin with "..".

* `StartsFindABundle` from `BundleInv`, for any number of kills, losses of power, calls
  that fail and reads that fail unseen: unless `misled`, what is in force is whole in the
  directory and a relink that is cut short goes back to what is (`Going`, `InPlace`,
  `Found`). A loss of power may
  leave less than a kill: after one `inForce` is what the start found.
* `PowerLossLeavesABundle`, a second induction, of what is on disk: outside a relink what
  is in force is durable; in one, of the two generations the old is whole while the
  link `..data` may be the old, and the new as soon as it may be the new.
* `GenerationsStayOne`, for behaviours in which a bundle found at a start loads
  (`StartsLoad`): one that does not is left in place without a generation (section 3).
  The run has the same premise for the losses of power (`MCNext`).
* `ChangesAreRead` from `WatchInv`, the longest: `NoChangeSleptThrough` speaks of the
  moment when no tick has anything to do, so the invariant says of every moment what
  each stamp is worth. A file whose stamps are all current, that is not being read,
  says what is in force or was refused for a reason that still stands (`ConfigKnown`,
  `TargetsKnown`), when the collector files merged into it were listed (`Collects`); so the pair of them (`PairKnown`), what is in force with the
  descriptors (`InForceKnown`), and what has been read and is not decided yet
  (`GotConfigKnown`, `GotTargetsKnown`, `RefusedKnown`). Every stamp comes before the read it
  is of, but for those of `unlisted`, and the proof rests on that throughout.

Attempts at proofs corrected two properties: `PowerSafeOfNames` had left out the
names of a bundle that is taken back, and `overtaken` one of its two ways (section 3).
Neither shows in the bounds the run had then; for the first it now has a third bundle.

Inductions over data, such as that of the digits of a logarithm, of the subsets of units or of
a sum, are done without the library's theorems that take an operator as a parameter: the
least number, or a set of the fewest members, of which the statement fails would have one
before it of which it does not (`LeastOf`, `OneByOne`).

Only model-checked is liveness, which is out of the prover's reach: `DrainsEnd`,
`ListTakesEffect`, `TurnsCome`, `WaiterServed`, `ValidGetsInForce`, `HeartbeatsHeal`,
`BundlesDelivered`, `PeersSettle`. Every invariant and every action property that a passing run
checks is a theorem.

## 5. Plan

Done: all modules of section 2. In this order next:

| | Module | Question |
|---|---|---|
| 1 | `RateLimits` | buckets of collectors and hosts over reloads and refusals of targets |
| 2 | `Lifecycle` | the order of the shutdown, readiness, requests in progress |

No module to be proved about has a recursive operator.

## 6. Not modelled

Parsing, decoding, expressions, transforms, the exposition formats and the pages
are conversions without shared state, tested and fuzzed in the repository: what could
be wrong with them is in their data, which a model of their control would not have.
The protocol clients are I/O. Authentication, tokens and TLS are left aside. The
chart, the examples and the tools are not part of the programs. The routes of
displaced probes and the service discovery answers read the member list and keep
nothing. Of the ssh and gRPC connections, the sharing is that of the SQL pools without
their counts over several pools, which is where those are hard.
