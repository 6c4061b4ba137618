# TLA+ models of tdarr-exporter

tdarr-exporter is a Prometheus exporter: every GET of its metrics path asks a
Tdarr server for its statistics and publishes them. This directory holds TLA+
models of the parts of it where order, overlap and failure decide whether the
numbers are right, TLC configurations that check them, and TLAPS proofs.

Check one run with `tlc -config <file>.cfg <module>`, the proofs of a module
with `tlapm <module>Proofs.tla`: `ScrapeCache`, `PieFanout`, `Transport`,
`Exporter`, `Startup`, `Shutdown`, `StatusNormalize` and `Series` have some.
`PROJECT.json` lists the runs, what each definition translates (`map`), the
mutants that show each property can fail, the hazards and the findings.

## The system

| Component | Source | State it keeps | Operations | Status |
| --- | --- | --- | --- | --- |
| Scrape and library-stats cache | `internal/collector/tdarr.go`, `tdarr_models.go` | `statsCache` (totals, figures, fingerprint), `unknownStatusCounts`, the locals of each `Collect` | `Collect`, `collect`, `shouldRefetch`, cache `Read` and `Write`, `bumpUnknownStatus` | `ScrapeCache`, `View` |
| Worker pool of a sweep | `internal/collector/tdarr.go` | `inChan`, `outChan`, two wait groups, `pieData`, the partial flag | `fetchPies`, `getLibStats` | `PieFanout`, `Sweep` |
| Tdarr client | `internal/client/transport.go`, `client.go` | the request's body, the open response, the retry index | `RoundTrip`, `drainClose`, `DoRequest`, `DoPostRequest`, `unmarshalBody` | `Transport`, `Call` |
| Process start and shutdown | `cmd/exporter/main.go`, `internal/server/server.go` | three channels, a wait group, the base context, the exit code | `run`, `awaitShutdown`, `ServeHttp` | `Startup`, `Shutdown` |
| Routes | `internal/server/server.go`, `internal/handlers/` | none | `newMux`, index, healthz, 404 | `Startup` (registration, matching), `Middleware` (answers) |
| Middleware | `internal/handlers/middleware.go` | status and `wrote` of a recorder | `Recovery`, `RequestLogger`, `WriteHeader`, `Write` | `Middleware`, `Exporter` |
| Configuration | `internal/config/config.go` | none after start | `applyEnvDefaults`, `parseConfig`, `parseUrl`, `NewConfig` | `Startup` |
| Status normalisation | `internal/collector/tdarr_enums.go` | none | `normalizeStatusSlice`, label cleaners | `StatusNormalize` |
| Node and worker series | `internal/collector/tdarr_nodes.go`, `tdarr.go` | none | `GetNodeData`, `countWorkersByType`, `parseWorkerType`, `parseEtaSeconds`, `emitNodeMetrics`, `emitPieMetrics` | `Series`, in part |
| Descriptors and values | `tdarr.go`, `tdarr_nodes.go`, `tdarr_models.go` | none | `Describe`, names, labels and scale factors of `emit*` | no: tables without control flow, covered by golden tests |
| Registry, promhttp | external | | gathering, exposition | no: libraries |

How they interact. `main` builds the collector with a base context, starts
`ServeHttp` and waits for a signal or a server error. The HTTP server runs each
request on a goroutine; the metrics route makes the registry call `Collect`,
which calls the client for four documents: server status, general statistics,
library list, nodes. Between the third and the fourth it consults the cache,
and on a miss it starts the worker pool, whose workers call the client once per
library. The cache and the drift counters are the only state shared between
scrapes. Cancelling the base context is how a shutdown reaches a request under
way.

What makes each part hard, and what it has to guarantee:

* **Scrapes** overlap: a slow sweep makes the next scrape start before it ends,
  and several Prometheus servers may scrape. The cache is read, compared and
  written with no lock held in between, each document may belong to another
  moment of Tdarr, any call may fail, and one library of several may fail. What
  is cached has to be whole, `tdarr_up` 1 has to mean nothing is missing, and
  published figures must not predate what they are published beside.
* **The pool** is two channels, two wait groups and a flag; closing, draining
  and waiting in another order deadlocks, panics or loses a result.
* **The client** must free a response body on every path, restore the request
  body for each attempt, classify late answers like early ones, and give up
  when the context ends.
* **The shutdown** has senders that outlive their reader, clients that never
  read and signals that come at any time; it must end, with a true exit code.
* **The start** takes each setting from one of three places, with three parsers
  for the same number, and ends early in seven ways with three exit codes. A
  metrics path that is let through by mistake panics when the routes are
  registered.
* **A request** passes through two recorders that must agree with what net/http
  sent, also when a handler panics half-way; the scrape below it must send
  `tdarr_up` once on every way out, and end although its client may be gone and
  another scrape may hold the mutex it needs.
* **The series** of one scrape are made from JSON objects walked in any order;
  two that agree in name and labels cost one of them.

## The modules

### ScrapeCache

One process per slot of `Scrapers`, each running one `Collect` after another.
`scrape[s]` holds the locals: where it is (`pc`), `metric`, `allLibs`,
`pieData`, `partialFail`, and what it published (`exposed`, `up`). The actions
follow the statements of `collect`: `GetStatus`, `GetStats`, `GetLibraries`,
then `UseCache` or `StartSweep`, one `PieSucceeds` or `PieDropped` per library,
`EndSweep` with the cache write, `Emit`, `GetNodes`. `UpstreamFails` is every
way out of the first three calls: an error, an unparsable score, a panic.
`PieDropped` is either `continue` of `getLibStats`; `GetNodes(s, FALSE)` is a
failure after the view has been published.

Tdarr is external: `history` is an arbitrary sequence of states and `now` the
one it has reached. The ten cached counters are one value, a library's figures
are the moment (`at`) they were answered, the fingerprint, a sorted copy of the
list, is the list as a set. The cache read and the decision made on it are one
step, because nothing else of the scrape depends on what lies between them; the
end of the sweep and the cache write are one step likewise, since `pieData` is
private to the scrape until then.

`UpMeansComplete`, `CacheComplete`, `FreshView` and `DriftExposed` are the
safety properties, `ReuseWhenSettled` and `CacheAdvances` constrain steps.
`CacheAdvances` is for scrapes that have not overlapped (`Sequential`): of two
overlapping sweeps the slower one may write last, with older figures; they are
still no older than the totals they are filed under, which is what `FreshView`
asks.

`View` is what Prometheus is promised of one scrape, in a model that has no
cache, no sweep and no other scrape: totals as Tdarr has them, then the library
list as Tdarr has it, then figures of those libraries as Tdarr has had them at a
moment since the totals were read, then `tdarr_up`, which is 1 only if the
figures are whole. A published figure is told by the totals Tdarr had when it
gave it, since totals are all the code has to tell whether figures have moved
("Residual staleness", `docs/metrics-internals.md`).

`ImplementsView` says that each scrape of `ScrapeCache` takes only steps of
`View`, as long as totals that Tdarr has left do not come back (`TotalsTell`):
figures that came from the cache, however old and whoever fetched them, are then
figures Tdarr would have given this very scrape. Without the premise this is
false, which is the case the run `MCScrapeReuse` shows. The window starts where
the scrape reads its totals, so it may start before the scrape reads the list.
The mapping shows the figures from the moment they are emitted (`Published`),
gives the totals Tdarr has had since (`Seen`, a function of the state and not an
auxiliary variable) and hides everything else. `Figures` holds the operator both
specifications use to say that figures are whole.

### Sweep and PieFanout

`Sweep` is what `ScrapeCache` assumes of `fetchPies`: each library answered or
given up once, then the return. `PieFanout` has the goroutines: the caller, the
workers and the drain, each with a program counter, and channels as sequences
with a capacity. Its property `ImplementsSweep` is `Sweep!Spec` under the
mapping in which a library is pending until its worker has an answer or gives
up, and fetched from the answer on, wherever it is queued. `result` is the flag
as the return loads it, apart from `partial`, the flag the workers set: the load
is right only because no worker is left. Go's panics (a send
on a closed channel, a panic in a worker) end the process: `crash`.

### Transport

One request: attempts, each with a nondeterministic outcome (`Attempt`), the
decision after it (`Retry`, `Refuse`, `Accept`), `DrainClose`, the `select`
(`AbortWait`, `TimerFires`) and `Decode`. The code decides twice whether an
attempt failed, after the first (`FirstFails`) and after each retry
(`Recovered`); they are two operators, since nothing but care keeps them in
agreement. `open` is the set of attempts whose
body is not closed, `sent` what each attempt had to send. `endless` is a body
that does not end while the context lives.

`CallState` is what a scrape sees of this: a call that is being asked, has been
answered, or has delivered data or an error. `ImplementsCall` says that every
behaviour is one of `Call`, which `Exporter` uses in its place: one answer at
most, and none after the end of the context.

### Middleware and Exporter

`Middleware` has one record per HTTP request: where its handler is, both
recorders (`inner` of `RequestLogger`, `outer` of `Recovery`), what net/http has
sent and on whose behalf, the panic that unwinds, what was logged. `WriteHeader`
and `Write` go through both recorders to net/http and are recorded on the way
back, `WriterPanics` is a write that never comes back. `Panics` is a handler that
panics between two calls, with a fault or with `http.ErrAbortHandler`; `Abort`
and `Recover` are the two ways through the deferred function. A client may leave
at any time (`PeerLeaves`), which fails later writes and nothing else.

`Exporter` extends it with the scrape of each request for the metrics path and
the calls of each scrape. Scrapes overlap. They share the context `run` cancels
(`CancelScrapes`) and `unknownStatusMu`, which `TakePie` takes for a moment and
`LockCounters` holds until `UnlockCounters`. A call goes from `asking` to
`answered` to `data` or `error` with the guards of `Call`'s actions, with the
base context for the context: that `Transport` implements `Call` is what entitles
`Exporter` to them. The calls of a sweep come one after
the other here: their pool is `PieFanout`. What the cache decides is
`TakeLibraries` with any number of libraries. A panic on the goroutine of the
scrape may come wherever that goroutine runs code of its own (`CollectPanics`);
the one of a worker is `PanicContained` of `PieFanout`.

`transport.go:104-107` counts a Prometheus scrape timeout among what ends the
context of a request to Tdarr. `Collect` has no access to the HTTP request and
derives its context from the base context (`tdarr.go:546`), which only a shutdown
cancels: a scrape whose client has gone (`PeerLeaves`) goes on. `ScrapesEnd`
shows that it ends nevertheless.

### Startup

From the arguments to the listening server: `env` (`applyEnvDefaults`), `flags`
(`fs.Parse`, one step per argument), `check` (`parseConfig` and `parseUrl`),
`build` (`NewTdarrCollector`, the registry), `routes` (`newMux`). Each early exit
is an action with its code. The checks of a setting are one conjunction, since
each of them exits with 1 and none changes anything; the order between help, bad
flags, the environment and `-version` is kept, since it decides the code.

What the standard library makes of a string is a constant function of the model:
two integer parsers (`Atoi` for the environment, base 0 on the command line),
booleans, ports, urls, the segments of a path and what the escapes of a segment
stand for. The proofs hold for any such functions. `RegisterPanics` is ServeMux
as the comments at `config.go:220-248` describe it, with the escapes undone; it
errs on the side of more panics, which asks more of the checks.

### Series

The walk over the decoded documents: `EmitPie` and `EmitSlice` per library,
`StartNode`, one `CountWorker` per worker, `EmitCounts`, one `EmitWorker` per
worker. Nodes and workers are taken in any order, and each of the two loops over
the workers of a node in an order of its own. The registry is external: it keeps
the first metric of a name and label values (`exposed`) and drops the others
(`dropped`). Gauges that are sent together with the same labels are one series,
and one of the five slice lists stands for all.

`NoDuplicates` is for documents whose ids keep libraries, nodes and workers
apart, `NothingMissing` for all documents: a duplicate costs a value and never a
label set, and a figure that does not parse costs itself and nothing after it.
`CountsAgree` compares the two loops over the workers of a node.

### StatusNormalize

What a worker does with an answer before it sends it on: one action per entry of
a slice, the transcode slice before the health checks, library after library. A
name is a word and a form, so that two names can clean to one label, and in
other ways for the two kinds, as the two cleaners differ. `Normalized` compares
the map built so far with its definition over what was read; `UnknownCounted` is
the fact `ScrapeCache` uses when it takes the unknown statuses of a fetched
library for counted.

An unknown status is "kept with real value (no data loss)" (`tdarr_enums.go:57`;
`docs/metrics-internals.md:253` says the same). That is not so of two unknown
names that clean to one label: the code assigns and does not add, so the value of
the later entry stays and the other is lost. `Normalized` states what the code
does.

### Shutdown

`main`, the listener goroutine, `ServeHttp`, the forcing goroutine, and the
connections. Channels are counters with a capacity; the unbuffered stop channel
is a joint step of `main` and `ServeHttp`. Go ends the process when `main`
returns or `os.Exit` is called: then `exit` is set and nothing moves.

## The runs

| Run | Bounds | Shows |
| --- | --- | --- |
| `MCScrapeCache.cfg` | 2 scrape slots and 2 library lists (a rename with an addition), or one slot used alone and 5 lists (also none, a rename alone, a library without a name); 2 totals, 2 changes of Tdarr | completeness, honesty, order, drift and reuse under every overlap; without overlap, that the cache never goes back; refinement of `View` while totals do not come back |
| `MCScrapeReuse.cfg` | 1 slot, 2 lists | **violated**: see findings |
| `MCStatusNormalize.cfg` | 2 words (known for one kind, for none), 3 forms, 2 values, slices of 2, 2 libraries | the published maps are the reference ones, of two unknown names with one label the later; unknown statuses are counted |
| `MCPieFanout.cfg` | 3 workers (the default), 4 libraries, result capacity 4 and 0 | result, no crash of the pool's own making, no late work, refinement, termination; with capacity 0 the comment at `tdarr.go:521-525`: the buffer is not needed |
| `MCPieFanoutPanic.cfg` | as above | **violated**: see findings |
| `Transport.cfg` | 2 retries (the default) | no leak, whole bodies, only 2xx decoded, retries justified, termination, refinement of `Call` |
| `MCExporter.cfg` | 2 requests, one for any route and one scrape (`RoutesOf`), a sweep of up to `MaxLibs` = 1 library | one answer, true log, one true `tdarr_up`, every scrape ends |
| `MCStartup.cfg` | `MaxArgs` = 3 of 13 arguments, environments that are empty, good, or good but for one setting | settings, exit codes, routes |
| `MCStartupEscapes.cfg` | as above | **violated**: see findings |
| `MCSeries.cfg` | up to 2 libraries, 2 nodes, 3 workers, 5 worker types of which 3 are unknown, ids that repeat | nothing lost that ids tell apart, no label set missing whatever ids repeat, counts that match the workers |
| `MCShutdown.cfg` | 2 connections, 3 signals | honest exit code, no waiting for Tdarr, termination |
| `MCShutdownSecondSignal.cfg` | as above | **violated**: see findings |

Why the bounds suffice. Two scrapes meet in every way two can: each property
relates one scrape to the cache, and the cache to the scrape that wrote it.
Two changes allow totals to leave a value and come back, the case equality
tests miss. Three workers and one library more than that let a worker come back
for a second one while others still hold theirs. Three signals are one to ask,
one to force and one to be dropped; a second connection adds one that hangs
beside one that finishes. Two entries are what it takes for one to overwrite
another, two libraries for a counter to survive. Two requests
let a scrape meet another scrape at the mutex, and a panic of one handler meet a
scrape; a sweep of one library is one that takes the mutex between its call and
the counters. Three arguments let one flag override another with a third
before, between or after them. Two workers of every pair of types meet in every
order of both loops, a third makes one unknown type repeat beside another. For
safety the proofs lift these bounds.

`MCScrapeCache.cfg` checks `RunSpec`, which keeps two things of `Spec` small.
Once two slots have been used (`Sequential` is false) only the lists overlap can
afford occur; one slot alone meets all five. And Tdarr begins with the first of
the two totals: totals are only compared with each other, so a behaviour that
begins with the other one is the same with the names exchanged. The run uses
symmetry on the slots, which are interchangeable in `RunInit`, `RunNext` and
every property there; no liveness is checked.

Deadlock checking is off where the system stops: a pool that has returned, a
request with its result, a process that has exited.

### Fairness

* `PieFanout`: each goroutine that can run runs, as Go's scheduler provides,
  and every request ends, as `http.Client.Timeout` (`client.go:50`) provides.
* `Transport`: weak fairness of the request's own steps and of the end of its
  context (the same timeout). None for the backoff timer, and an endless body
  ends only with the context, so `RequestEnds` rests on the cancellation paths.
* `Shutdown`: each of its goroutines runs, and the deadline of
  `srv.Shutdown` passes (a timer). Nothing is assumed of Tdarr or of clients:
  scrapes and writes may hang.
* `Exporter`: the steps of a scrape are taken (Go's scheduler), a call is
  resolved (its timeout), and the mutex is acquired in the end by whoever keeps
  waiting while it is released again and again: strong fairness of `TakePie` and
  `LockCounters`, as Go's `sync.Mutex` provides with its starvation mode. Nothing
  is assumed of Tdarr, of clients or of the shutdown.
* `ScrapeCache`, `Startup` and `Series` state no liveness.

## Findings

1. *Reuse after a change.* README.md:128 says figures are "reused when nothing
   has changed since the last scrape". `collect` files figures under the totals
   it read before the sweep (`tdarr.go:719-723`). If the totals move while the
   sweep runs and later move back, the next scrape finds them equal and reuses
   figures Tdarr gave under the other totals. This is not one of the cases
   docs/metrics-internals.md lists: the two changes are in different scrape
   windows, and each moves the totals.
2. *Panic in a worker.* `client.go:83-85` says a panic inside a scrape becomes
   `tdarr_up` 0 by the recover in `Collect`. The get-pies requests run on
   goroutines started at `tdarr.go:502`, which that recover does not cover.
3. *Second signal.* README.md:48 says "a second signal forces an immediate
   exit". `quitServer` (`main.go:71`) has one slot and `signal.Notify` drops
   what does not fit: two signals in quick succession, before `awaitShutdown`
   has taken the first, count as one.
4. *Escaped path.* The checks at `config.go:220-250` are there "to fail cleanly at
   startup" (`config.go:223`). They compare the path with the reserved routes as
   text, while ServeMux undoes the percent-escapes of a pattern: `/%68ealthz`
   passes them, conflicts with `/healthz` and panics in the goroutine of
   `ServeHttp`. For paths without escapes `Routing` shows that nothing passes
   that ServeMux rejects.

## The proofs

| Module | Theorems | For every |
| --- | --- | --- |
| `ScrapeCacheProofs` | `TypeCorrect`, `CacheCompleteAlways`, `UpMeansCompleteAlways`, `FreshViewAlways`, `DriftExposedAlways`, `ReuseWhenSettledAlways`, `CacheAdvancesAlways`, `ViewImplemented` | set of scrapes, libraries, lists and totals, number of changes |
| `PieFanoutProofs` | `TypeCorrect`, `NoSendOnClosedAlways`, `NoLateWorkAlways`, `ResultCompleteAlways`, `SweepImplemented` | pool, number of libraries, channel capacity |
| `TransportProofs` | `TypeCorrect`, `NoBodyLeaksAlways`, `WholeBodySentAlways`, `OnlySuccessDecodedAlways`, `RetriesOnlyFailuresAlways`, `CallImplemented` | number of retries, with a body and without |
| `ExporterProofs` | `TypeCorrect`, `AnswerOnce`, `LogIsTrue`, `UpSentOnce` | set of requests, routes they may ask for, number of libraries |
| `StartupProofs` | `RunsAsConfigured`, `ExitsAsDocumented`, `RoutesAsConfigured` | environment, command line, behaviour of the library's parsers |
| `StatusNormalizeProofs` | `TypeCorrect`, `NormalizedAlways`, `UnknownCountedAlways` | set of words, known statuses and values, length of a slice |
| `SeriesProofs` | `NoDuplicatesAlways`, `NothingMissingAlways`, `CountsAgreeAlways` | number of libraries, nodes and workers, their ids, types and statuses, what parses, what `strings.ToLower` does |
| `ShutdownProofs` | `TypeCorrect`, `ExitCodeHonestAlways`, `NeverWaitsForTdarrAlways` | set of connections, number of signals |

The assumptions are the types of the constants, named in each module
(`ScrapeCacheAssumption` and so on), and in `Startup` two facts about paths
(`PathAssumption`): a wildcard has braces, and only "/" and "/healthz" have the
segments of "/" and "/healthz". Every proof has the same frame: an
inductive invariant `IInv`, `InitInv` and `NextInv` with a step per action,
`InductiveInv`, and the temporal theorems from it.

*ScrapeCache.* None of the four safety properties is inductive: each speaks of a
finished scrape or of the cache, and the reason it holds lies in the scrapes
under way. `IInv` therefore describes, besides the cache, each place a scrape
can be at: the totals and the list it holds were read in that order, the figures
it has gathered came after both, libraries answered and libraries pending make
up the list unless the partial flag is set, and whoever holds figures of a
library finds its unknown statuses counted. The snapshot satisfies the same
facts about order, which is why a cache hit inherits them. `ReadInOrderLater`
says that what was read in order stays so as time passes and is used for every
step that moves `now`. `ReuseWhenSettledAlways` needs of `IInv` the types and
that a cached snapshot has one figure per library of its fingerprint:
`SettledStep` shows that from a settled state no step starts a sweep or writes
anything else.

`CacheAdvances` needs more: `Gathering` says that, while scrapes have not
overlapped, what a sweep has gathered is no older than what the cache holds. A
figure that arrives is as recent as anything (`CachedBefore`), and nobody else
writes the cache meanwhile, since the slot that takes a step in a sequential
state is the only one in use (`OneSlot`).

`ViewImplemented` maps each step to a step of `View` for every scrape at once
(`NextMaps`): a step of another scrape, or one between the list and the
publication, leaves what `View` sees of this one unchanged (`Hidden`), and
`ScrapeMaps` treats the others. The guards of `View` that the code has not are
what `IInv` says of a scrape at `emit` and at `nodes`. `FiguresSeen` is where the
figures fit what the scrape read: their order (`ReadInOrder`) puts each answer
after a moment at which Tdarr had the scrape's totals. `SeenLater` follows `Seen`
over a change of Tdarr; `SeenAtRead`, that at the reading of the totals Tdarr has
had no others since it first had these, is the one place that needs
`TotalsTell`.

*PieFanout.* `ControlInv` relates the program counters: the caller closes
`outChan` only after every worker has left, a worker leaves only when `inChan`
is closed and empty, the drain ends only with `outChan` closed and empty, and the
flag returned is the workers' flag.
`PlaceInv` says where each library is: not taken yet, with exactly one worker,
queued, in `pieData`, or given up, and never in two of these; given up is
possible only with the partial flag set. `ResultComplete` is what is left of
this when the caller has returned. `AppendRange` and `TailRange` are the lemmas
about sequences without repetition it rests on. The refinement (`Mapping` and a
lemma for each kind of step) uses the same two invariants: a worker that takes a
library or queues a result leaves `Pending` and `Fetched` as they were, one that
gets an answer or gives up takes the corresponding step of `Sweep`.

*Transport.* `CountInv` counts attempts and retries together, `BodyInv` says
that the only body that can be open is the one of the last response and that
the request body is fresh before each attempt, `OutcomeInv` what the last
outcome permits at each place. `CallImplemented` rests on the last: a call is
answered by an attempt that ended in a 2xx while the context lived, and nothing
but the end of the decoding or an error follows.

*Exporter.* `IInv` has three parts. `HInv` is about a response: the recorders
agree with each other and, once they have recorded, with what net/http sent, so
that whoever looks at them (the log line, the deferred function of `Recovery`)
sees the truth. `SInv` is about a scrape: until it has ended it has sent no
`tdarr_up`, and it remembers a failure exactly when its partial flag does. `Link` ties them: a
response to the metrics route exists only once its scrape has ended.

*Startup.* `Parsed` says that the settings are those of the arguments read so far
(`Reflects`), which `ReflectsMore` carries over one argument: it decides its own
option and no other. `Stopped` keeps why the parse ended, `Accepted` what the
checks have found, `Registered` what the registration has made of it. With
`NoPanic`, accepted and plain paths are never rejected by ServeMux.

*StatusNormalize.* `IInv` is the conjunction of the type invariant, `Normalized`
and `UnknownCounted`: stated of what has been read so far, they are the loop's
invariant. `EntryInv` is its step: an entry becomes the last one of its label
and changes no other.

*Series.* The registry is the only memory of the walk. `Walk` says what the
program counters mean: which libraries, slices, nodes, counts and workers have
been passed. `Origins` says that every series the registry holds comes from one
of these, `Answered` that every label set of these is there. `NoDuplicates`
follows a step of the walk: a series about to be sent whose labels are there
already has the same origin (the labels of each kind tell the documents apart,
`PieLabels` to `SliceLabels`), and that origin has not been walked yet.
`NothingMissing` is `Answered` at the end of the walk (`AllWalked`).

For `CountsAgree` the counts of the loop are tallies, cardinalities of sets of
workers (`Tally`); `TallyMore` carries them over one worker, so that the loop's
invariant `Counting` needs no induction over the workers. `CountsShown` keeps
each tally from the moment it is sent, and `ShownWorkers` maps the workers of a
type one to one to the series that show them. What the proofs assume is the
types of the documents, and that a node has finitely many workers
(`SeriesAssumption`).

*Shutdown.* An error that `awaitShutdown` takes is the listener's: `ServeHttp`
sends its own only after `main` has stopped it. Together with "a signal in the
channel was sent" this makes the exit code honest.

`IInv` of `ScrapeCache` and that of `Series` were model-checked, on the instances
of `MCScrapeCache.cfg` and `MCSeries.cfg`, before they were proved.

Only model-checked: the liveness properties `Terminates`, `RequestEnds`,
`ScrapesEnd` and `ExitsWhenAsked`, and the four violated runs. Liveness under
fairness, ENABLED and what a recursive definition computes for every input are
out of the prover's reach and stay with TLC.

## The plan

Done: `ScrapeCache` first, since wrong numbers are the worst failure of an
exporter; then the pool it takes for granted, what a worker makes of an answer,
the client under both, and the shutdown around them; then the composition of
requests, scrapes and calls, the middleware, the start, and the series; then the
abstract specification of a scrape (`View`) and that `ScrapeCache` refines it.
Each module has the proofs of its safety properties.

What could follow: the link from `Startup` to `Shutdown` as one module, a panic
of the route registration racing with a signal.

## Not modelled

* Names, labels and scale factors of the metrics, and the values `Series` leaves
  out: tables without control flow, compared with golden files by the tests.
* The registry and promhttp beyond what `Series` and `Exporter` say of them:
  external libraries. A duplicate series becomes an error of the gathering,
  which `ContinueOnError` reports beside the rest.
* How many requests reach Tdarr at once from overlapping scrapes: each has a pool
  of its own, and nothing in the code bounds their number.
* Parsing done by libraries (JSON, URLs, integers), TLS, logging.
