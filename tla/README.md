# Verification of telescope

TLA+ models of `@adonis-agora/telescope`, the configurations TLC checks them with and the
theorems TLAPS proves about them. Telescope is an observability library that lives inside
an AdonisJS process: it sees requests, exceptions, queries and diagnostics events, records
each as an *entry* in a store, deletes what is past its retention, serves the entries to a
dashboard and raises alerts. What is hard about it is not any single function: it is
JavaScript that interleaves at every `await` with timers, with other pods on the same
tables and files, with stores that fail half way, and with a host whose logger, emitter and
clients it wraps and gives back. The models are about that.

Source paths are relative to `src/packages/core/src/` unless they say otherwise.
`PROJECT.json` maps every definition to the lines it stands for.

## 1. Inventory

| Component | State it keeps | Operations | Hard because |
|---|---|---|---|
| Tiered store (`stores/tiered.ts`, `stores/parquet*.ts`) | a hot table shared by pods, Parquet files by hour, a cached listing per pod, local copies of remote files | `record`, `prune` (move, undo, hot prune, cold expire, compact), `get`, `list`, `count`, `clear` | two tiers, no transaction across them, many pods, crashes between any two awaits, readers during all of it |
| SQL store (`stores/lucid.ts`) | write buffer, one drain, a sequence, the promise of the initialisation; a marker row beside the table | `record`, `prune` in batches by position, `clear`, schema, reads | batches that fail as a whole, writes arriving while the drain ends, restarts, processes that create the table together |
| Memory store (`stores/memory.ts`) | a ring of slots with holes, an index | the same, in one turn each | wrap-around, holes |
| Recording pipeline (`watchers/record.ts`, the decorators in `sampling/`, `redaction/`, `otel/`, `stream/`, `report_failure.ts`) | runtime slot, folded failures | `record` through streaming, export, sampling, redaction | gates read before and used after an await, placeholders that carry raw content |
| Overload guard (`overload_guard.ts`, `registry.ts`) | a histogram, a grace, the `paused` flag of the process | `start`, `stop`, `sample`, `setTelescopePaused` | two masters of one flag |
| Watchers (`watchers/`, `telescope_middleware.ts`, `request_watcher.ts`) | what they put into the host: wrappers, listeners, a process-wide slot | start, stop, one event to one `record` | removal in another order than installation, third parties on the same methods |
| Diagnostics channels, extensions, queue adapters (`diagnostics/`, `extension/`, `queue_manager/`) | announced channels, claims, registered extensions, the adapter | follow, claim, register, act | what is announced late, ids that collide, what an adapter cannot do |
| Pruner (`pruner.ts`) | timer, the running cycle | `start`, `stop`, `pruneNow` | manual and scheduled cycles |
| Exception alerts (`alerts/exception_source.ts`, `alerter.ts`, `new_exception_tracker.ts`) | watermark, cooldowns, tracker, recent timestamps | polls, three rules | polls overlap; time is read before an await and used after it |
| Metric alerts (`alerts/alerter_service.ts`) | firing state and cooldown of each rule | `evaluateOnce` | overlapping evaluations |
| AI diagnosis (`ai/`) | calls in flight, a cache | `diagnose` | single flight against a timeout |
| CPU profiling (`profiling/`) | arms, a slot, an inspector session | `arm`, `begin`, `end`, the flame graph | a slot and a session to be given back once |
| Client errors (`client_errors/`) | one bucket per address | `handle` | the cap of the table of buckets |
| Live stream (`stream/`) | subscribers, heartbeats | subscribe, publish, close | a connection closed during the gate |
| Aggregation (`metrics/`, `query/`, `ai_metrics/`) | series of agent metrics; nothing of a summary is kept between two calls | windows, percentiles, traces, waterfalls, N+1, spend | several reads of a store that moves, boundaries |
| Dashboard API, sessions (`ui/`) | a signed cookie in the browser | routes that read the store; replay, diagnose, retry, enqueue, arm | expiry, renewal, keys, pages over a moving store |
| MCP server (`mcp/`) | none | JSON-RPC messages, tools by configuration | what is offered against what is done |
| Dashboard UI (`src/packages/ui/`) | a cache of answers, a live tail | the table of entries | rows of one page under the number of another |
| Providers (`src/packages/core/providers/`) | handles of what they started | `boot`, `shutdown` | their order |

How they meet: watchers and the request middleware call `record` on the outermost
decorator; the decorators call the configured store; the pruner calls `prune` of the same
store; the exception poller, the metric alerts, the dashboard and the MCP server call its
reads; the guard, the operator and every entry point share `runtime.paused`; two sets of
watchers and third parties share the host's logger, emitter, redis client and default slots;
the pods share tables and files and nothing else.

What makes each correct, in one line: the tiered store never loses an entry before its retention
ends and always deletes it in the end; a read finds what is there although it moves meanwhile; a
`record` call learns the fate of its row as far as the database told it; the marker never speaks
for a table that is not there; no exception is skipped that a poll could still list, and none is
paged twice within a cooldown; nothing leaves the process unmasked; no failed write goes
unreported; capture resumes when the load is gone; what was taken from the host is given back; an
answer made of several reads is about one moment; nobody sees data without a session, and a
success is answered only when the thing was done. Section 4 gives them as formulas. The hazards
behind them are listed, with their lines, in `PROJECT.json`.

## 2. Modules

| Module | Models | Extends |
|---|---|---|
| `RetentionLog` | what a store promises about retention: the abstract specification | |
| `TieredStore` | `prune()` and the writes of `storage.tiered()`, any number of pods, one await per step | |
| `TieredReads` | `get` and the first page of `list` against those cycles | `TieredStore` |
| `ColdFiles` | the files of the cold tier: both engines, both locations, the local cache | |
| `LucidStore` | the SQL store's writes, drain, prune, clear and initialisation | |
| `LucidSchema` | how several processes of several releases create the table | |
| `SqlReads` | pages, traces, buckets, families and the paged count of tags | |
| `SqlStore` | the three together | `LucidStore`, `LucidSchema`, `SqlReads` |
| `ExceptionAlerts` | poller, alerter and tracker on one JavaScript thread | |
| `Recording` | one process from boot to shutdown: gates, decorators, guard, folded failures | |
| `Diagnosis`, `Pruner`, `Profiling`, `MetricAlerts`, `LiveStream`, `ClientErrors` | one background service each | |
| `HostServices` | those six and `ColdFiles` | all seven |
| `MemoryStore` | the ring, its index and its reads | |
| `Metrics` | series, percentiles, traces, screens, waterfall, repeated queries | `MemoryStore` |
| `MetricsReads` | the pulse, the page of traces and the family labels, turn by turn | `Metrics` |
| `AgentMetrics` | series of agent metrics, the exporter, the AI screen | |
| `FlameGraph` | the aggregation of a CPU profile | |
| `Redaction` | the bounded walk that masks | |
| `Analytics` | the store with its summaries, agents, profiles, redaction | the four above |
| `Access` | hook, guards, session cookie | |
| `DashboardApi` | every route: gate, handler up to each await, answer | `Access` |
| `McpServer` | protocol, tools, answers | `DashboardApi` |
| `EntriesTable` | the table on the screen: query cache, pages, filter, live tail | `DashboardApi` |
| `Console` | the dashboard as a whole, the walk through pages | `McpServer`, `EntriesTable` |
| `Taps` | wrappers, tees, listeners and slots of two sets of watchers beside a third party | |
| `Channels` | the diagnostics watcher, announcements and claims | |
| `Entries` | builders, sampling, the mapping to OpenTelemetry | |
| `RequestEntries` | the entry of a request | |
| `Contributions` | extensions and queue adapters | |
| `Recorders` | those five | all five |
| `SequenceLemmas` | lemmas about the sequence operators, about largest and smallest elements and ranks | |
| `TieredStoreProofs`, `SqlStoreProofs`, `ExceptionAlertsProofs`, `HostServicesProofs`, `ConsoleProofs`, `RecordersProofs`, `AnalyticsProofs` | the theorems | their modules and `SequenceLemmas`; the first one is about `TieredReads`, `RecordersProofs` also about `Recording`, the last about `MetricsReads` and `AgentMetrics` |
| `MCLucidStore`, `MCReaders` | definitions for TLC (inputs, symmetry); `MCReaders` has `Console` and `Analytics` side by side; the other runs use the module itself | `SqlStore`; `Console`, `Analytics` |

Conventions. A definition whose comment starts with "Mutant:" is no part of a
specification: it is a plausible bug in the definition that follows, kept to show that a
property would notice it. Model values stand for entries, pods, files, families. A
`VARIABLE` commented "history" is not in the code; it remembers what a property is about.

Composition. Components that share state are one specification: the pods of `TieredStore`, its
readers (`TieredReads`), the guard and the entry points (`Recording`), the store under the turns
of a pulse (`MetricsReads`), the session under the routes (`Console`), two sets of watchers on one
host (`Taps`). Components that share a process and no state are put side by side: `SqlStore`
(`part`), `HostServices` (`busy`), `Analytics` and `Recorders` (`subject`) and `Console` (`visit`)
choose at the start what a behaviour exercises, and leave the rest as it began; `MCReaders`
(`part`) does so with the last two, so that one run has both. Interleaving them would multiply the
states and could not violate anything a behaviour of one of them does not.

### TieredStore
`now` is `Date.now()` of every pod (pods' clocks agree). `pending` is the write buffer of a
pod, a row enters the table at `Insert`, at most `MaxLag` ticks after `createdAt` was
stamped. `hot` is the table, `rows[f]` the content of an object (none: it does not exist).
The locals of a running `prune()` are variables of the pod: `pc`, `started` (its `now`),
`top`, `buffer`, `written` (`moveToCold`), `listing`, `batch`, `unread`, `merged`
(`expire`, `compact`). One action is what runs between two awaits: `ListFullPage`,
`ListEdge`, `ListLastPage`, `WriteFile`, `Flushed`, `UndoMove`, `HotPrune`, `ExpireList`,
`DeleteFile`, `Deleted`, `CompactList`, `CompactPick`, `CompactRead`, `CompactWrite`,
`CompactDone`. `MoveFails` may come at any await of a move and goes to the undo, whose own
failure is swallowed as in the code; `HotPruneFails` and `MaintenanceFails` end the cycle;
`Crash` forgets the locals and the buffer of a pod at any point. What an entry contains,
the Parquet encoding and partitions other than by hour are abstracted away, and the engine
is hyparquet, for which a file that vanished reads as empty. `clear()` and `count()` are not
modelled.

### TieredReads
One read per pod. `GetHot`/`ListHot` ask the hot store, `Listing` takes the cached listing or
lists, `Peek` orders the candidate files by their newest `createdAt`, `ReadFile` reads them one by
one until the page is settled, `Finish` merges. `Refresh` is the code's `forget()`: a pod's own
writes and deletes drop its listing. `before` (history) is what was visible when the read began.
The listing's two seconds are nondeterminism: a cached listing may be reused or not at any time.
`ColdFails` is `coldRead()`: a listing, a footer or a file that cannot be read ends the cold part
of the read, and what the hot store gave is the answer (`degraded`), for a lookup nothing.

### ColdFiles
The same tier from below: `stored` is what the location holds, `lru` and `disk` the local
copies of remote files with the map that knows them, `work` what the reader and the compaction
are doing. Each awaits what the code awaits: a stat, a fetch to a temporary name, the rename,
the statement, the stats of its retry, the copy, the deletes in batches, any of which may
fail; a restart keeps the files and forgets the map. A temporary name shared by two tasks makes
the second rename fail and so its read; temporary files of a process that died stay.

### LucidStore, LucidSchema, SqlReads, SqlStore
`call[e]` is the fate of one `record()`: waiting for the initialisation, queued, dropped, written,
failed, or lost with the process. `drain` follows the drain's awaits (`TakeBatch`, `InsertBatch`,
then `InsertOne` row by row when the batch failed, `DrainEnds`, `DrainAgain`). A database that
commits and loses its answer is in the model (`unsure`), for a batch and for a row of its own.
`Flushed`/`DeleteAll` are the two halves of `clear()`, the four `Prune...` actions the queries of
`prune()`, and `InitBegins`, `InitDone`, `InitFails` the shared initialisation with its retry. A
batch is bounded in rows, not in bytes.

`LucidSchema` has `objects` (the table and its indexes), `marker` and one `boot` record per
process, each of a release with its own list of objects. A statement is check and act in two
steps, so that another process commits between them; a lost race is tried again `Attempts`
times. A process may trust the migration instead, and the migration may be rolled back.
`SqlReads` has `shelf`, the ids of the rows in the table, and the statements as operators over
it; only the count of tags takes several pages, its `scan`, while rows come and go.

### ExceptionAlerts
`poll[k]` is a poll in progress. The code runs on one thread, so `thread` holds the poll that is
between two awaits and no other poll steps then; a poll that awaits a channel gives the thread
away. `Record` stamps an exception and `Store` makes it visible to lists, at once or later and in
any order, as a buffered SQL store and other processes do; `passed` (history) has those that came
too late for the mark, or for a list under way, and those a list cut off. `since` is the
watermark, `recent`, `seen` and `fired` the alerter's memory. `ListKind` reads one kind of entry,
`NewException`, `EveryException` and `ExceptionRate` are the rules.

### Recording
An event enters at one of five entry points, each with its own gates:
`RequestArrives`/`RequestAnswered` (the middleware reads the gate when the request arrives and
writes to the store it found then), `SafeRecord`, `Diagnostic`, `RecordException`, `ClientError`.
`Take` is the chain of decorators on the way in (sampled away or handed to the store), `Leave` the
chain on the way out: exporter and live stream see what comes back, the placeholder of an entry
sampled away included. The store answers or rejects later (`StoreAnswers`, `StoreRejects`), after
any pause, resume or shutdown. `Publish`, `Armed`, `Closing`, `Reset` cut `boot()` and
`shutdown()` at their awaits. `Hold` and `Release` are `setTelescopePaused()`, which looks at
nothing and may come at any time, also before `boot()` and after the runtime was reset. The
guard's histogram is reduced to the worst load since its reset (`peak`): the 99th percentile is
the load now or that. `folded` is the map of failure keys with `suppressed`; a key is the watcher
that reports, one message each.

### The background services
- `Diagnosis`: callers of `diagnose(family)`; `inFlight` and `cache` are the maps of the code, a
  task carries the name of the caller that began it. `TimesOut` settles the task of a call that
  stays open, whose late answer then writes the cache and nothing else.
- `Pruner`: a cycle takes as long as the store likes; `inFlightCycle` is what `pruneNow()` joins.
  It is one `TelescopePruner`; two of them do not know of each other (section 3).
- `Profiling`: one request from the middleware's selection to the record of its profile; the
  failures of `Session.post` come at every step. `shouldProfile()` and `begin()` draw a random
  number each, so the effective rate is the square of `sampleRate`; the model has both draws. A
  capture whose session connected and failed to start ends without disconnecting it (`failed`).
- `MetricAlerts`: an evaluation walks the rules, awaiting the store for each and the channels for
  each page; a measurement is any value.
- `LiveStream`: `late` remembers connections that were closed when their handler came back from
  the guard: such a one leaves its subscriber and heartbeat, and `StreamsAreCleaned` says that
  only such a one does.
- `ClientErrors`: tokens in parts of a minute, so that the linear refill is exact.

### What the dashboard computes
`MemoryStore` has `slots`, `head` and `byId` as the code has them; `Metrics` are operators over a
list of entries, written once as the code computes them, and compared in the properties with
another definition (a sum, an order, the innermost enclosing span, the other detector).
`MetricsReads` computes a pulse, whose slow routes pass `slowRouteMs`; the cards of outgoing calls
and of jobs are the same operator over other types. `reader` is one read with its local results,
while the host records, prunes and clears between its turns. `AgentMetrics` reads usage events
into `series` under a cap, into the exporter, and computes the AI screen with its probe for the
limit. `FlameGraph` folds the samples of a profile of which every tree of four nodes is tried.
`Redaction` walks one content, a tree that exceeds each bound in turn, with its budget of nodes.
`prune` with `keepLast` keeps the newest of the doomed rows only, a page of traces cut by the scan
cap or by entries that vanish answers that there is no more, and the histogram's estimate is below
the exact percentile past its last boundary (10 s): the properties say so in their premises.

### The dashboard
`Access` decides: the `authorize` hook and its defaults, the guards of JSON routes and of pages,
and the cookie, a record of the key that signed it and its two times. `req` in `DashboardApi` is
one request with its locals up to each await; `rows`, the clock and the deployment move meanwhile.
Reads fail (`StoreFails`, a 500), a queue adapter works, throws having done nothing, or throws
having done it (`ActsOnQueue`). `sanitizeReturnTo()` is the three checks it makes: a leading
slash, no second one, no scheme. `McpServer` is one message likewise. `EntriesTable` is the
section, the query cache (`QueryKey` with what was asked for), the answers in flight and the tail
with its wire, its buffer and its timer. `Console` adds the browser that signs in and out and the
reader who walks the pages.

### Watchers and entries
A wrapped method in `Taps` is the sequence of its wrappers, innermost first, with the third
party's among them; `boot` and shutdown of each set are steps. A tee that stops takes off what is
on top (`logs_watcher.ts:200-204`), redis puts back the original it saved over whatever was put on
later, so `NothingIsLeft` and `TakesOnlyItsOwn` speak of methods a third party did not wrap over
the tap (`meddled`). Boot and shutdown of one set do not interleave. `Channels` is the registry of
announced channels, one subscription each and the claims. `Entries` takes one operation of any
kind, a served request and a thrown error among them, through builder, sampling and export, and
`Unmarked` names the kinds whose entries `isErrorEntry()` cannot tell failed; `RequestEntries` has
what is captured of a request. `Contributions` registers extensions and asks the queue adapter.

## 3. Runs, bounds and what they show

| Run | Verdict | What it shows |
|---|---|---|
| `tiered_two_pods` | holds | `NoLoss`, `CopiesAreSafe` and the refinement of `RetentionLog`, two pods failing and crashing anywhere |
| `tiered_paging` | holds | pages smaller than a move neither drop nor repeat, `keepLast` is honoured (`CountsHold`), and both liveness properties |
| `reads_one_pod` | holds | `LookupFindsLive` and `PageIsNewest` against moves, undos, expiry and crashes of the pod that serves the read, and a cold tier that fails |
| `lucid_one_pod` | holds | writes, drain, prune, clear, initialisation, restarts; two releases that create the table; the reads |
| `exception_alerts` | holds | nothing skipped that could still be listed, spaced pages, no missed breach; two overlapping polls, two kinds, rows stored late, lists that fail or are cut |
| `recording_host` | holds | four properties of the process from boot to shutdown |
| `host_services` | holds | the six background services and the files of the cold tier |
| `readers` | holds | sessions, routes, MCP, pages and the table on the screen, for four configurations; the memory store, its summaries, the reads of several turns, agents, profiles, redaction |
| `recorders` | holds | taps, channels, entries, requests, contributions |
| `table_pages` | violated | `PageShowsItsRows`: the key of the cached page leaves the page out |
| `duckdb_compaction` | violated | `CompactionKeepsRows`: a local copy evicted before the statement is taken for a deleted file |
| `operator_hold` | violated | `HoldLasts`: the guard ends the pause of the operator |

A violated run states what a comment or a document of the repository says; the finding in
`PROJECT.json` quotes it beside the code. With the page in the key, as `useTracesPage()` has it,
`PageShowsItsRows` holds in the same instance. `CompactionKeepsRows` fails with a budget the
files do not fit in; also with a larger one, because two fetches of one file count its bytes
twice. A wide read under the same conditions omits files without a word.

Other differences between the code and what is said of it, which the models contain as the code
has them, each visible in the lines:
- A row that waits in a write buffer longer than `hotFor` is deleted by the hot prune without
  having been moved (`stores/tiered.ts:197` against `stores/tiered.ts:234-235`; `lucid.ts:397`
  stamps, a later drain inserts). Section 5's assumption `MaxLag <= HotFor` excludes it.
- With hyparquet a reader that lists before a compaction and reads after it finds neither the
  inputs nor the merged file (`stores/parquet.ts:384`, `stores/parquet_hyparquet.ts:143-145`
  against `stores/parquet.ts:337-339`); `reads_one_pod` runs without compaction.
- A page is cut before the duplicates of a failed undo are dropped, so it can be shorter than its
  size (`stores/parquet_hyparquet.ts:43` against `stores/tiered.ts:59-61`).
- When the cold tier cannot be listed or read, `get()` answers null for an entry that is there and
  `list()` with the hot rows alone (`stores/tiered.ts:298-312`, disclosed at `:59-62` for `list()`).
- An INSERT that committed and whose answer was lost is told as a failure, the retry of a single row
  included (`stores/lucid.ts:811-817`), so a caller may be told that a row failed that is there.
- Both kinds of exception share one watermark, and what becomes visible at or below it is not listed
  again: a row of the same millisecond, of a write buffer or of another process; nor is what the cap
  of 1000 cut off (`alerts/exception_source.ts:83` against `:76-77`). The properties name these, and
  they alone are passed over.
- The guard resumes what the operator paused (`overload_guard.ts:142` against
  `src/docs/concepts/protection.mdx:143-144`): `operator_hold`. A pause set after the runtime was
  reset stays, since `setTelescopePaused()` looks at nothing (`registry.ts:211-213`).
- `keepErrors` sees neither a failed request, whose entry has `status` and not `statusCode`, nor an
  exception (`sampling/sampling.ts:48-60` against `src/docs/packages/advanced.mdx:118`).
- A cache event is recorded twice by a set of watchers, once as `cache` and once as `event`
  (`watchers/events_watcher.ts:94-99` leaves cache events off the list it gives that reason for).
- A profiler session whose start failed after it was connected is not disconnected
  (`profiling/cpu-profiler.ts:84` against `:83`); the slot of the capture is given back.
- A stream connection that closes while its handler awaits the guard leaves its subscriber and its
  heartbeat (`stream/stream_handler.ts:36-38`).
- `retry()` and `enqueue()` of a queue adapter that throws after having acted are answered with 400
  (`queue_manager/queue_manager_api.ts:85-89`, `:108-117`).
- The target after a sign-in is checked for a leading slash, a second slash and `://`; a path whose
  first slash is followed by a backslash passes (`ui/auth.ts:106-112` against `:101-105`). The
  property claims the two targets the comment names, and no more.
- `inFlight` belongs to one `TelescopePruner`, and a host is shown how to build its own
  (`src/docs/concepts/protection.mdx:58-75`): the cycles of two overlap, which is the case of two
  pods in `TieredStore`. `WorkIsShared` speaks of one pruner.
- Taps stop in any order, but once a third party wrapped over one, a `stop()` may restore what lay
  below both, or leave a tee that is no longer on top. The properties of the taps that speak of
  methods hold while nobody did (`meddled`).
- `expire()` keeps the *files* that hold the newest rows, so `keepLast` retains enough rows but
  not always the newest ones as `store.ts:147-148` has it.
- Diagnostics and `recordException` record while capture is paused although
  `src/docs/concepts/protection.mdx:107-108` says every entry point honours the flag.
- An entry dropped by a full write buffer is answered like a stored one and so published, against
  the comment of `StreamingTelescopeStore`.
- The schema marker is compared and the table never looked at: after the migration's `down()` the
  store does not create it again, and `CREATE TABLE IF NOT EXISTS` changes no column although the
  comment at `stores/lucid.ts:212-218` says a column change re-heals.

Bounds, and why they are enough:
- Tiered store: two entries and two pods are what a race between cycles needs (one entry to
  lose, one to share a file or a page with); three files allow a move's file, another pod's
  and a merged one, with names reused once nobody holds them; pages and flushes of one row
  make every page boundary happen, and `tiered_paging` repeats it with three entries and
  pages of two so that a full page can end inside a millisecond. `HotFor`, `Retention` and
  `MaxTime` put hour ends, the cutoff and expiry all within the clock. Entries, pods and
  files are symmetric; no property with liveness is checked under symmetry.
- Reads: two entries, a page of one and files of up to two rows: a page is less than a file, or a
  file of its own. Hours of two ticks, `Retention = 3` and a clock up to 5: an hour is over and past
  retention, so that an expiry deletes its file, while a reader has it listed. Entries and files are
  symmetric.
- Lucid: three calls against a buffer and batches of two, so that the buffer fills, a batch
  is full, and one write arrives late; deletes of one row; one retry delay. Two processes of two
  releases that differ in one index, four attempts; five rows, two of one millisecond and one of a
  process whose sequence is behind, pages of two.
- Alerts: two polls, both kinds, two exceptions of any stamps, stored in any order; a list of one
  row, so that the cap cuts; a threshold of two, windows and cooldown inside the clock. The rules
  treat families alike, and one is enough for pages to be too many; that the tracker forgets a
  family is left to the proof, which is for any number.
- Recording: two events, so that one can be in flight while another is refused, and so that
  failures meet an open window; one tracked key of four, so that the table is full; one
  grace window. `operator_hold` has one event and one entry point.
- Services: three callers and two families against a cache of one; four cycles for two manual
  callers; two requests at a cap of one; two rules under two evaluations with the flap cooldown
  inside the clock; two connections; three addresses of which two are tracked; three input files,
  local copies of one or four of them, one restart.
- Readers: a ring of three for four entries of three kinds, so that it wraps and has holes; a
  clock of two with a window of two; pages of one trace; two series for three pairs of feature and
  source; profiles of four nodes and two samples; trees one past each bound of the redaction
  (cycles of objects are not among them). Four configurations from everything open to everything
  guarded; a session of two ticks with one of grace within four; two signing keys; pages of two
  rows, four pages.
- Recorders: two sets of watchers and at most three layers on a method; three channels, one
  excluded; durations around both thresholds; bodies and tags one past each bound.

The clock stops at `MaxTime`, other counters at their `Max...`. In the tiered store, its reads and
the alerts something can always step, and deadlock is checked; in the other runs the calls, the
requests or the visits run out, or the process ends.

Fairness. `SmoothSpec` (TieredStore): the clock runs, the pruner's interval keeps firing,
every await settles, nothing fails; that is what "in the end" means for retention, since a
store that always fails never moves anything. `ExceptionAlerts`: the interval fires (weak),
every await of a poll settles and the list does not fail for ever (strong, because a failing
list takes the poll back). `Recording`: the guard's interval, the windows' timers and the
remaining steps of `boot()` and `shutdown()` once begun; nothing is assumed of the operator,
the load, the store or the events. `DiagFairness`: the timer of a diagnosis fires (`TimesOut`);
nothing is assumed of the model. The safety runs assume nothing.

## 4. Properties

- Tiered store: `NoLoss`, `CopiesAreSafe` (why `NoLoss` holds: whatever a cycle may still delete
  has a copy no other cycle may delete), `CountsHold`; liveness `AgedLeavesHot`,
  `SurplusIsDeleted`; reads `LookupFindsLive`, `PageIsNewest`; files `ColdFilesAreWhole`, which
  says of compactions what holds as long as no local copy was evicted before its statement;
  `duckdb_compaction` shows the rest.
- SQL store: `AnswersAreTrue` (each call learns the fate of its row, but for answers the database
  lost, and no row is stranded in the buffer), `ClearedStaysGone`, `SqlReadsHold`, and the step
  properties `RowsKeepOrder`, `KeepsNewest`, `InitIsSound` (a failed initialisation is retried,
  and the marker never speaks for what is not there).
- Alerts: `NothingSkipped`, `PagesAreDue` (neither too many nor too few), liveness
  `ReachesAlerter`; metric alerts `RulePagesAreSound`, of what is sent and in which order:
  channels of different speed may deliver the pages of two evaluations in another.
- Host: `OnlyScrubbedLeaves`, `FailuresAccounted`, liveness `RepeatsArePrinted` and
  `CaptureResumes`; services `WorkIsShared`, `TakenIsReturned`, liveness `CallersAreAnswered`.
- Watchers: `TapsAreUndone`, `RecordedOnce`, `StopsOnlyItself`, `EntriesAreTrue`,
  `ContributionsHold`.
- Computed: `RingIsSound` (the ring and its index agree), `UsageIsAccounted` (what agents spent is
  counted once), `DerivedIsExact` (summaries, answers of several turns, profiles, redaction).
- Dashboard: `OnlySignedInSee`, `ChangesAreAnswered`, `PagesMissNothing`, `TableIsSound`.

A property named above may be a conjunction, one part per component, each stated with its comment
in the module it is about. `HoldLasts`, `PageShowsItsRows` and `CompactionKeepsRows` are what the
repository says and the violated runs refute. Modules under a proof have a type invariant the
proof needs; the others state types where a range matters. Every property of a run that holds is
broken by the mutant `PROJECT.json` names for it.

## 5. Proofs

Every theorem is about the specification a run checks, for any sets and numbers its constants
may stand for. What is assumed beyond the `ASSUME` of the modules is in the statement.

### Tiered store (`TieredStoreProofs`)
- `TypeCorrect`: `Spec => []TypeOK`.
- `CopiesStaySafe`, `NothingLost`: `[]CopiesAreSafe` and `[]NoLoss`, assuming
  `MaxLag <= HotFor`. The assumption is needed: without it an insert that lags behind the cutoff
  is deleted before a move saw it.
- `TieredImplementsLog`: the tiered store implements `RetentionLog` under the same
  assumption; `Tick`, `Record` and `Insert` are its steps, every await of a cycle a stutter.
- `LookupsFindLive`, `PagesAreNewest`: `[]LookupFindsLive` and `[]PageIsNewest` of `ReadSpec`, for
  one pod that does not compact, under the same assumption. Both conditions are needed: another
  pod's move leaves this pod's cached listing as it is until it is too old, and a compaction
  deletes files a reader has listed (section 3). The cold tier may fail at every await of a read:
  what is then missed had left the hot store.
- `CountsStayRight`: `[]CountsHold` of `SmoothSpec`, for one pod, finitely many entries and files,
  rows that move (`HotFor < Retention`) and `MaxLag <= HotFor`. Two pods may hold a row twice, and
  so may a failed undo. A hot store as deep as the retention is pruned by the entry, the count
  speaks of whole hours: with hours longer than a tick `keepLast` entries may then all be of an
  hour that is not over, and TLC finds that `KeepsLastCount` does not hold.

`NoLoss` is not inductive, because it does not say that the copy that makes an entry
visible will stay. The invariant is `Inv == TypeOK /\ Bookkeeping /\ CopiesAreSafe`:
`Bookkeeping` ties the locals of the cycles to the phase they are in (no two moves share a
file they wrote, the buffer is empty outside a move, what an expiry is about to delete is
expired, an entry waits at most `MaxLag`), `CopiesAreSafe` says that every live entry has a
copy outside what the cycles may delete and that each move and each compaction still
carries what it has passed. The steps are proved one action at a time; `SecureGrows`,
`StillSecured` and `OthersCovered` are the arguments they share, and `HourEndAfter` (an
instant precedes the end of its hour) is what makes the expiry of closed hours safe.

For readers `ReadInv` adds: what a move holds and has written is still in the hot store
(`MoveIsInHot`); a cached listing lacks no file but those the flush under way is writing
(`CacheKnows`); the maximum in a footer bounds the rows (`PlanIsTrue`); and `ReadsKnow`, the
argument itself: at every await, each entry the read must answer has been found, is ahead of it, or
is beaten by a full page of newer ones. The store enters this proof only through `StoreStays` and
`FilesStay` (`StoreMoves`): an entry that left the hot store does not come back, and a file
disappears only with rows that are in the hot store or expired. `TopBeats` says of the newest n of a
set what both cuts, that of each tier and that of the merge, are used for.

For the counts, `OneCopy` says where one pod without failures holds a row twice: in a file a move
wrote and the hot store, all below the cutoff the hot prune will delete up to, and in a merged
file and the inputs not yet deleted; what is buffered is in no file because `top` only falls.
`ApartCount` (files that share no entry have as many rows as entries) turns that into the sum.
`CountIsSpared` carries `keepLast`: everything gone was past retention, and while an expiry deletes,
the files it spares hold the count, which only time and new rows can change, upwards (`CountGrows`).

### SQL store (`SqlStoreProofs`)
- For any number of pods: `TypeCorrect`; `AnswersStayTrue` (`[]AnswersAreTrue`);
  `ClearedReturnOnlyUnsure`, what is left of `ClearedStaysGone` with several pods;
  `InsertsKeepOrder`, what is left of `RowsKeepOrder`.
- For one pod (`SinglePod`): `ClearedStays` (`[]ClearedStaysGone`), `OrderIsKept`
  (`RowsKeepOrder`), `NewestAreKept` (`KeepsNewest`). Two pods hand out equal positions, and an
  INSERT that committed but was answered with an error is repeated after another pod's clear: the
  three are false of more than one.
- `SchemaStaysInPlace` and `InitStaysSound` (`InitIsSound`) for any processes and releases, with
  `Attempts >= 3` (`DDL_RACE_ATTEMPTS` is 4, `lucid.ts:139`): a statement loses a race once, and
  once more when the table was dropped between.

- `ReadsTellTheTable` (`[]SqlReadsHold`, of `StoreSpec`) for any finite set of rows whose columns
  have their types, any page size, limit and bucket.

`LucidInv` has four parts. `Shape` has the types, the caps and that nothing waits without a drain;
`InOrder`, that the batch and then the buffer of a pod are its waiting rows in the order of their
sequences, which its counter is past; `Answered`, that a call waits exactly while its row is
buffered and was told the truth; `Covered`, what a clear under way and one that returned still
leave possible. `OnePodInv` adds that the counter is past the table and no two rows share a sequence
(`Seeded`), and that the position a prune with `keepLast` counts from has that many newer rows
(`Kept`). `SchemaInv` follows each process through its statements: what it has passed is there while
nobody drops the table, and what it would lose the next race to is there and will be found.

`ReadsInv` says of a count of tags, which reads one page a statement while others insert and delete,
which rows it has counted: all that stayed and have come up to its cursor, none it never met, and
none twice, because the cursor only moves forward (`PageCounted`, `TurnKeeps`). The other reads are
one statement each and are about its table alone. `InOrder` is a sequence of a set in which ranks
rise, so a page of it is the rows of a range of ranks (section "What an ORDER BY answers"), pages
share no row, and each group of a `GROUP BY` answers for exactly one bucket, family or trace ("One
statement").

### Exception alerts (`ExceptionAlertsProofs`)
- `PagesStayDue` (`PagesAreDue`), without further assumptions: `AlertsInv` ties the timestamps the
  rules keep to the exceptions handed over, by an injection, so that a count over the window is one
  over the timestamps, and says that the pages of a rule and family are spaced.
- `NothingStaysSkipped` (`[]NothingSkipped`), without further assumptions: any kinds, any number
  in a millisecond, any delay between stamp and storage, any cap. `SkipInv` says of each
  overlapping poll what it cannot have missed: what is stored is handed over, above the mark and
  so still to be listed, in the hands of the poll, or in `passed`.

### Services (`HostServicesProofs`)
`RulePagesStaySound`, `WorkStaysShared`, `TakenStaysReturned` and `FilesStayWhole` prove the four
invariants of `HostSpec`, without further assumptions, for any numbers of callers, families, cycles,
captures, connections, addresses, rules and files. `TakenIsReturned` names the two things that do
stay: the session of a start that failed, and a connection that closed before its handler went on;
`WorkIsShared` is about one pruner. Each service has an invariant of its own
(`AlertInv`, `DiagInv`, `PrunerInv`, `StreamInv`, `LimitInv`, `ProfInv`, `ColdInv`), kept by its own
steps and by those of the others, which do not touch its variables.

### Recording (`RecordersProofs`, last section)
`TypeCorrect`, `Scrubbed` (`[]OnlyScrubbedLeaves`) and `Accounted` (`[]FailuresAccounted`),
without further assumptions, for any events, entry points, exported types, grace and cap. The
invariant `IInv` adds two parts to the properties: `Untouched` (what was not seen has left no
entry, and a request in progress has thrown nothing yet), without which an entry could be taken
twice and leave the stage it was answered in, and `ReportsOK` (the folded counts are a function on
at most `MaxTracked` of finitely many keys). `TakeKeeps`, `PlaceholderStays` and `WrittenLeaves`
say what the decorators do, `ReportKeeps` and `CloseKeeps` what the two operations on the map do.

### Dashboard (`ConsoleProofs`)
Without further assumptions, for any configurations, lifetimes, keys, rows, tools and page size:
- `OnlySignedInAlwaysSee` (`[]OnlySignedInSee`). The property speaks of a request that is done; the
  invariant `GateInv` says what is known of it before: a cookie that was minted here was minted by a
  sign-in the hook accepted and outlives it by `Ttl` (`Minted`), also when it is in the jar, or in
  the hands of a request still at the gate; past the gate `LetIn` holds, which nothing later can
  undo, because the request keeps the clock and the key it was judged with while time and
  deployments move on.
- `ChangesStayAnswered` (`[]ChangesAreAnswered`). `ActInv` says of a request at each await whether
  it has done its work yet and was allowed to; a success is answered only for what was done, and
  an error for something done only by a diagnosis or an adapter that failed afterwards;
  `NotRefused` derives the permission from the table of refusals a handler goes through. `CallInv`
  is the same for the steps of an MCP message.
- `PagesNeverMiss` (`[]PagesMissNothing`). `WalkInv` counts positions: the rows seen, with those
  of the page whose probe is awaited, reach to the end of that page, so that each entry of the
  start at a position before it was seen (`Reached`). Rows come in front and go behind, so an
  entry only moves to later positions (`StoreMovesParts`), and rows are numbered by age, so one
  that comes was not there at the start (`RowsBelow`). A page that is not full, or whose probe
  finds nothing, ends the store (`WalkEnds`).
- `TableStaysSound` (`[]TableIsSound`), for any filters and cap of the tail. The property speaks of
  what is shown; `ScreenInv` says that every answer in the cache fits the filter of its own key
  (`AnswersInv`), so that whichever key the section turns to shows no row of another, and that the
  rows collected and committed are, up to the cap, what arrived (`Kept`), while nothing is under way
  at a source nobody asks for (`Quiet`). `FirstBefore` and `FirstBehind`, cutting a part and then
  the whole is cutting the whole, are why a timer, a toggle or a frame between loses nothing; a
  row comes once in an answer because rows differ in the store (`RowsDiffer`).

### Watchers (`RecordersProofs`)
`TapsStayUndone`, `OperationsAreRecordedOnce`, `EntriesStayTrue` and `ContributionsStayOwned` prove
the four invariants of `RecordersSpec`, `StoppingTakesItsOwn` its step property `StopsOnlyItself`,
without further assumptions, for any finite number of sets of watchers, any channels, thresholds,
bounds and ids.
- Taps. The properties speak of the host when nobody runs, or of one shutdown. `HeldByRunning` says
  what holds in between: whatever a set holds of the host, it is at a stage of its boot where it has
  asked for it. `TapsNest` gives the shape of a wrapped method: as long as nobody meddled it is the
  plain one, or that with the one tap of the one set that holds it on top (`Tapped`), and what the
  patch saved is the plain method; without it `stop()` could put back a method with another's tap in
  it. The plain method is not constant, because the third party may come and go below (`Plain`);
  `OthersKeep` is the argument that it can do so only while there is no tap, or else has meddled.
  A command that is pending carries the wrappers it passed, so `TapsNest` also bounds those.
- Channels. `ChannelsInv` ties listening to having found the registry at the start.
- Entries and requests. `FailuresAlwaysPass`, `UnmarkedPassesUnseen`, `CallErrors` and
  `MappingAgrees` are about the builders and the rules alone; the invariant says that what is
  stored is the entry of the operation. `TagsAreBounded` rests on `RanksAreTaken`: every rank up
  to the number of kept tags is that of one of them.
- Contributions. `IdsAreCounted`: the ids are as many as the contributions exactly when none is
  shared; `OwnerIsFirst`: the least of the extensions that could give a schedule is its owner.

### Data kept in memory (`AnalyticsProofs`)
`Analytics` puts components without shared state side by side, so each theorem is about the
specification of one of them.
- `RingStaysSound` (`[]RingIsSound`, of `ReadsSpec`), for any inputs and `maxEntries`. `RingInv`
  speaks of positions: from the head on sequences rise and stay below the next, before it are
  holes, fewer than entries. Rising sequences are why an eviction or a prune takes from the index
  what it takes from the ring and nothing else (`EvictionKeeps`, `PruneKeeps`), and why what a
  prune keeps stays in order. The reads of several turns leave the store alone
  (`ReadsLeaveTheStore`).
- `UsageStaysAccounted` (`[]UsageIsAccounted`, of `AgentSpec`), for any payloads, cap of series and
  number of events. `ScreenIsOnce` is the inductive part: while lists are awaited, nothing the
  screen brought is of a kind still awaited, so no event comes twice although the lists are of
  different moments; and the probe adds what is new only. The rest is about sums over finite sets,
  which the section "Sums" builds once: there is one function of sums (`SumsExist`,
  `SumsAreUnique`), so that a total does not depend on the order elements are taken in
  (`TotalWithout`), parts add up to the whole (`TotalOfParts`, `TotalOfGroups`), and rows carry the
  totals of their groups (`TotalOfImage`, `RowsAddUp`). `AgentAssumption` says that no call has a
  price below zero; with one, a part could cost more than the whole.

### Only model-checked
- Everything temporal that rests on fairness: `AgedLeavesHot`, `SurplusIsDeleted`,
  `ReachesAlerter`, `CallersAreAnswered`, `RepeatsArePrinted`, `CaptureResumes`.
- What is computed over data by folds, recursive functions or sequences built step by step:
  `DerivedIsExact`, of the summaries, the answers of several turns, the profile and the redaction.
  It needs induction over that data.

## 6. Not modelled, and what comes next

Left out on purpose: `clear()` and `count()` of the tiered store; the SQL and Parquet text and the
filters both engines evaluate; how an alert, a prompt, a login page or a widget is worded; the
defaults and the validation of options, whose outcome is a constant here; the screens other than
the table of entries, which render one answer of the API each; the string work of redaction,
family hashes, cron expressions and stacks; the search in text; an interleaving of `boot()` with
`shutdown()`. They are pure, third-party, or decide nothing another component sees.

