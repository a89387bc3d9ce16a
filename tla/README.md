# A verification development of flx

flx finds, validates and serves public proxies. This directory holds TLA+
modules that model its coordination logic, the TLC configurations that check
them on small instances, and theorems that the TLA+ proof system checks for every
value of the constants. All source paths below are relative to the repository
(`src/rotator/pool.rs` is the rotating pool, and so on).

## 1. The system

Five data flows meet in one process on a tokio runtime:

    providers -> fetcher -> source adapter -> validation run -> consumer
                 (cache)                      (judges, health)   |- find: output writer, quotas
                                                                 |- serve: rotation pool <- endpoint <- clients
    Ctrl+C, SIGUSR1, probe gate, screen ----------------------------^

| Component | State it keeps | Operations | What is hard | What makes it correct |
|---|---|---|---|---|
| Rotation pool (`rotator/pool.rs`) | vector of entries (failures, cooldown), shared counter, behind one mutex | `add`, `pick`, `report_success`, `report_failure`, `ready`, time passing | reports arrive long after the pick, when the entry was evicted, moved or added again | no duplicates, no over-size, evict only what earned it, refuse only if nothing is ready, spread picks |
| Rotating endpoint (`rotator/mod.rs`, `server.rs`) | listener phase, readiness bypass, shutdown watch, one task per connection | bind, wait, accept, head, pick, open, send, relay, report, drain | shutdown races accepts and relays, deadlines on most but not all awaits | the drain cuts nothing off and ends |
| Serve run (`run_serve`) | round, stream, gate, join handles, readiness | feed, pause, resume, refresh, finalize | one `select!` over stream, timer, watch and handle; relays evict behind it, results arrive after the gate closed | bounded overshoot, gate reopens, Ctrl+C ends it, success means drained |
| Validation run (`validator/mod.rs`, `work.rs`) | places of workers, group maps, two bounded channels, counters, PauseGate | pull, gate, probe, record, send, aggregate, drop | lost wake-ups, cyclic waiting, group members in any order, maps that leak | groups all or nothing, everything accounted for, ends |
| Judges and probes (`validator/checker`, `validator/tunnel`) | judges online, their cooldown instants, the rotation; per probe: failed set, round, time spent | preflight, candidates, attempt, delay, give up | one probe's failure cools a judge for all, skip sets, budgets | a sound proxy passes; giving up has a cause; nothing outlives its budget |
| Handshakes and judging (`validator/tunnel`, `checker`) | bytes of one exchange | CONNECT, SOCKS4, SOCKS5, HTTP; verdict, level | partial answers, several readers of one head | readers agree, no level without the token |
| Find run (`run_find`) | pass, quotas' hits, document, recorded candidates, Notify | two passes, filters, quotas, limit, fallback decision, cancel | rows, gate and hits lag one another; two waiters on one Notify | limits and quotas over both passes, everything asked once |
| Types and quotas (`cli/quotas.rs`, `cli/pipeline.rs`) | hits | `should_emit`, `is_satisfied`, `is_protocol_closed`, job lists, `needs_fallback` | overlapping types ("unknown level" matches all) | the gate spares only useless probes |
| Output writer (`cli/output.rs`) | collected rows, buffer, file, document state | begin, row, order, finalize, chain | writes that fail late, two passes into one file, cancellation | one whole document, or its front part |
| Fetcher (`fetcher/`) | tasks, permits, channel, dedup window, stop signal | primary and fallback phase, grace, threshold, retry, parse, drop | counters lag channels; abort does not stop blocking parsers | every row arrives, only whole lists are cached, the stream ends |
| Parse cache (`fetcher/cache.rs`) | files, memo by mtime | load, store by rename | two tasks on one URL, crash before rename | a reader sees a whole list |
| Health store (`health.rs`) | table, append-only log, count | record, load, crash | cut appends, failed handles, crash between two steps | a record that was reported survives |
| Geo databases (`geolookup/`) | database file, revision marker, lock | migrate, download, install, mark | several processes that may die anywhere | the marker never names more than the file holds |
| Providers, parsers, catalogue (`providers/`) | none | pages, rows, selection of sources | malformed rows, limits of the decoder | every source is scheduled, every table read |
| Command line, configuration, wizard (`cli/argument.rs`, `config.rs`, `wizard.rs`) | answers, file, flags | merge, check, ask, write | three sources per option | precedence; what the wizard writes is what was answered |
| Interactive screen (`cli/tui/`) | overlay, run handle, rows, bus, list, filter, order, selection, scroll | keys, arrivals, refresh, pause, cancel, re-run, export | events carry no run; the view is a copy of older rows | frame matches list; no run is left alone; the end reaches the screen |
| Grab run, public API, client, models | none of their own | | | the parts they call |
| Resolver, status line, version check, bench | caches, counters | look up, draw | | see section 7 |

`PROJECT.json` lists the components with their sources and status, and the
hazards of the code at the line where each bites.

### How they interact

* `run_serve` holds the pool and the endpoint's join handle. It adds what the
  validation run delivers; the endpoint's connection tasks report to the same
  pool. Ctrl+C is one `watch` channel read by the feed loop, the endpoint and
  the task that waits for the first ready proxy. The sender is dropped right
  after it has sent `true`, so `changed()` stays ready from then on, and the
  shutdown arm with it.
* `run_find` runs a pass (validation run + `process_result`), decides, and
  may run a second one over the candidates it recorded. The probe gate
  of the validation run reads the hits that `process_result` writes.
* A validation run is a manager task, `for_each_concurrent` with a limit
  inside it (so the workers are polled by one task, and interleave at awaits), an
  aggregator task, a channel to the aggregator and one to the consumer.
* The attempt loops of all probes of a run share the judges and their
  cooldown instants; a judge that failed through one proxy is parked for all.
* A source task sends rows from a blocking parser thread into one bounded
  channel; the consumer counts what it accepted and raises the stop signal, the
  coordinator reads that count to decide about the fallback sources.
* `run_find` hands one output to `process_result` twice; the second pass appends.
* On the interactive screen, runs and exports put events on one bounded bus that
  a single loop reads, together with keys and ticks. An event does not say which
  run it is from.

## 2. The modules

| Module | Models | Built from |
|---|---|---|
| `RotatorPool` | the pool's methods, one action each | - |
| `PoolContract` | what the pool promises to those who borrow from it | - |
| `Rotator` | the endpoint and its connections over the pool | `RotatorPool`, `PoolContract` (refinement) |
| `ServeRun` | `flx serve` | `RotatorPool`; the validation run reduced to what can hold a result, the endpoint to what `run_serve` sees |
| `Validator` | the validation run | - |
| `Probes` | preflight, shared judges, the two attempt loops | - |
| `Quotas` | the pure decisions about types and quotas | - |
| `FindRun` | `flx find` | `Quotas`; the validation run reduced to jobs, workers and a channel |
| `Output` | `process_result` and `close_chained_json`, all formats | - |
| `Fetcher` | the candidate stream | - |
| `ParseCache`, `Health`, `GeoSync` | the three stores on disk | - |
| `Tui` | loop, overlays, runs and exports of the screen | - |
| `Screen` | the list under arriving rows and keys | `Listing`, `Keys` |
| `Listing`, `Keys` | filter, order, columns, highlight; the key map | - |
| `Judging`, `Handshakes` | what an answer means; what a proxy's reply means | - |
| `Catalogue`, `Providers`, `Parsers` | sources and their selection, downloads, row parsers | `Providers` from `Parsers` |
| `Selection` | parsed type lists, row filters, sort orders | - |
| `Config`, `Wizard` | which value each option has; the file the wizard writes | `Wizard` from `Config` |
| `ExchangeChecks`, `ConfigChecks`, `SourceChecks`, `ScreenChecks` | claims about the pure modules over bounded inputs, as assumptions that TLC evaluates | the pure modules |
| `PoolLemmas` | what each method does to the pool's vector | `RotatorPool` |
| `RotatorProofs`, `ServeRunProofs`, `ValidatorProofs`, `FindRunProofs`, `ProbesProofs` | theorems | the module each is named after; the refinement of `PoolContract` is in `RotatorProofs`, the theorems on `Quotas` are in `FindRunProofs` |
| `SourceProofs` | theorems | `Fetcher`, `Health`, `GeoSync`, `ParseCache` |
| `InterfaceProofs` | theorems | `Tui`, `Screen` with `Listing` and `Keys`, `Output` |
| `MCRotator`, `MCServeRun` | instances | their module |
| `MCFindRun` | a behaviour is a find run or the stream of candidates; claims about `Selection` | `FindRun`, `Fetcher`, `Selection`, `SourceChecks` |
| `MCValidator` | a behaviour is a validation or its probes | `Validator`, `Probes`, `ExchangeChecks`, `ConfigChecks` |
| `MCParts` | a behaviour is one of health store, geo databases, parse cache, screen runs, screen list, output | those modules, `ScreenChecks` |

The definitions that stand directly before another one and share its parameters
(`AddWithoutDuplicateTest` before `Add`, ...) are deliberately wrong variants:
each property of a passing run is shown to fail when the variant replaces the
right definition, so no property holds by the mere shape of its model.

### RotatorPool, PoolContract, Rotator

`entries`, `cursor` and `strategy` are the fields of `RotatorPool`; a proxy
stands for its endpoint text, the key of every method. The instant of a cooldown is
reduced to whether it lies in the future, and `CooldownEnds` is the passage of
time, so cooldowns of any length are covered. `Pick` keeps the early return on an
empty pool, the counter that advances even if nothing is ready, and the scan from
the counter or from anywhere.

A connection in `Rotator` is `new -> head -> opening -> sending -> relaying ->
closed`; each step is the code between two awaits of `handle_connection` and
includes the report to the pool that ends it. Bytes, heads, authentication and the
handshake with the upstream are reduced to their outcomes. `wait_for_ready`
ignores the shutdown, for up to 120 s, so neither does the model let it look.
`failRun` and `tally` are history variables that nothing reads.

`PoolContract` knows neither vector, counter nor lock: a proxy has a standing, is
lent while healthy, and giving it back changes the standing of that proxy only.
`ImplementsContract` maps the vector's members to standings and the
connections in a `Lent` phase to holders. It is what a reader may rely on
although an entry may have been evicted, moved by `swap_remove` and
added again between a pick and its report.

### ServeRun

`run` is the position of `run_serve`: fetching a round, opened but not yet looked at,
in the inner `select!`, checking the pool after an arm, waiting for the refresh, joining,
ended. One arm of the `select!` is one action. A round may offer any subset of the
endpoints again, so the number of rounds is not bounded. `handleUsed` is whether the
endpoint's `JoinHandle` has already returned. A second Ctrl+C exits the process
and is not modelled. The number of proxies found at the end and the event printer
are not either. `live` is the task that announces readiness; the end of
`run_serve` awaits it too.

Of the validation run the model keeps everything that can hold a result on its way to the
pool. `Plan` is the list of jobs of one candidate: types probed by themselves and members
of AND-groups, which `run_serve` passes on as `find` does. `probing` are the jobs at a
worker, which keeps its place until its result is handed over; `groupCh` is the channel to
the aggregator, `joined` what that has collected of unfinished groups, `merged` the group
whose send blocks, `results` the channel that the aggregator and the workers share. The
workers run as soon as `validated_stream` returns (`opened`), before the first look at the
pool closes the gate. A probe's verdict is free, so the shared dead flag of a group changes
nothing here; it is in `Validator`.

`stuck` is a relay of the endpoint in the write that no deadline cuts
(`rotator/server.rs:212-215`): the endpoint cannot come to its end while it lasts, and
`run_serve` awaits the endpoint.

With a full pool the code stops *starting* probes, but what is under way still
arrives: the pool may exceed `--pool-size`, which `cli/argument.rs:447` calls the
"Maximum number of validated proxies kept in the rotation pool". `OvershootBounded` is the
bound that does hold: past `--pool-size`, or past what the pool held when the round began if
that was more, goes at most one result per worker, one per place of either channel, and the
one the aggregator sends. A later round starts from what an earlier one left (`before`),
since its workers run before its gate is closed.

### Validator

`Plan` is the sequence of jobs the candidates turn into; `pc[j]` is where a
job stands: waiting for a place, at the gate, registered with the gate's
`Notify`, parked, probing, recording to the health store (an await), sending,
reporting to the aggregator, finished. The gate is modelled at the grain
of its atomics (`GateRegister` is `enable`, `GateLooks` the look at the flag,
`GateParks` the await, `Resume` clears the flag, then `NotifyWaiters`), because a
wake-up could be lost only between those. What
a probe finds out is free, and `GateCloses` closes a requested type at any
moment. `Drop` aborts everything.


### Probes

A probe takes a snapshot of `Candidates`, the judges that do not cool down (in
any order, since the round-trip times they are sorted by are left out), or the next one
in turn if all do. One offset counts judges and attempts, as in the code; `Onward` is
where the loop waits next: for a judge, for the delay before a new round, or not at
all. A failure puts the judge into the probe's own set and into the shared cooldown;
an unusable HTTP answer does neither. The two loops differ in one order
(`Breaks`): `support_tunnel` looks at the budget before it skips a failed judge,
`support_http` after. Time passes in ticks and a timer that ran out
fires first, so "in time" has a meaning. A `Sound` proxy relays every judge within the
deadline; any other does what it likes. `ownIp` is whether the single-flight lookup of
the public address has answered.

### Quotas, FindRun

`Quotas` translates the matching rules and the decisions over a list of quotas.
`FindRun` is the program around them with a JSON document written to a file.
`args` are chosen in `Init` from the requests of the instance, every limit up to
the bound and every set of candidates that the filters let through. `Notify` is
modelled as tokio's: one permit, waiters in order of registration, a wake-up
handed on when a notified waiter is dropped; `queue` holds the two tasks that wait
on it, the main task and the SIGUSR1 watcher. `doc` is the state of the JSON
array, `broken` when a row or an end is written where none may be. A
counted pass and the send of its row are one step here (two in `Validator`).

### Output

`opts` is one invocation: format, order, limit, target, and the rows of one or two
passes. The two loops of `process_result` (collect if an order is asked for, then
write) and its finalization are separate steps; a row goes into a buffer that has room
for `BufferRoom` writes, and a full disk or a closed pipe is noticed when the buffer
is poured. The file is a sequence of marks (header, row, comma, brackets, PAC function),
so that "one document" is a predicate on it. The sort and the filter are stated by the place
each row ends up at (`Ranked`): the number of rows that come no later, in the order the
comparison gives (`ByRank`, `AsTheyCame`). Quotas refuse nothing here; `FindRun` has them.

### Fetcher, ParseCache, Health, GeoSync

`Fetcher` has the coordinator, a task per source, a parser per body and the
consumer. A task is aborted, a parser is not: it goes on until the channel is
closed. Prefetch, grace period, timeouts, retries with permits given back, cache
replay, a list that cannot be read on (`ParserFails`) and `Drop` are actions.
`ParseCache` takes `store_rows` apart into create, write, rename by several tasks of one
process, with reads and power failures in between.
`placed` is the instant at which each list last came to be what the path holds: a write
into the file that is there, or the rename that brings it. Every row belongs to one list
(`CacheAssumption`): rows are copied and never compared, so marking each with the list it
was stored in changes no behaviour, and what was served can be told from what was mixed.
`Health` does the same with `record`: the lock, the write, the count, and the crash. A write
is not the recorder's: `tokio::fs::File` hands it to the blocking pool (`HandsOver`), which
carries it out (`PoolWritesAll` and the like) while the recorder awaits the flush. `inflight` is
that one write. A validator that is dropped aborts its manager task, and with it every
recorder this runs, at whatever await each of them is (`ValidatorDropped`): the lock is freed,
the write goes on, and the next recorder of the next pass finds the handle with it. It waits for
it (`Ready`) or gets its error (`PreviousFailed`). A handle poisoned by a refused write is
used again only by a recorder that comes before the new handle; it panics and takes its
manager along (`MeetsPoison`).
`GeoSync` has the processes of one machine, each of which may die at any step, and a
lock that covers the download but neither the marker nor the removal.

### Tui, Screen

`Tui` is the event loop and what each overlay does with each action; a run is a task that
puts its rows and then its end on the bus and waits for room there. `Screen` is
the list: `rows` in order of arrival, `visible` the indices computed at the last refresh,
selection, offset, filter prompt, drill-down. A key reaches an action
through `Keys`, what the frame shows is computed by `Listing`. `Visible` says what the
list is rather than how it is sorted: place `k` holds the row that passes the filter and has
`k - 1` such rows before it (`Precedes`: by the order, ties by arrival);
`ListIsSorted` compares it with an insertion sort over bounded rows.

### The pure modules

Values that a decision does not look at are left out; an optional value is a set
of at most one element. A text is a sequence of what the code searches it for, so
parsers run over rows of tokens and judges over sets of marks. No operator
is recursive: folds and functions do the loops.

## 3. The runs

| Run | Configuration | Checks |
|---|---|---|
| `rotator` | `MCRotator.cfg` | `PoolSound`, `ChargesBacked`, `RoundRobinBalanced`, `DrainCutsNothingOff`, `EvictionEarned`, `RefusedOnlyIfNoneReady`, `ImplementsContract`, `StopsUnlessWriteStalls` |
| `rotator_drain` | `MCRotatorDrain.cfg` | `DrainAlwaysTerminates`, violated |
| `serve` | `MCServeRun.cfg` | `OvershootBounded`, `ReadyWhenFeedEnds`, `SuccessMeansDrained`, `GateReopens`, `CtrlCEndsRun` |
| `serve_panic` | `MCServePanic.cfg` | `NeverPanics`, violated |
| `find` | `MCFindRun.cfg` | find run: `LimitKept`, `CapsKept`, `FinishedDocumentClosed`, `NothingLeftUnasked`, `NothingProbedTwice`, `GateSkipsNothingWanted`, `FindEnds`; stream of candidates: `NothingLost`, `CachedMeansComplete`, `FallbackWhenShort`, `FetchEnds`; and the assumptions below |
| `find_cancel` | `MCFindCancel.cfg` | `CancelledDocumentClosed`, violated |
| `find_ctrl_c` | `MCFindCtrlC.cfg` | `CtrlCEndsRun`, violated |
| `validator` | `MCValidator.cfg` | validation: `GroupsAllOrNothing`, `SkipsAreExcused`, `EndsSettled`, `ValidationEnds`; probes: `SoundProxyPasses`, `GivesUpWithCause`, `EndsInBudget`, `DeadlinesFire`; and the assumptions below |
| `parts` | `MCParts.cfg` | `TornAppendCostsOne` (health), `StaleOnlyByOverlap` (geo), `ServesStoredLists` (cache), `DocumentAsPromised` (output), `FrameMatchesView` (list); screen runs: `ForeignOnlyAfterCancel`, `UnheldRunsAreAborted`, `ScreenReachesDone`; and the assumptions below |
| `find_pac` | `MCPacTwice.cfg` | `PacOffersEveryProxy`, violated |
| `screen_highlight` | `MCScreenMarks.cfg` | `MarksInsideCells`, violated |
| `tui_ctrl_c` | `MCTuiCtrlC.cfg` | `SecondCtrlCQuits`, violated |

All runs switch deadlock checking off, because every one of these programs is
meant to stop. The type invariants of the proved modules are theorems (section 5) and
not checked again. Components that share no state are put in one
run by a variable `component` that a behaviour keeps: their behaviours lie side by side,
not multiplied.

What the pure modules compute is claimed by assumptions that TLC evaluates
before the runs below begin:

| Module | Evaluated by | Claims |
|---|---|---|
| `ExchangeChecks` | `validator` | `EarlyExitAgrees` (stopping early gives the verdict of the whole answer, or "Transparent"), `LevelsNeedTheToken`, `HeadReadersAgree` (over every head of up to seven bytes), `RepliesAreConsumed` |
| `MCFindRun` | `find` | `TokensAreSplit`, `RowsAreSorted`, `ShuffleIsFair`, `StatsOfSamples`, about `Selection` |
| `ConfigChecks` | `validator` | `PrecedenceKept`, `DefaultsAgree`, `ArgumentsAreDistinct`, `WizardRoundTrip` |
| `SourceChecks` | `find` | `StaticSchemasBuild`, `EverySourceIsScheduled`, `StopsAreNoErrors`, `TablesAreRead`, `ChunksDoNotMatter`, `DownloadsEnd`, `DecodedIsBounded` |
| `ScreenChecks` | `parts` | `ColumnsFillTheLine`, `WiderShowsMore`, `ClickSelectsWhatIsDrawn`, `SmartCase`, `ListIsSorted`, `ProgressFits`, `OverlaysFit`, `NoBindingIsDead`, `FooterTellsTheTruth`, `HelpIsComplete`, `OverlaysTakeTheKeys`, `ModifiersAreNoLetters` |

### Bounds, and why they are enough

* `rotator`: three endpoints and a pool of two, so `add` meets a full pool, an
  evicted endpoint is replaced and comes back; two failures (the code has
  `MAX_CONSECUTIVE_FAILURES` = 3), so there is a failure that evicts and one that
  only cools down; three connections, so two can report on the same entry
  after a third's report evicted it. `cursor` and `tally` are bounded
  by the connections, since each picks at most once. The proofs cover every other
  value.
* `serve`: two endpoints, `--pool-size` 1 under a hard cap of 4 (25 in the code), so the
  pool is full, evicted from, and over its size; a plain type and an AND-group of two, one
  worker, one place in each channel: the aggregator's send, the worker's and the receive
  of the feed loop all wait for one another. The pool and what is under way to it do reach
  the bound of `OvershootBounded`. Rounds, evictions and refreshes are unbounded.
* `serve_panic`: the same with the plain type only.
* `find`: two candidates that advertise different types; five requests (two
  capped families, an overlap of a level with its whole family, uncapped types,
  a cap beside an AND-group, a group alone); limits 0 to 2; every filter; one
  worker and one slot; one SIGUSR1.
* `validator`, validation: two proxies, one with a single type and a group of
  two, one with the group only; two workers, so members of a group run together
  or one after the other; both channels of one slot, so each is full; one pause.
* `validator`, probes: two judges and two probes, so that a dead proxy can
  park a judge, or both, under a sound one; deadline and cooldown of two ticks, a delay of
  one, two attempts: every deadline can fall before, on and after every other. `Kinds`
  picks HTTP or a tunnel for each probe; `CursorCycle` wraps the rotation.
* `find`, stream: two primary sources of one host with one permit, so they take
  turns, and a fallback that repeats an endpoint; channel, threshold, attempts and
  dedup window of two: the channel fills, the window evicts, a retry meets a
  neighbour that waits. `FallbackTimed` is false: a fallback timed out by
  `fallback_timeout` would only excuse more. The list of the fallback is not
  cached at the start; a replay is the same code for every source.
* `parts`, stores: two recorders of two records with three faults and two dropped validators,
  so a torn line, the record glued to it, a cancelled recorder and a crash fit; two processes, two
  revisions, two runs each, so the marker of one meets the database of the other; two
  lists of two rows, so a mixed list differs from both, and a third of one row: it takes a
third task to put an older file into the place of a newer one between the look at its
time and the read. The time to live is 0 and the clock ticks once, so that every list is
fresh, or too old.
* `parts`, screen: two runs of one row over a bus of one slot with one export, so
  stale events, a full bus and an export that competes all occur; two
  arrivals, a filter of one character and a screen of 60 x 12, on which columns are
  hidden and cut.
* `parts`, output: every combination of format, order, limit, target and kind of command over
  at most four rows and a fallback row, with a buffer for two writes so that a pour falls
  between any two of them.

## 4. Fairness

* Tasks: weak fairness of every step of a task that can go on by itself. The
  runtime polls a woken task again. In `MCValidator` these are the
  source, the aggregator, the receiver, each worker and the second half of `resume`;
  in `MCFindRun` the fetch as a whole (`Running`: something of it always goes on), in `MCParts`
  the loop of the screen. In `MCServeRun`, `run_serve` as a whole and the validation run as a
  whole.
* Waiters for room in a channel: tokio serves them in the order they came, so a
  run that waits for the bus gets it in the end although exports compete: strong
  fairness of `Unpaused(r)`.
* Arms of a `select!`: `tokio::select!` polls its arms in random order, so an arm
  that is ready again and again is taken: strong fairness for
  `StopFeeding`, `RefreshCut` and `PassCancelled`. Nothing stronger is
  assumed of any other arm. `MainWaits`, the registration at the top of each
  turn of the `select!`, is strongly fair because each turn polls the Notify.
* Deadlines: `TimedStep` of a connection, the probes and the fetch are under a
  timeout and so fair. `RequestSent` and `SendFails` are *not*: the request bytes
  are written to the upstream under no deadline. (Answers of the endpoint to the
  client have none either, but they fit an empty socket buffer.) In `Probes`, where time
  is explicit, no fairness is needed: `DeadlinesFire` says that whenever time is held
  up by a timer a step of that probe is enabled (which step that is, and that it can be taken
  in every state of the invariant, is the theorem `DeadlineServed`), and `EndsInBudget`
  bounds the time.
* The endpoint under `run_serve`: `ServerStops` is strongly fair, but enabled only while no
  relay is in the untimed write. That says: after Ctrl+C the endpoint stops accepting, each
  connection it has enters that write once, and so an endpoint whose relays all leave it comes
  to its end. Nothing says that they leave it: `WriteStalls` has no fairness, and
  `CtrlCEndsRun` excepts a run whose endpoint stays stuck, just as `StopsUnlessWriteStalls` does for the endpoint.
* The environment: no fairness for feeds, Ctrl+C, signals, pauses, drops, keys,
  clients, crashes. `FindEnds` and `ValidationEnds` therefore except a run left paused (and, in
  `Validator`, dropped), `ScreenReachesDone` a run that is paused and a user who leaves.

## 5. What is proved

`RotatorProofs` proves, for every set of endpoints, pool size, failure limit,
readiness target and number of connections, from `PoolAssumption` (`NoProxy` is
no endpoint; size and limit are positive) and `RotatorAssumption`:

| Theorem | States |
|---|---|
| `InductiveInvariant` | `Spec => []IInv` |
| `TypeCorrect` | `Spec => []TypeOK` |
| `PoolIsSound` | `Spec => []PoolSound` |
| `ChargesAreBacked` | `Spec => []ChargesBacked` |
| `EvictionsAreEarned` | `Spec => EvictionEarned`, an action property |
| `DrainIsGraceful` | `Spec => []DrainCutsNothingOff` |

`TypeOK` alone is not inductive: that a failure count stays below the limit
is fine, but a report writes at the position of a proxy, which must be
unique (`PoolSound`) for the charge of the moved entry to stay its own,
and eviction at the limit is only earned if charges never exceed the history of
failed relays (`ChargesBacked`). A connection reports on what it holds, so the
reports are about endpoints only if a `Lent` phase implies a proxy (`ProxyHeld`).
`IInv` is the conjunction of the four. The proof splits it into a
part about the pool (`PoolInv`) and one about the tasks (`TaskInv`); the lemmas
of `PoolLemmas` about append, update and `swap_remove` carry the first, one
lemma per group of actions the second. `EvictionsAreEarned` follows from a
second look at the steps that shrink `Members`; `DrainIsGraceful` is inductive
on top of the type invariant.

The same module goes on from `IInv`, under the same assumptions:

| Theorem | States |
|---|---|
| `ContractImplemented` | `Spec => ImplementsContract`, the refinement of `PoolContract` |
| `RefusalsAreJustified` | `Spec => RefusedOnlyIfNoneReady`, an action property |
| `PicksAreBalanced` | `Spec => []RoundRobinBalanced` |

For the refinement the vector is read as a table from proxies to standings.
`AppendTable`, `UpdateTable` and `RemoveTable` say that an append, a rewrite in place
and a `swap_remove` each change that table at one proxy; all three need the entries
to be distinct, which `IInv` supplies. `HoldersGain`, `HoldersLose` and `HoldersStay` say
the same of the connections. Then every action is a step of the contract or none. A
refusal is justified because the offsets of a scan visit every slot
(`SlotsAreVisited`), wherever it starts. `RoundRobinBalanced` is not inductive, for it
compares two counts and forgets whose turn it is. `BalanceInv` remembers: every slot was
picked `q` times since the pool last changed, and the last `k` slots before
the counter once more; a pick takes the slot the counter points at (`NextTurn`: modulo the
length, the next one or the first), so `k` grows by one or the round is complete.
The counter is a natural number here and wraps at the machine's word in the code; the one
round in which that happens, after 2^64 picks, is outside the theorem.

`ServeRunProofs` proves, for every set of endpoints, `--pool-size` within the hard
cap, plan of single types and AND-groups, number of workers and capacity of both channels
(`ServeAssumption`):

| Theorem | States |
|---|---|
| `ServeInvariant` | `Spec => []ServeInv` |
| `ServeTypes` | `Spec => []TypeOK` |
| `OvershootIsBounded` | `Spec => []OvershootBounded` |
| `ReadyAfterFeed` | `Spec => []ReadyWhenFeedEnds` |
| `SuccessIsDrained` | `Spec => []SuccessMeansDrained` |

`OvershootBounded` is not inductive: a probe that starts adds to the sum, so one
must know that the pool was at most at its size when the gate let it start, and that what
is under way fits its places. `PipeInv` says the second: no more probes than workers,
channels within their capacity, and one group in the aggregator's hand (`UnderWayIs`); a
job goes on from one place to the next and counts once at each, a member that does not
complete its group no longer. `GateTight` says the first at each point of the loop: in
front of the `select!` an open gate means room; right after `FeedProxy` the pool and what is
under way are within the bound although that room may have been used, because the check comes
before the next `select!`; and in a round just opened, whose gate is open whatever the pool
holds, the pool is at most what it held at the round's begin. Evictions only help; the
lemmas of `PoolLemmas` bound how each method moves the length. `SuccessMeansDrained` needs
that the endpoint is down only after Ctrl+C. `ServeInv` is the conjunction of these with the
types.

`FindRunProofs` first proves of every sequence of quotas, hits and proxies, from
`QuotasAssumption`:

| Theorem | States |
|---|---|
| `GateSound` | a closed type's probe could not have led to a row (the rule behind `GateSkipsNothingWanted`) |
| `HitsStayCapped` | counting a row never passes a cap |
| `ClosedForGood` | a closed type stays closed |
| `SatisfiedRefusesAll` | satisfied quotas refuse everything that shares a family with them |

`ValidatorProofs` proves, for every plan of jobs, number of workers and size of both
channels, from `ValidatorAssumption`:

| Theorem | States |
|---|---|
| `RunInvariant`, `RunTypes` | `Spec => []IInv`, `Spec => []TypeOK` |
| `GroupsWhole` | `Spec => []GroupsAllOrNothing` |
| `SkipsExcused` | `Spec => []SkipsAreExcused` |
| `RunEndsSettled` | `Spec => []EndsSettled` |

A report in the channel to the aggregator says nothing of its group by itself, so
`IInv` says where a job is once it is through: in that channel, in the
map, or in a settled group, and never in two of them (`GroupInv`). `FlagInv` ties the
shared dead flag to a failed member of the same group and lets it vanish with the group;
`HandedInv` says that a unit is on its way to the consumer exactly if it has settled and all
of it passed. `CountInv` reads the counters as cardinalities of sets of units, so a
step that moves one unit moves one counter by one.

`FindRunProofs` then proves, for every request, candidates, filter, limit, number of workers
and channel, from `FindAssumption` and `QuotasAssumption`:

| Theorem | States |
|---|---|
| `RunInvariant`, `RunTypes` | `Spec => []IInv`, `Spec => []TypeOK` |
| `LimitIsKept` | `Spec => []LimitKept` |
| `DocumentIsClosed` | `Spec => []FinishedDocumentClosed` |
| `EverythingIsAsked` | `Spec => []NothingLeftUnasked` |
| `CapsAreKept` | `Spec => []CapsKept` |
| `NothingIsProbedTwice` | `Spec => NothingProbedTwice`, an action property |
| `GateSparesOnlyUseless` | `Spec => GateSkipsNothingWanted`, an action property |

`LimitInv` relates the rows of the pass, those of both passes and the limit handed to
the second: the hard case is the first pass without quotas, whose remainder is
computed from validated proxies and not from rows. `DocInv` gives the state of the array in
each phase. `JobsInv` keeps the two passes apart: the first asks for what a candidate
advertises, the second for what it does not, so a pair is asked once. `AskedInv` carries the
recorder: a run that ends short has, for every candidate and type, a probe or a
closed quota, and for that closed types must stay closed (`ClosedForGood`).
`CapsKept` counts rows against caps, which no step relates: `RowsInv` puts the hits
between them. Each row of one type takes at least one unit of a quota on its family
(`RowCounts`), and no counter passes its cap. `Units` stands for the sum of
counters as a set with as many elements, because sums over a set are folds, of which the
prover knows nothing.

`ProbesProofs` proves, for every set of judges and probes, deadline, delay, cooldown and
number of attempts, from `ProbesAssumption`:

| Theorem | States |
|---|---|
| `ProbesInvariant`, `ProbesTypes` | `ProbesSpec => []IInv`, `ProbesSpec => []ProbesTypeOK` |
| `SoundPasses` | `ProbesSpec => []SoundProxyPasses` |
| `StopsWithCause` | `ProbesSpec => []GivesUpWithCause` |
| `StaysInBudget` | `ProbesSpec => []EndsInBudget` |
| `DeadlineServed` | from a state of `IInv` in which a timer holds time up, a step of its probe leads to the state `NextOf` |

`Counted` says how often each judge was asked when the loop stands at an offset: once per
round that is behind it, unless it failed. `InTime` says that what was spent and the limit of
the request fit the budget, and `Sleeping` that there was one delay per round. A
sound proxy passes because a snapshot is never empty (`PoolInv`) and its first judge
answers before any deadline. `DeadlineServed` is `DeadlinesFire` as far as it can be proved
without `ENABLED`: it names the next state, a function of the present one, and shows that
going there is one of the probe's actions. It rests on the invariant, which leaves a held timer
only the states it is about (`TimerStates`: a delay that is over is exactly `RetryDelay`).

`SourceProofs` proves, for every number of sources, permits, processes, recorders and
storing tasks, and all their lists, bounds and times, from `FetcherAssumption`,
`HealthAssumption`, `GeoAssumption` and `CacheAssumption`:

| Theorem | States |
|---|---|
| `FetchInvariant`, `FetchTypes` | `FetchSpec => []FetchInv`, `FetchSpec => []FetchTypeOK` |
| `StreamLosesNothing` | `FetchSpec => []NothingLost` |
| `CacheHoldsWholeLists` | `FetchSpec => []CachedMeansComplete` |
| `ShortStreamsFellBack` | `FetchSpec => []FallbackWhenShort` |
| `HealthInvariant`, `HealthTypes` | `HealthSpec => []HealthInv`, `HealthSpec => []HealthTypeOK` |
| `TornAppendsAreCheap` | `HealthSpec => []TornAppendCostsOne` |
| `GeoInvariant`, `GeoTypes` | `GeoSpec => []GeoInv`, `GeoSpec => []GeoTypeOK` |
| `DownloadsExclude` | `GeoSpec => []DownloadInv` |
| `MarkersAreHonest` | `GeoSpec => []StaleOnlyByOverlap` |
| `CacheInvariant`, `CacheTypes` | `CacheSpec => []CacheInv`, `CacheSpec => []CacheTypeOK` |
| `WholeListsAreServed` | `CacheSpec => []ServesStoredLists` |

Fetch: a row is on its way in one of four places, so `FlowInv` follows it: what a parser is
past is in the channel, taken ahead by the consumer or inserted (`InHand`). `StageInv` says
what a parser and a replay have behind them at each stage, so that a list is stored only
after its last row. `RingInv` is the window of endpoints that were seen, which forgets the
oldest and never holds one twice. `PhaseInv` says why the coordinator may end: enough was
accepted, or no source is left to start.

Health: a record is lost when the line it is on cannot be read. Losses are counted by
records and faults by lines, and `EndedInv` ties them: the last piece of every ended line
names the one record that ended it, so a line costs one record (`LostRecords`, an injection
from lost records to torn lines). `TornInv` bounds the torn lines by the appends that tore, the
one in the open line included; the delicate step is the record appended behind a half line,
which is the one that is swallowed. The other direction, a line that nobody counts, is
`CountedInv`: what is in the file or on its way to it is counted, or its recorder still waits
for it, but for one record per dropped validator. A drop cancels any number of recorders; it
costs one at most because only the holder of the lock can be between the hand-over of its
line and the count (`LockInv`: who waits for a write waits for his own). And a line that was
handed over is not handed over again (`HandedInv`, `WriteInv`), so a record cannot slip back
among the uncounted.

Geo: `DownloadInv` is mutual exclusion and what it is for: of all files only the temporary
one is covered by the lock, so an installed file is the one its process wrote. `SoloInv` is
about a process that works alone, after any crashes of others: it starts from a marker no
newer than the database, asks for no less than the marker says and marks what it installed.

Cache: `ListsInv` says of each file, of what is remembered and of what is served that it is a
whole list, and that this list came to its place no earlier than the time that goes with it.
`WholeOrNothing` must hold of the files that have lost their name too, for a task may still
write to one. The proof needs to know what a write over the beginning of an inode decodes
to (`DecodeWhole`), and a cut one on an empty inode (`DecodeCut`).

`InterfaceProofs` proves, for every number of runs, rows, exports and places on the bus, all
arrivals and any terminal, and for every invocation of the output writer and size of its
buffer, from `TuiAssumption`, `ScreenAssumption` and `OutputAssumption`:

| Theorem | States |
|---|---|
| `TuiInvariant`, `TuiTypes` | `TuiSpec => []TuiInv`, `TuiSpec => []TuiTypeOK` |
| `NoRunUnattended` | `TuiSpec => []UnheldRunsAreAborted` |
| `ScreenIsOfTheNewestRun` | `TuiSpec => []ForeignOnlyAfterCancel` |
| `ScreenInvariant`, `ScreenTypes` | `ScreenSpec => []ScreenInv`, `ScreenSpec => []ScreenTypeOK` |
| `FrameIsOfTheView` | `ScreenSpec => []FrameMatchesView` |
| `OutputInvariant`, `OutputTypes` | `OutputSpec => []OutputInv`, `OutputSpec => []OutputTypeOK` |
| `DocumentKept` | `OutputSpec => []DocumentAsPromised` |
| `SortIsStable` | the sort returns each row once, by rank, rows of one rank as they came |
| `FilterIsIncremental` | filtering a front of the rows gives a front of the filtered rows |

Runs: an event does not name its run, so the invariant (`CleanInv`) says whose it can be. As
long as none was cancelled, every row and end on the bus is of the newest run, its end stands
behind all of its rows, and the rows shown, on the bus and still to be found add up.
`HeldInv` says that the app holds the newest run or none, and holds it as long as the screen
says that it runs.

List: `FrameMatchesView` is inductive but for two things. The first is what `Visible`
computes: that it has as many rows as pass the filter (`ShownRows`: the order is total, so
each place is taken once, by a least-element argument), and never fewer when more have
arrived. The second is the prompt: leaving it puts the old filter back without a refresh.
`PromptInv` says that either nothing was typed, so the list is still of that filter, or the
selection stands on the first row, and the keys that move it go to the prompt
(`PromptActions`, `RerunFromTheList`: facts about the key map).

Document: `DocumentAsPromised` speaks of the end only, and of three things at once: the
file, the rows, and the order and limit they obey. `SheetInv` follows the file: what has
arrived, with what still waits in the buffer, is at each place of `process_result` the body
of the document so far (`Body`: without the bracket that closes an array or the function that
a PAC file is), and after a fault what has arrived is a front of it, because a buffer that
cannot be poured is dropped and so is all that comes after it (`PouredFacts`, `SinkInv`). `ReadInv` and `PickInv` follow the rows: those written and those
still held are one of the arrangements of what was gathered (`Gathered`), and without an order
what was written is the filter of what was read; `ChosenWhenDone` turns both into the promise
when the source or the limit ends the pass, for which rows filtered as they arrive must
be those that filtering the whole list gives (`FilterIsIncremental`). `CountInv` and `PassInv`
tie the rows to `item_count` and to the limit of the second pass, which is what is left of the
first's: together they keep `--limit` over both. `StopInv` keeps the rows collected at Ctrl+C
apart from those of a run nobody stopped. A PAC file is excepted twice, because the code does not
keep the promise there: a cancelled one gets no function at all (`cli/output.rs:429`, section 6),
and one that a second pass continues gets two (finding 5).

Only model-checked:

* every liveness property, and `DeadlinesFire` in the form with `ENABLED`;
* the pure modules: most are folds and recursive definitions, and no theorem about those can
  be instantiated here, so what they compute for every input cannot be proved. They are
  evaluated over bounded inputs. (`Output` had folds and the sort and filter of the library in
  its way too, until each was stated by what it puts at which place.)

What the attempts to prove have corrected: `ServesStoredLists` used to promise that a list
is served at most its time to live after it was *written*. That holds with two storing tasks
and fails with three: a reader stats the file, then a rename brings a file written before, whose
time nobody looks at (`fetcher/cache.rs:117`). What the code does promise is the time since
the list came to its place, and that is what the property says now. `GoesOn` of `Output` used
to take `failed` along into the fallback pass; `write_error` and `cancelled` are
locals of `process_result`, so each pass begins with neither.

## 6. Findings

1. **The drain may not end** (`rotator_drain`). The comment at `rotator/server.rs:52`
   says that every relay phase has a deadline. Writing the request to the
   upstream (lines 212 and 215) has none; an upstream that stops reading a request
   larger than the socket buffers holds the drain for ever.
   `StopsUnlessWriteStalls` shows that this is the only such await, and `CtrlCEndsRun` of
   `serve` that `run_serve`, which awaits the endpoint (`cli/main.rs:872`), inherits it and
   adds no other.
2. **A Ctrl+C may panic `flx serve`** (`serve_panic`). If the endpoint drains
   before the feed loop is polled, the loop may take the result out of the join
   handle and await the same handle again at the end.
3. **A cancelled fallback may leave the JSON array open** (`find_cancel`).
   Ctrl+C while the second pass starts returns without closing what the first
   pass left open on purpose.
4. **The first Ctrl+C of `flx find` may be lost** (`find_ctrl_c`). The SIGUSR1
   watcher waits on the same Notify and takes its single wake-up.
5. **A PAC file may hold two functions** (`find_pac`). A first pass below the limit is
   followed by a second one that appends a second `FindProxyForURL`; a browser uses the last.
6. **Highlighting a filter match may panic** (`screen_highlight`). The range of a match in the
   whole cell is used on the cut one (`cli/tui/ui.rs:429`), whose ellipsis is one
   character of three bytes.
7. **Ctrl+C is swallowed behind the help panel and the prompts** (`tui_ctrl_c`), against
   the comment at `cli/tui/app.rs:429` and the intention of the test at `event.rs:428`.

Smaller observations, modelled as they are:

* serve: the pool may exceed `--pool-size`, its documented maximum (`ServeRun` in section 2);
  Ctrl+C before a pool is ready leaves the endpoint waiting until the bypass
  is set or two minutes pass; a refresh that cannot start returns from `run_serve`
  while relays are open; `README.md:155` says that the pool "revalidates" and drops dead
  proxies, while only failed relays drop one; a bind failure under `Flx::serve` (the
  library's entry) is not reported to its caller.
* validation: a group member that starts after a sibling failed is not probed but
  recorded as failed, while `examples/README.md:38` says that every member is
  probed; `max_attempts` above one has no effect on a tunnel beyond its delay, since failed
  judges are skipped; a configuration file may say `max_attempts = 0`, which the flag refuses
  and the validator rejects later.
* output: a cancelled first pass without rows leaves an empty file; a cancelled PAC
  output writes nothing, while other buffered formats write what was collected
  (`cli/tests.rs:1936`); PAC rows are not counted in the document shared by both passes, so
  with quotas `--limit` can be exceeded over two passes; a broken pipe is success for rows
  and an error for the end of a JSON array; flush errors are dropped, so a small
  output on a full disk reports success; `--sort KEY --limit N` cuts before it sorts
  unless the key is the score; with a fallback each pass is sorted for itself; reports of failures are
  not awaited on returns that are cancelled, fail or find no candidate.
* fetcher and stores: a torn line of the health log swallows the next record; a validator that is
  dropped while a record is being written leaves a line in the file that the statistics of this
  process do not count (the next start does); a recorder may get the error of a write that was
  not its own, and then drops its own record; a list may be
  served for longer than its time to live after it was written, if its rename comes late;
  overlapping
  stores of one URL can mix two lists if the second is cut; two overlapping
  `sync_one` can leave a marker that is newer than the database.
* options: `--exclude-type` accepts tokens with a quota or a group, which exclude
  nothing; a SOCKS5 proxy that chooses "no authentication" is refused when credentials
  are given; the prompt for the export format says "jk choose", but both are text there.
* screen: the `Finished` or `Error` a cancelled run left on the bus ends the
  newer run; answering "y" after the run ended marks it cancelled; the offset of help and detail
  is not clamped when it is stored; a drill-down shows whatever row moves under the
  selected index; ties under a descending order stand in order of arrival on the screen
  and reversed in the file; `5gg` goes to the top, although `event.rs:72` says that a count
  goes to that row; two arms of `handle_help` cannot be reached; `d` is cut from
  the footer of a running screen.

## 7. What is not modelled

* The DNS client and its parser: one query, one answer.
* Serialization and display of proxies; TOML syntax; the cutting of text into tokens.
* TLS sessions and the bytes of HTTP heads; a TLS step succeeds or fails.
* Progress bars, the status line and the drawing itself (what is drawn is `Listing`).
* The ranking of loaded health records (`score_stats`), the politeness delay of the
  fetcher (`Throttle`), lookups in the geo databases: functions or delays that no
  property here depends on.
* Version check and bench.
* The builders of the public API; `Flx::serve` is `run_serve` without pause, refresh and
  shutdown.
* The task that buffers candidates ahead of the validation run: in `FindRun` a
  source that may be read at any moment.
* What `--sort`, PAC and pipes do to a find run is in `Output` and not in `FindRun`; the
  quotas are in `FindRun` and not in `Output`.

## 8. What could follow

1. `FindRun` over `Fetcher` and `Validator` instead of their reductions, with each
   reduction shown to be an abstract specification of the module it stands for.
2. The pure modules stated by place, as the sort and the filter of `Output` are, which would
   bring some of what is evaluated over bounded inputs within the prover's reach.
