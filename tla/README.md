# silph in TLA+

silph is a small monitoring system. A *collector* on each monitored machine
answers `GET /metrics` with raw readings. One *server* scrapes every collector
on a timer, turns consecutive readings into points, keeps them in an embedded
time-series store on SQLite, and answers range queries. A *dashboard* in the
browser draws them. This directory models its logic in TLA+, model-checks it
with TLC and proves its main properties with TLAPS.

Paths below are relative to the repository; `storage.rs`, `scrape.rs`, `api.rs`
and `main.rs` are in `crates/silph-server/src`; `cpu.rs`, `memory.rs`, `disk.rs`
and `temperature.rs` in `crates/silph-core/src/metrics`; `app.js` and `state.js`
in `crates/silph-server/assets`.

## Inventory

| Component | State | Operations | Talks to | What is hard | Module |
|---|---|---|---|---|---|
| Storage engine (`storage.rs`) | tables `series`, `samples`, `chunks`; id cache; what each of two connections is doing | insert a batch, query a range, compact a window, prune, close | SQLite; called by scrape tasks and the query API; maintenance task beside them | transactions of two connections interleave; rollbacks against the cache; late samples; damaged chunks; crashes; clock steps; rounding; windows that do not fit a chunk; bucket edges | `Storage` implements `TimeSeries`; `Quantize`, `Pipeline` |
| Scrape loop (`scrape.rs`) | per-host `HostState` behind a lock; per-task position | scrape, process, insert, publish | collectors (HTTP), store, the query API through the host map | every step can fail; two locks and three awaits per scrape; restarts | `Scrape`, `Uptime` |
| Collector (`silph-collector/src`) | its configuration | check the token, collect each enabled category, answer | `/proc`, `statvfs`, hwmon; scrape loop | categories fail alone | `Collector`, `Scrape` |
| Metrics (`cpu.rs`, `memory.rs`, `disk.rs`, `temperature.rs`) and keys (`key.rs`, `metric.rs`, `wire.rs`) | none | collect; process one reading, or two for cpu | collector and server | counters reset on reboot; fields missing; mounts come and go; chips and sensors that share names; escapes in paths | `Scrape` (cpu), `Collector` (the others) |
| Query API (`api.rs`) | none of its own | resolve hosts and instances, fan out over the store | host map, store | the two are read at different moments; partial buckets; extreme ranges | `Server`, `Pipeline`, `Targets` |
| Dashboard (`app.js`, `state.js`) | selection, window, panels, generation, timer, URL | select, pan, zoom, navigate, refresh | query API | answers arrive in any order; timers; browser history | `Dashboard` |
| Server lifecycle (`main.rs`) | none of its own; the runtime's tasks and blocking jobs, two mutexes, SQLite's log | start, spawn, stop on a signal, close | everything | jobs outlive their tasks; panics poison mutexes; kills and losses of power at any point | `Lifecycle`; restarts also in `Storage`, `Scrape`, `Server` |
| Server configuration (`config.rs`) | the targets | parse, validate | lifecycle; names reach the query API through the dashboard | names that the query's parameter cannot carry | `Targets`, in `Lifecycle` |
| Charts, formatting, static files, benchmarks | drawing only | | | | not modelled |

What makes each correct:

* **Storage**: from the retention horizon on, every second of every series
  answers with the newest committed value; a batch lands whole or not at all;
  compaction, failures and restarts are invisible; every healthy complete
  window is compacted and everything expired is deleted in the end.
* **Scraping**: a CPU point is what the machine did since the last successful
  scrape; known instances are those with stored points; a target recovers once
  failures stop; one missed scrape does not take a host down, at least until the
  scrape after it has lasted half an interval.
* **Query API**: an answer holds everything acknowledged before it began and
  nothing that is not stored; every value is the average of exactly the readings
  of its bucket; the axis covers the request.
* **Collector and metrics**: every category, every sensor whose name is its own and
  every local disk whose line of the mount table splits as meant is reported once,
  whatever fails beside it (the documentation asks it of all sensors and disks, see
  findings); every point can be stored.
* **Lifecycle**: what was acknowledged stays; a clean stop leaves everything
  durable; a stop ends; a panic shows, and only where it happened.
* **Dashboard**: what is drawn is of the hosts selected and the window shown;
  a live view keeps refreshing.

## How to run

`tlc -config <run>.cfg <module>` in this directory, and `tlapm <module>.tla` for
the modules whose name ends in `Proofs`. The runs are with their modules in
`PROJECT.json`, which also maps every definition to the lines it models.

## Storage engine

`TimeSeries` is the abstract store: a map `db` from series and second to a
value, and a retention `horizon`. Three actions: a host's batch at one second
(`Write`), retention moving the horizon (`Expire`), damage that loses points
(`Rot`).

`Storage` is the engine. Its state is the three tables, the id cache
(`Inner.series_ids`), what the application connection is doing (`app`: idle, in
an insert's transaction, or between two statements of a query), what the
maintenance task is doing (`maint`: idle, in a pass, or holding a merge), and
the clock. A step is one statement, or the commit, of one connection: SQLite
gives a writer the database's write lock and each autocommit `SELECT` a
snapshot of its own, so nothing finer can be observed. The mutex of the
application connection is the guard `app = Idle`, and the write lock the guards
that keep an insert and a merge apart. Inserts keep a private copy of the tables
they write until they commit; any statement or commit may fail
(`InsertFail`, `QueryFail`, `CompactSkip`, `CompactAbort`, `PruneFail`).
`Restart` kills the process at any point. `Tick` moves the clock in either
direction. `Rot` damages a chunk's blob, which then no longer decodes.

Behind the horizon nothing is promised: retention deletes rows by their second and
chunks by their end (`storage.rs:511-517`), so a raw correction can go while the
chunk it corrected stays, and the older value returns for a query that reaches
back that far, in spite of `storage.rs:12-13`.

Three history variables record what was committed (`last`), the largest
retention cutoff (`horizon`) and the windows compacted during a query (`moved`).
No guard reads them.

Abstractions: a metric and its instance are one `Label`; values are members of a
set, `Quantize` any function on it; a chunk's blob is the set of points it
decodes to; the encoder may cut a window into chunks anywhere between two
points (`Blocks`), which includes every cut `split_encode` makes; the average
over a bucket at the end of a query is left out, so a query's answer is its merged
points.

| Run | Question | Bounds |
|---|---|---|
| `storage` | `LastWriteVisible`, `ChunksDisjoint`, `CacheSound`; a query's answer between its statements (`QueryExact`); `Storage` implements `TimeSeries`; compaction and retention get done | 1 series, batches of 1 and 2 points, 2 inserts, 4 seconds, windows and retention of 2, spans over and through windows, damage allowed |
| `storage_race` | violation, see findings | 1 series |

Two inserts are enough for a value and its correction or a late one around a
compaction; four seconds hold a complete window and one that is open or becomes
complete; a retention of two makes the cutoff fall inside a window. A batch may
hold its label twice, so that a staged id is found again. A second host is not
in the run: hosts meet in the id cache and the tables' keys only, and
`CacheSound`, `LastWriteVisible`, `ChunksDisjoint` and the refinement are proved
for any number of hosts, inserts and seconds (below).

Fairness: the maintenance task runs for ever (`storage.rs:290-307`) and a
transaction that began ends, so those steps are weakly fair. Reading a window,
committing a merge and pruning are strongly fair: a lock wait of up to five
seconds, an I/O error or a restart may defeat each any number of times but not
for ever. The clock is required to settle in the liveness properties' premise.

## What becomes of a reading

`Quantize` and `Pipeline` follow the readings of one series from `Store::insert` to
the answer of the API. `Storage` has the concurrency of this; here a compaction is
one write transaction whose splitting is seen call by call, and a query is one read.

`Quantize` is `quantize` on bit patterns: sign, exponent and mantissa fields are
places of a number, and the widths are constants. `Rounds` says what the comments
promise, without bits: of the values with the kept mantissa, the nearest, and of two
equally near the even one; truncated where rounding would reach infinity; within the
documented relative error unless subnormal.

`Pipeline`'s state is the raw rows (`raw`), the chunks, and the compaction under
way: `window`, the calls of `split_encode` still to come as a `stack` of runs, and
what was pushed (`out`). Whether a run's blob fits is a free choice at every call,
since it depends on how well the values compress. `ChunkPoints`, `Samples`,
`MergeRuns` and `Buckets` are the parts of `Inner::query` in order; `Valid`, `Axis`,
`Place` and `Answer` those of the API's handler for one series. A bucket's average is
the run of readings it is taken of, so a reading counted twice or dropped shows. `sent` is
a history: the newest reading handed over for each second.

| Run | Question | Bounds |
|---|---|---|
| `pipeline` | `StoredRounded`, `SplitKeepsRun`, `AnswerExact`, `AxisCovers`, `CompactionEnds` | patterns of 1 + 2 + 4 bits, 2 kept; 5 seconds in windows of 3; 2 ms a second; at most 4 buckets; 3 inserts; 24 requests |

Four bits of mantissa with two kept have ties to both sides, carries into the next
exponent and the top of the range; two of exponent have subnormals, two normal
ranges and the reserved one. `Boundary` in `MCPipeline` lists one pattern of each
kind. Runs of up to three points split unevenly and twice. The requests start before
the epoch, between seconds and on them, end on a bucket's edge and inside one, with
steps that divide the range and do not, and some must be refused.

Fairness: the compacting thread goes on (`Compacting`); that a blob ever fits is not
assumed, nor that a commit succeeds. The run may stop, since inserts are bounded.

Observations. A series whose only reading of the request is at its very end, on a
multiple of the step, falls in a bucket behind the axis: it is then not left out but
a column of nulls, which the comment at `api.rs:227-229` wants to avoid
(`AnswerExact` counts it as not omitted). And halving gives chunks that fit,
not "as few chunks as will" (`storage.rs:578`): a run a little over budget becomes two
half-empty chunks, and twelve points of which five fit become four chunks where three
would do.

## Scraping

`Scrape` has one task per target. A step runs from one await or lock to the
next: send the request (`Ask`), the collector reads (`Collect`), the answer is in
and the previous reading is taken (`Receive`), the store commits (`Commit`), the
host's state is published (`Finish`); `AskFail` and `InsertFail` are the error
returns of `scrape_once`, both of which end in `Fail`, the error arm of
`scrape_loop`. The host map is created entry by entry as `state_for` does.

The machine behind a collector is a log of what its CPU did: worked, idled,
booted. Its counters are what the kernel counted of that log since the last
boot. A reading records how much of the log it saw, so a point can be compared
with what the machine really did. All instanced metrics are one, a mounted disk.

`Server` adds one request of the query API beside the scrape tasks: it resolves
the series it wants from the host map under one lock, lets go, and asks the store
for one after the other while scrapes go on. `TimeSeries`' promise (an insert is
atomic) is what `Commit` relies on.

`Uptime` is the timing of one task against the staleness threshold: the ticker
with `MissedTickBehavior::Delay`, the request's timeout, the time an insert
takes, and the age of the last success. Time is discrete and only differences
are kept, so the task runs for ever in a finite model. `missed` counts the failures
since the last success; `late` remembers that a scrape was still under way when the
next was due.

| Run | Question | Bounds |
|---|---|---|
| `scrape` | CPU points are exact whatever fails in between (`CpuExact`); targets recover (`Recovers`) | 1 target, cpu only, 4 events in the log |
| `server_query` | `AnswerCovers`, `NoEmptyInstance`, `InstancesBacked` | 2 targets, disk only, 1 mount, at most 3 series |
| `uptime` | `OneMissTolerated` | interval 6, timeout 5, insert up to 4 |
| `scrape_interval` | violation, see findings | both categories, 4 events |

Four events are the least with which a reboot takes one counter back while the
other outgrows its old value (work, read, boot, idle, idle, read), so that the
total alone does not show the reset. The disk has no memory between scrapes, so
it is left to `server_query`, where mounts come and go beside a request. Tasks of
different hosts share only the map, whose entries are their own; two hosts show
that they do not mix.

Fairness: each task is weakly fair (`main.rs:69-77` spawns it and it loops): a
tick comes and a request or insert ends. `Recovers` asks it only of behaviours
in which failures end.

`OneMissTolerated` assumes nothing of the limits. A host is up from a success until its
next scrape ends; if that one fails, until the one after it has itself lasted half an
interval, since then 2.5 intervals have passed. Request and insert of `uptime` take
longer than the interval together, so that scrapes overrun their deadline there: such a
scrape delays the tick after it (`MissedTickBehavior::Delay`) and the ages count from
when answers came, so two successes after it are needed before the property speaks
again. Without the half interval it would be false (see findings).

Two exceptions stand in `CpuExact`: an interval with a reboot in it, whose
counters may have outgrown their old values unnoticed (`cpu.rs:72`, where a
negative delta is the only sign of a reset), and a reading without the cpu
fields (finding below).

Two things the runs brought up have no run of their own. A failed insert returns
at `scrape.rs:117-120` with the previous snapshot taken, although the comment at
`scrape.rs:102` says it is replaced either way, so the scrape after it yields no
CPU point (`CpuExact` allows this when the host had an error). And the instances
a restart forgot are learned again from later scrapes, not from the store
(`scrape.rs:16-18`): the stored points of a mount that is gone stay out of reach,
which is why `InstancesBacked` speaks of what this process stored.

## Collector and metrics

`Collector` is one scrape of memory, disk and temperature, from the kernel to the
server's points. `Start` refuses a configuration without a category, `Scrape` checks the
token, each `Collect...` step is one turn of the loop in `metrics()`, with what the
kernel shows chosen at that moment, `CollectFails` is the error branch, and `Respond`
sends the flat map and applies each category's `process` to it. `wire` is that map,
`todo` the enabled categories still to collect, of which `Turn` takes the first in the
order of `METRICS`.
Keys are a name and a text, split at the first colon. The text of `/proc/mounts`, paths,
chip names and labels are sequences of ASCII codes, so that the split into lines and fields, the escapes and the
composed names of sensors are those of the program. `ProcMounts` is the kernel's text
for a mount table (external): it escapes space, tab, line feed and backslash.
`SelectMounts` goes from the text: `Lines`, then `Fields`, which splits at any of the
five blanks of `split_ascii_whitespace`, passes over lines of fewer than three, and
unescapes the path last. `seen` is a history: what each category was shown.

`CollectorAssumption` says what the kernel can show: chips, and the sensors of one chip,
have indices of their own, since they are directories and files of one parent; indices
have one digit, a bound of the model that keeps `hwmon<n>` and `temp<n>` two codes; no
driver has a slash or a bracket in its name. A label may hold anything.

| Run | Question | Bounds |
|---|---|---|
| `collector` | `SensorsApart`, `DisksOnce`, `PointsStorable`, `CategoriesIndependent` | 4 configurations; mount tables of up to 2 of 6 lines; 2 sets of sizes; up to 3 chips of 2 sensors, the first two named alike, differently or not at all |

Two lines are enough for a device twice and for a network mount before a local one of
the same device. One path has a space and a line feed, which would break its line in
two if they were not escaped; one reads `\040` in full, an escaped backslash before
digits; one has a form feed. Three chips have two of one name beside another, and one
of a name beside two without.

`DisksOnce` is of tables whose fields are not empty and have no form feed or carriage
return, the blanks that split a field but that the kernel leaves as they are.
`SensorsApart` says of every sensor that shares its label with no other of its chip that
it has its own series, and of all that no series mixes chips. Both exceptions contradict
the documentation (see findings).

`DiskPoints` and `Used` clamp, `HasSize` guards each percentage: `PointsStorable` is
what the store's NOT NULL column needs of them. Percentages are truncated to whole
numbers, which keeps what the property asks: whether there is one, and its range;
temperatures to whole degrees, in the model as in `SensorsApart`.

Observation. A chip that appears later with the name of another renames the other's
instances (`temperature.rs:85`).

## Lifecycle

`Lifecycle` is the server's process: `run` and `serve` (`phase`), one blocking job per
owner (each scrape task, the maintenance task, one request), the two mutexes, and
SQLite's log. A job is queued, on a thread, or over with a result its task has not yet
taken. `Commit`, `Return`, `Panic` and `LockPanic` are a job's ends; `Resume` is the task
after its await. A panic poisons the mutex its job held; a scrape task whose job
panicked panics itself (`storage.rs:231`) and is gone, while the maintenance task logs it
(`storage.rs:301-305`). `Drained`, `Dropped`, `Close`, `Exit` are the stop in the order
of `main.rs:51-57`: tasks are dropped where they await, jobs on a thread are waited for,
then the final checkpoint. `Kill` and `PowerLoss` can come at any point, and `Open` starts
again. `Targets` gives the configuration: `Valid` is `Config::validate`, `Joined` and
`SplitList` are how the dashboard sends names and the API takes them apart.

External, from how the code uses them: tokio's runtime (dropping it drops tasks at their
awaits, drops queued blocking jobs and waits for those that run) and SQLite with
`synchronous=NORMAL` (the log is synced by checkpoints only; a loss of power leaves a
prefix; a checkpoint may come with any commit, as `wal_autocheckpoint` counts pages).

| Run | Question | Bounds |
|---|---|---|
| `lifecycle` | `AckedKept`, `CleanStopDurable`, `PanicContained`, `RequestResolves`, `StopEnds`, `StoreLossShown` | 2 targets, 2 writing jobs over all starts, 1 request at a time, 5 target lists |

Two writes are enough for one acknowledged and synced before one that is not, and for
two owners to hold results at a stop. A request's mutex is the inserts', so that a
request's panic reaches a scrape task.

Fairness: the stop, the start, every job and every task go on (`Serve`, `Stop`,
`JobStep`, `Resume`), and time passes (`Lapse`). That anyone starts the server, asks,
signals, or that a job succeeds is not assumed. `StopEnds` leaves out connections that
never end: axum waits for those, and the model's request always ends.

Observation. `validate` accepts a name with blanks around it (`config.rs:40` looks at the
trimmed name only), and the API trims what it splits (`api.rs:130`): such a target is
scraped, but no request can name it, although `api.rs:96-98` takes validation to make the
split unambiguous. `RequestResolves` states the case without such blanks, for targets
picked in any order.

## Dashboard

`Dashboard` is one page. The browser runs one handler at a time, so a step is one
handler, or what follows one answer of `fetch`. State: the view (`hosts`,
`range`), the URL (`location`, the hash written last `ownHash`, the hashchange
`events` on their way), the grid (`rendered`, `panels`, the footnote `note`), the
refreshes under way (`flights`), `refreshTimer`, `document.hidden` and whether two
fingers are on a chart.

Every change of the view goes through `ApplyState`, as in `app.js:539-550`: a new
selection bumps the generation and rebuilds the grid, anything else keeps it, and
a refresh follows at once. `Commit` is `commit` of `state.js`: it writes the hash,
which queues an event unless the entry is replaced or the hash is the same, and
applies. `Start`, `Toggle`, `Select`, `PickRange`, `Drag` and `GestureEnd` are its
callers; `Navigate` and `HashChange` are the history and its handler. `Refresh`
starts a flight, `Answer` is one panel's answer, in any order and possibly an error,
`Finish` writes the footnote and sets the timer, `Ring` is the timer.

Abstractions: a range is a member of `Relative` or `Pinned`, so the arithmetic of
zooming and panning is left out; a generation is only ever compared with the
present one, so a flight keeps whether it is still current; a chart is the hosts and
the range it was loaded for; the list of hosts the server gives is any subset in
its order; hosts' names hold no spaces, which join a selection to its signature
(`app.js:543`), and links lead to views as the page itself writes them, with a
window `setAbsolute` does not clamp.

| Run | Question | Bounds |
|---|---|---|
| `dashboard` | `ChartsOfSelection`, `NoteTells`, `ChainUnbroken`, `UrlFollowed`, `KeepsRefreshing` | 2 hosts, a live and a pinned range, 1 panel, 2 refreshes at once, 1 undelivered event |
| `dashboard_back` | violation, see findings | the same, 2 undelivered events |
| `dashboard_window` | violation, see findings | the same, requests do not fail |

Two hosts give selections of equal size and of both orders; two refreshes at once
are the least that can overlap, within a generation and across two; one event on
its way is enough to be overtaken by later writes.

Fairness: the browser ends every request, one way or the other, and delivers every
event and timer. Nothing is asked of the user. `KeepsRefreshing` speaks of views
that stay live on a visible tab.

Two observations without a run. A tab that comes back is refreshed at once only
`if (!refreshTimer)` (`app.js:586`), which is never so between refreshes, since
putting the timer off sets a new one: it waits out an interval instead. And
`/api/hosts` lists the hosts whose first scrape has ended (`api.rs:57-72`), so a
page opened just after the server started drops configured hosts from its link
(`app.js:601-604`).

## Proofs

All proofs are for every value of the constants, under the named assumptions of the
modules: non-negative bounds and distinct markers (`StorageAssumption`,
`ScrapeAssumption`, `ServerAssumption`, `UptimeAssumption`, `DashboardAssumption`),
target lists that are lists of names (`LifecycleAssumption`), windows and milliseconds
that are not 0 and readings that are patterns (`PipelineAssumption`), and sources of the
kinds described above (`CollectorAssumption`).

* `StorageProofs`. `TypeOK`, `LastWriteVisible`, `CacheSound` and
  `ChunksDisjoint` from one inductive invariant, `IInv`: the types, `Committed`
  (ids resolve to distinct keys, rows and chunks hold what `last` says unless a
  newer row does, chunks have points inside their bounds and one window, and do
  not overlap), `InTx` (the same for an open insert's private copy) and
  `InMerge` (an open merge holds exactly what its window held, which nobody else
  can have changed). `LastWriteVisible` alone is not inductive: it says nothing
  of what an open transaction will commit. `QueryExact` from `QInv`, which adds
  that between its statements a query holds, for every second from the horizon on
  that is not in a window moved since, exactly what the chunks hold of it; the
  exception for moved windows is what `storage_race` shows to be needed. Last, the
  engine implements `TimeSeries`: `RInv` adds that an open insert changes `last`
  only at its own host and second, which makes its commit one `Write`; retention is
  `Expire` or a stutter, damage `Rot`, all else a stutter.
* `ServerProofs`. Of `Scrape`: `TypeOK`, `CpuExact` (with its two exceptions, reboots and
  readings without cpu fields) and `InstancesBacked`. `CpuInv` says
  that a kept reading is the one of the last success, that every reading in flight is
  faithful to the log, and that only an error separates a missing reading from a kept
  one; `InstInv` ties a task's points to the stored series. The lemmas on counters say
  that the difference of two counters without a boot in between is what was done in
  between. Of `Server`: `AnswerCovers` and `NoEmptyInstance`, from the request's
  invariant: what is due is found or still to do.
* `UptimeProofs`. `OneMissTolerated` for every interval, timeout and insert time, those
  longer than the interval included, from a bound on the age in each phase
  (`AgeBounded`) that holds while `late` is 0.
* `DashboardProofs`. `ChartsOfSelection`, `NoteTells`, `ChainUnbroken` and
  `UrlFollowed`. One lemma (`Steps`) says that every step applies a state, is a
  step of a load or of the timer, or touches neither view nor grid; `GridInv` adds
  that a grid and every current load were made for the present selection, `UrlInv`
  that only the hash of a view comes with an event. `TypeOK` from `Typed`, which adds
  that a page has written no hash before its first view; under it, that the filter of
  a list of hosts is a list of hosts.
* `LifecycleProofs`. `TypeOK`, `AckedKept`, `CleanStopDurable`, `PanicContained` and
  `RequestResolves`, for any target lists and any number of jobs. The middle three are
  not inductive: each relates the disk or a mutex to jobs under way. `Kept` adds that
  what a task has yet to learn of its finished insert is already in the log or forfeited
  to a loss of power, `Folded` that the final checkpoint is the last write of its
  process, `Contained` that a panicked job, a dead task or a poisoned mutex of the store
  has an owner who panicked there.
  `RequestsResolve` is about the loops of `Targets`, whatever the names: names that are
  not empty and have no comma are the pieces of their join, and the loop that trims and
  drops repeats leaves names that are trimmed and distinct as they are.
* `PipelineProofs`. `QuantizeRounds`: for every exponent and mantissa width and every
  number of bits kept, and every pattern, the bit arithmetic of `quantize` gives what
  `Rounds` says, by cases on carry, tie and range. `TypeOK` and `StoredRounded` from
  `IInv`: a raw row is the rounded newest reading of its second; a chunk lies in its
  window, and a point of it that no raw row overrides is the newest; all an open
  compaction holds is both. `SplitKeepsRun` (the runs pushed and those still to encode
  are, in order, the run the window was read as) and `AxisCovers` for every request.
  `StoredOnce`, from these: a commit leaves in its chunks every reading it merged, at
  one place each, so that no second is ever lost, and none is twice among the chunks.
  `AnswerExact` rests on it: the points read from the chunks are a run with each second
  once, in order (`ChunkPointsRun`), so merging it with the raw rows gives the run of
  both less what a raw row overrides (`Merging`), which is the newest reading of every
  second due (`MergedDue`); a bucket opened in that order holds all of its readings
  (`BucketsHold`) and is put at its place of the axis (`ValuesHold`).
* `CollectorProofs`. All of `Collector`'s properties: `TypeOK`, `CategoriesIndependent`,
  `PointsStorable`, `DisksOnce` and `SensorsApart`, for every mount table, set of chips
  and configuration. They speak of the points of a finished request; the inductive
  `IInv` says of an unfinished one that the flat map agrees, on each category's own
  names, with the map that category gives alone. The lemmas under it: texts that are not
  empty and hold no mark, each ended by one, are split at the marks into those texts; an
  escaped field holds no blank and a row no line feed, so lines and fields are those the
  kernel wrote; `unmangle_octal` undoes the kernel's escapes for every path; the loop of
  `select_mounts` keeps the
  first mount of each local device; the sensors' order is a listing of all of them; a
  composed name `chip[hwmon<n>]/label` comes of one chip only, since its first slash
  and bracket split it, and of one sensor where the label is its own; a percentage is in
  its range.

Recursive functions and folds over sequences are reasoned about without induction: the
least position at which a claim fails is taken (numbers are well founded) and shown not
to exist. `LoopProofs` does so once for what the proofs share: the steps of a loop can be
iterated (`Iterate`), `FlattenSeq` lays its runs out one after the other (`Flat`), and
`FoldLeft` with any step goes through its sequence (`ResultMore`: one more element is one
more step). `Unmangle` in `CollectorProofs`, `MergeRuns` in `PipelineProofs` and `Among`
in `DashboardProofs` are done the same way.

Only model-checked is liveness (`EventuallyCompacted`, `EventuallyExpired`, `Recovers`,
`KeepsRefreshing`, `CompactionEnds`, `StopEnds`, `StoreLossShown`): it rests on fairness
and `ENABLED`, which the prover does not reason about.

## Findings

Runs that end in a violation, each of one property a comment of the code states:

* `storage_race`: a query reads chunks and samples in two autocommit `SELECT`s
  (`storage.rs:406-438`). A window compacted between them is in neither, so points
  vanish for one answer. `storage.rs:74-75` wants a query not to notice. Outside
  windows that move during the query, `QueryExact` holds.
* `scrape_interval`: a previous reading whose cpu category had failed counts as
  zero counters (`cpu.rs:66-70`): the next point is the average since boot.
* `dashboard_back`: applying a navigated hash does not forget the hash written last
  (`state.js:43`, `app.js:577-583`). Pick a host, go Back, go Forward: the hash is the
  page's own last, the event is skipped, and the URL and the page disagree.
* `dashboard_window`: the generation changes with the selection only
  (`app.js:544-548`). An answer for the previous range that is late overwrites the
  chart of the new one (`app.js:285`), until the next refresh or, on a pinned window,
  for good.

Three more, without a run of their own: a passing run's property leaves them out by an
exception it names, and TLC refutes it at once when the exception is dropped.

* Two readable sensors of one chip with one label have one name
  (`temperature.rs:114-117`; only chips of one name are qualified, `:85`) and become one
  series, of the later reading. This contradicts "one series per sensor"
  (`temperature.rs:6`) and "every readable sensor is reported" (`temperature.rs:11-12`;
  `config.rs:50-51` of the collector and `examples/collector.toml` say the same). The
  kernel does not keep labels of a chip distinct. The exception is `Alone` in
  `SensorsApart`.
* `select_mounts` splits a line at every ASCII blank (`disk.rs:109`), among them form feed
  and carriage return, which the kernel does not escape. A mount whose path or device has
  one falls into the wrong fields and is left out, although `disk.rs:102-104` picks the
  first mount of each device with an allowlisted type. The exception is `LegibleRow` in
  `DisksOnce`.
* "2.5 tolerates one missed scrape without flapping" (`scrape.rs:22-23`). With the
  defaults, an interval of 15 s, a timeout of 5 s (`config.rs:55-61`) and up to 5 s of
  waiting for the database's lock (`storage.rs:160`), a scrape that answers at once, one
  that fails and one whose request and insert together take more than half an interval
  are more than 37.5 s apart, and the host is shown as down although only one scrape was
  missed. The exception is `Young` in `OneMissTolerated`.

## Not modelled

* Overflow of the API's arithmetic by extreme `start`, `end` or `step` (`api.rs:172, 207`).
* How well tsz compresses, and the tsz library itself: a blob is the run it encodes.
* Steps of the wall clock against the staleness test (`scrape.rs:30`): `Uptime` counts
  elapsed time.
* When a tab that comes back is refreshed (`app.js:586`), and drawing in the browser:
  chart scales, gestures' arithmetic, text.
* TOML, JSON and clap; the text of `/proc` files other than mounts, and of a mount table
  that is not UTF-8, which cannot be read (`CollectFails`); the collector's
  `/healthz`; the embedded files (`dashboard.rs`), which have no state; benchmarks and
  packaging.
* A deferred transaction that reads before it writes is what `BEGIN IMMEDIATE` avoids;
  the model has no SQLite beneath it to show that.

## Plan

Done: all modules of the inventory, and a proof of every safety property the passing runs
check, of the refinement by `Storage` and of `StoredOnce`. Next, for proofs:

1. What liveness rests on besides `ENABLED`: that each fair step lowers a measure
   (`CompactionEnds`: the points still to encode; `StopEnds`: the stages left).
2. That a query of `Storage` during which no window moves answers what the abstract
   store held at one moment of it.
