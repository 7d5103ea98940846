----------------------------- MODULE Lifecycle ------------------------------
(***************************************************************************)
(* The life of the silph-server process (crates/silph-server/src/main.rs), *)
(* from its configuration to its exit and its next start: the tokio tasks  *)
(* that scrape and maintain, requests, the blocking jobs they await, the   *)
(* mutexes those take, a panic in one, the stop on a signal, and what a    *)
(* crash of the process or a loss of power leaves of SQLite's log.         *)
(*                                                                         *)
(* Storage.tla has what a job does to the tables; here a job is one commit *)
(* or one read.  tokio and SQLite are modelled from how main.rs and        *)
(* storage.rs use them.                                                    *)
(***************************************************************************)
EXTENDS Targets, FiniteSets

CONSTANTS
    Config,       \* the target lists a configuration file may hold
    MaxTargets,   \* bound: targets in one of them
    MaxWrites     \* bound: insert and maintenance jobs in one behaviour

ASSUME LifecycleAssumption ==
    /\ MaxTargets \in Nat /\ MaxWrites \in Nat
    /\ Config \subseteq Seq(Seq(STRING))
    /\ \A c \in Config : Len(c) <= MaxTargets

VARIABLES
    phase,      \* where run() and serve() are
    config,     \* config.targets, as names
    job,        \* the blocking job each owner awaits
    poisoned,   \* the mutexes poisoned by a panic
    recent,     \* the targets whose last success still counts as up
    log,        \* commits in the database and its WAL, in order
    durable,    \* how many of them a checkpoint has synced
    folded,     \* whether the final checkpoint has succeeded
    writes,     \* jobs that write, for MaxWrites
    acked,      \* history: inserts a scrape task saw succeed
    forfeited,  \* history: commits a loss of power could have taken
    panicked    \* history: the owners a job of whom panicked of itself

disk  == <<log, durable, forfeited>>
vars  == <<phase, config, job, poisoned, recent, log, durable,
           folded, writes, acked, forfeited, panicked>>

\* Targets own jobs by their position in the configuration.
Maintenance == 0
Request     == -1
Owner       == Request .. MaxTargets
Scraper     == DOMAIN config

NoJob    == [op |-> "none", write |-> 0]
JobState == [op : {"none", "queued", "running", "done", "failed", "panicked", "dead"},
             write : 0 .. MaxWrites]

Phase   == {"off", "open", "binding", "serving", "draining", "stopping", "closing", "closed"}
Running == phase \in {"binding", "serving", "draining"}   \* tasks are polled

Init ==
    /\ phase = "off" /\ config = <<>>
    /\ job = [o \in Owner |-> NoJob]
    /\ poisoned = {} /\ panicked = {}
    /\ recent = {}
    /\ log = <<>> /\ durable = 0 /\ folded = FALSE
    /\ writes = 0 /\ acked = {} /\ forfeited = {}

-----------------------------------------------------------------------------
(* Starting                                                                *)

\* The configuration validates, Store::open succeeds and the runtime starts;
\* otherwise, or with --check-config, the process ends with nothing done.  The
\* host map is empty, the mutexes are new.
Open(c) ==
    /\ phase = "off"
    /\ Valid(c)
    /\ phase' = "open" /\ config' = c
    /\ poisoned' = {} /\ panicked' = {} /\ recent' = {}
    /\ folded' = FALSE
    /\ UNCHANGED <<job, writes, acked, disk>>

\* drop(runtime) begins: tasks are dropped where they await, jobs not yet
\* started with them; those on a thread go on.
DropRuntime ==
    /\ phase' = "stopping"
    /\ job' = [o \in Owner |-> IF job[o].op = "running" THEN job[o] ELSE NoJob]
    /\ UNCHANGED <<config, poisoned, recent, folded, writes, acked, panicked, disk>>

\* serve: the maintenance connection opens and the tasks are spawned, or not.
Spawn ==
    /\ phase = "open"
    /\ phase' = "binding"
    /\ UNCHANGED <<config, job, poisoned, recent, folded, writes,
                   acked, panicked, disk>>
SpawnFails == phase = "open" /\ DropRuntime

Bind ==
    /\ phase = "binding"
    /\ phase' = "serving"
    /\ UNCHANGED <<config, job, poisoned, recent, folded, writes,
                   acked, panicked, disk>>
BindFails == phase = "binding" /\ DropRuntime

-----------------------------------------------------------------------------
(* Tasks and their jobs                                                    *)

\* Each connection is behind a mutex of its own: inserts and queries share
\* the application's.  (Mutant first: maintenance shares it too.)
MutexShared(o) == "app"
Mutex(o)       == IF o = Maintenance THEN "maintenance" ELSE "app"

SetJob(o, op) == job' = [job EXCEPT ![o].op = op]

\* spawn_blocking by a scrape with points, or by a maintenance tick; no
\* request is taken after the signal.
Submit(o) ==
    /\ Running
    /\ o \in Scraper \cup {Maintenance}
    /\ job[o].op = "none"
    /\ writes < MaxWrites
    /\ writes' = writes + 1
    /\ job' = [job EXCEPT ![o] = [op |-> "queued", write |-> writes + 1]]
    /\ UNCHANGED <<phase, config, poisoned, recent, folded, acked,
                   panicked, disk>>
Ask ==
    /\ phase = "serving"
    /\ job[Request].op = "none"
    /\ SetJob(Request, "queued")
    /\ UNCHANGED <<phase, config, poisoned, recent, folded, writes,
                   acked, panicked, disk>>

\* A thread takes the job.
Start(o) ==
    /\ Running
    /\ job[o].op = "queued"
    /\ SetJob(o, "running")
    /\ UNCHANGED <<phase, config, poisoned, recent, folded, writes,
                   acked, panicked, disk>>

\* With the log long enough a commit checkpoints it, syncing all of it.
Commit(o) ==
    /\ job[o].op = "running" /\ o # Request
    /\ Mutex(o) \notin poisoned
    /\ log' = Append(log, job[o].write)
    /\ durable' \in {durable, Len(log')}
    /\ SetJob(o, "done")
    /\ UNCHANGED <<phase, config, poisoned, recent, folded, writes,
                   acked, panicked, forfeited>>

\* A read, or a statement that fails.
Return(o, op) ==
    /\ job[o].op = "running"
    /\ Mutex(o) \notin poisoned
    /\ op = "done" => o = Request
    /\ SetJob(o, op)
    /\ UNCHANGED <<phase, config, poisoned, recent, folded, writes,
                   acked, panicked, disk>>

\* A panic drops the transaction and the guard: rollback, and poison.
Panic(o) ==
    /\ job[o].op = "running"
    /\ Mutex(o) \notin poisoned
    /\ poisoned' = poisoned \cup {Mutex(o)}
    /\ panicked' = panicked \cup {o}
    /\ SetJob(o, "panicked")
    /\ UNCHANGED <<phase, config, recent, folded, writes, acked, disk>>

\* lock().unwrap() on a poisoned mutex.
LockPanic(o) ==
    /\ job[o].op = "running"
    /\ Mutex(o) \in poisoned
    /\ SetJob(o, "panicked")
    /\ UNCHANGED <<phase, config, poisoned, recent, folded, writes,
                   acked, panicked, disk>>

\* (Mutant first: an insert's error is dropped.)
SucceededAnyway(op) == op \in {"done", "failed"}
Succeeded(op)       == op = "done"

\* The await returns.  A scrape task records the success, or the error; the
\* join error of a panic makes it panic in turn and ends it.  Maintenance
\* logs either and goes on; a request's handler ends in any case.
Resume(o) ==
    /\ Running
    /\ job[o].op \in {"done", "failed", "panicked"}
    /\ job' = [job EXCEPT ![o] = IF o \in Scraper /\ job[o].op = "panicked"
                                 THEN [NoJob EXCEPT !.op = "dead"] ELSE NoJob]
    /\ IF o \in Scraper /\ Succeeded(job[o].op)
       THEN recent' = recent \cup {o} /\ acked' = acked \cup {job[o].write}
       ELSE UNCHANGED <<recent, acked>>
    /\ UNCHANGED <<phase, config, poisoned, folded, writes, panicked, disk>>

\* The last success is more than 2.5 intervals ago, as HostState::up finds
\* when it is asked.  (Mutant first: the scrape task marks its host down.)
LapsesIfScraped(o) == o \in recent /\ job[o].op # "dead"
Lapses(o)          == o \in recent
Lapse(o) ==
    /\ Lapses(o)
    /\ recent' = recent \ {o}
    /\ UNCHANGED <<phase, config, job, poisoned, folded, writes,
                   acked, panicked, disk>>

-----------------------------------------------------------------------------
(* Stopping                                                                *)

\* SIGINT or SIGTERM.
Signal ==
    /\ phase = "serving"
    /\ phase' = "draining"
    /\ UNCHANGED <<config, job, poisoned, recent, folded, writes,
                   acked, panicked, disk>>

\* serve returns when the requests in flight have been answered.
Drained == phase = "draining" /\ job[Request].op = "none" /\ DropRuntime

\* drop(runtime) waits for the jobs on a thread.  (Mutants first: it waits
\* for no job; for tasks that no one polls to take their results.)
RuntimeGone     == TRUE
RuntimeIdle     == \A o \in Owner : job[o] = NoJob
RuntimeDropped  == \A o \in Owner : job[o].op # "running"
Dropped ==
    /\ phase = "stopping"
    /\ RuntimeDropped
    /\ phase' = "closing"
    /\ job' = [o \in Owner |-> IF job[o].op = "running" THEN job[o] ELSE NoJob]
    /\ UNCHANGED <<config, poisoned, recent, folded, writes,
                   acked, panicked, disk>>

\* Store::close: the final checkpoint, whose failure is ignored.
Close(ok) ==
    /\ phase = "closing"
    /\ "app" \notin poisoned
    /\ phase' = "closed"
    /\ folded' = ok
    /\ durable' = IF ok THEN Len(log) ELSE durable
    /\ UNCHANGED <<config, job, poisoned, recent, log, writes, acked,
                   forfeited, panicked>>

\* The process is gone, and what it held in memory.
Gone ==
    /\ phase' = "off" /\ config' = <<>>
    /\ job' = [o \in Owner |-> NoJob]
    /\ recent' = {} /\ poisoned' = {} /\ panicked' = {}
    /\ UNCHANGED <<writes, acked>>

Exit       == phase = "closed" /\ Gone /\ UNCHANGED <<folded, disk>>
\* close() locks the poisoned mutex and panics.
ClosePanic == phase = "closing" /\ "app" \in poisoned /\ Gone /\ UNCHANGED <<folded, disk>>

\* A kill, or a crash: the system still holds what was written.
Kill == phase # "off" /\ Gone /\ UNCHANGED <<folded, disk>>

\* The machine loses power: of the log, which NORMAL syncs at checkpoints
\* only, a prefix is left.
PowerLoss ==
    /\ Gone
    /\ \E n \in durable .. Len(log) : log' = SubSeq(log, 1, n)
    /\ forfeited' = forfeited \cup {log[i] : i \in durable + 1 .. Len(log)}
    /\ UNCHANGED <<durable, folded>>

-----------------------------------------------------------------------------

JobStep(o) ==
    \/ Start(o)
    \/ Commit(o)
    \/ \E op \in {"done", "failed"} : Return(o, op)
    \/ LockPanic(o)
    \/ Panic(o)

Boot == \E c \in Config : Open(c)
Serve == Spawn \/ SpawnFails \/ Bind \/ BindFails
Stop  == Drained \/ Dropped \/ (\E ok \in BOOLEAN : Close(ok)) \/ Exit \/ ClosePanic

Next ==
    \/ Boot
    \/ Serve
    \/ Ask
    \/ \E o \in Owner : Submit(o) \/ JobStep(o) \/ Resume(o) \/ Lapse(o)
    \/ Signal
    \/ Stop
    \/ Kill
    \/ PowerLoss

Spec == Init /\ [][Next]_vars

\* Threads and the runtime go on, and time passes.  That anyone starts the
\* server, asks or signals is not relied on, nor that a job succeeds.
FairSpec ==
    /\ Spec
    /\ WF_vars(Serve) /\ WF_vars(Stop)
    /\ \A o \in Owner : WF_vars(JobStep(o)) /\ WF_vars(Resume(o)) /\ WF_vars(Lapse(o))

-----------------------------------------------------------------------------

TypeOK ==
    /\ phase \in Phase
    /\ config \in Config \cup {<<>>}
    /\ job \in [Owner -> JobState]
    /\ poisoned \subseteq {"app", "maintenance"}
    /\ recent \subseteq 1 .. MaxTargets
    /\ log \in Seq(1 .. MaxWrites) /\ durable \in 0 .. Len(log)
    /\ folded \in BOOLEAN
    /\ writes \in 0 .. MaxWrites
    /\ acked \cup forfeited \subseteq 1 .. MaxWrites
    /\ panicked \subseteq Owner
    /\ phase \in {"off", "open", "closing", "closed"} => \A o \in Owner : job[o] = NoJob

\* An insert a scrape task has recorded as a success stays in the database,
\* whatever fails, panics, is stopped or killed after it; only a loss of
\* power takes any, and only of those after the last checkpoint
\* (scrape.rs:118-138, storage.rs:147-150, 219-233).
AckedKept == acked \subseteq ToSet(log) \cup forfeited

\* Once the final checkpoint has succeeded nothing is written any more: the
\* database holds all there is without its log, so that a loss of power
\* after a clean stop takes nothing (main.rs:53-56).
CleanStopDurable == phase \in {"closed", "off"} /\ folded => durable = Len(log)

\* A panic of maintenance stays there: a scrape task ends only where an
\* insert or a query has itself panicked (storage.rs:207-208, 226-232, 280-305).
PanicContained ==
    \A o \in Scraper : job[o].op = "dead" => panicked \ {Maintenance} # {}

\* A selection of targets the dashboard makes, in the order they were picked,
\* reaches the query API as the names that were selected, whatever names the
\* configuration was accepted with, so long as none has blanks around it
\* (config.rs:33-35, api.rs:96-98).
RequestResolves ==
    phase = "serving" =>
       \A n \in 0 .. Len(config) : \A chosen \in [1 .. n -> DOMAIN config] :
          LET asked == [k \in 1 .. n |-> config[chosen[k]]]
          IN  IsInjective(chosen) /\ (\A k \in 1 .. n : Trim(asked[k]) = asked[k])
                 => SplitList(Joined(asked)) = asked

\* A server that is stopping, because of a signal or of a failed start, ends:
\* neither jobs that were queued, nor jobs whose task is gone, nor a poisoned
\* mutex keep it (main.rs:51-57, 86-88).
StopEnds == phase \in {"draining", "stopping"} ~> phase = "off"

\* A server that has lost its store to a panic shows it: once the mutex of
\* inserts and queries is poisoned, every target comes to be down for good
\* (storage.rs:229-231, scrape.rs:26-31, 134).
StoreLossShown == \A o \in 1 .. MaxTargets :
    "app" \in poisoned ~> []("app" \in poisoned => o \notin recent)
=============================================================================
