------------------------------- MODULE Scrape -------------------------------
(***************************************************************************)
(* Scraping: one task per target (crates/silph-server/src/scrape.rs) asks  *)
(* a collector (crates/silph-collector/src/lib.rs) for raw readings, turns *)
(* two consecutive readings into points (crates/silph-core/src/metrics),   *)
(* has the store insert them, and then updates the host state the query    *)
(* API reads.  A step below runs from one await or lock to the next.       *)
(*                                                                         *)
(* The machine a collector runs on is the log of what its CPU did; its     *)
(* counters are what the kernel counted of that log since the last boot.   *)
(* All instanced metrics are one, the usage of a mounted disk.  An Option  *)
(* is a set of at most one element.                                        *)
(***************************************************************************)
EXTENDS Integers, Sequences, FiniteSetsExt

CONSTANTS
    Host,     \* the configured targets
    Mount,    \* instances: the mount points of a machine
    Cpu,      \* the one series that has no instance
    Enabled,  \* the categories the collectors' configuration enables
    MaxWork   \* bound: events in the log of one machine

Label  == Mount \cup {Cpu}
Series == Host \X Label
Event  == {"busy", "idle", "boot"}

\* What one answer holds; `at' (history) is how much of the machine's log
\* it has seen.  Without the cpu fields every counter reads as zero.
Reading == [at : Nat, cpu : BOOLEAN, busy : Nat, idle : Nat,
            disks : SUBSET Mount]
Usage   == [busy : Nat, idle : Nat]
Points  == [cpu : SUBSET Usage, disks : SUBSET Mount]

\* scrape.rs HostState.  `lastOk' is last_ok_ms, as the reading received
\* then; `error' whether last_error holds one.
HostState == [lastRaw : SUBSET Reading, lastOk : SUBSET Reading,
              error : BOOLEAN, instances : SUBSET Mount]

ASSUME ScrapeAssumption ==
    /\ Cpu \notin Mount
    /\ Enabled \subseteq {"cpu", "disk"}
    /\ MaxWork \in Nat

VARIABLES
    log,      \* per machine, what its CPU did
    mounts,   \* per machine, what is mounted
    task,     \* per target, where its scrape task is
    hosts,    \* the shared map from target name to HostState
    stored,   \* the series the store has committed points of
    trouble,  \* whether requests, inserts and processes can still fail
    fresh     \* history: the series this process has committed points of

vars == <<log, mounts, task, hosts, stored, trouble, fresh>>

Waiting == [op |-> "waiting"]

Task ==
    {Waiting} \cup [op : {"asking"}]
      \cup [op : {"answered"}, curr : Reading]
      \cup [op : {"storing", "finishing"}, curr : Reading, points : Points]

TypeOK ==
    /\ log \in [Host -> Seq(Event)]
    /\ mounts \in [Host -> SUBSET Mount]
    /\ task \in [Host -> Task]
    /\ DOMAIN hosts \subseteq Host
    /\ hosts \in [DOMAIN hosts -> HostState]
    /\ stored \in SUBSET Series
    /\ trouble \in BOOLEAN
    /\ fresh \in SUBSET stored

Init ==
    /\ log = [h \in Host |-> <<>>]
    /\ mounts \in [Host -> SUBSET Mount]
    /\ task = [h \in Host |-> Waiting]
    /\ hosts = [h \in {} |-> {}]
    /\ stored = {}
    /\ trouble = TRUE
    /\ fresh = {}

-----------------------------------------------------------------------------
(* The collector: every category that can be read, counters as the kernel  *)
(* keeps them.                                                             *)

\* What the kernel has counted of event e, n events into log s: those
\* since the last boot.
Counter(s, n, e) ==
    Cardinality({i \in 1 .. n : s[i] = e /\ \A j \in i .. n : s[j] # "boot"})

\* What there is to read of the enabled categories.
Readable(h) == IF "disk" \in Enabled THEN mounts[h] ELSE {}

Read(h, cpu, disks) ==
    LET n == Len(log[h])
    IN  [at |-> n, cpu |-> cpu,
         busy |-> IF cpu THEN Counter(log[h], n, "busy") ELSE 0,
         idle |-> IF cpu THEN Counter(log[h], n, "idle") ELSE 0,
         disks |-> disks]

\* A category that fails, or is not enabled, is left out of the answer; so
\* is a mount that cannot be read.
Collect(h) ==
    /\ task[h].op = "asking"
    /\ \E cpu \in BOOLEAN, disks \in SUBSET Readable(h) :
         /\ cpu => "cpu" \in Enabled
         /\ ~trouble => ("cpu" \in Enabled => cpu) /\ disks = Readable(h)
         /\ task' = [task EXCEPT ![h] = [op |-> "answered",
                                         curr |-> Read(h, cpu, disks)]]
    /\ UNCHANGED <<log, mounts, hosts, stored, trouble, fresh>>

-----------------------------------------------------------------------------
(* Metric::process: points from the previous and the current reading.      *)

\* Cpu::process: the counters' deltas; a negative one means a reset.
Delta(prev, curr) == [busy |-> curr.busy - prev.busy,
                      idle |-> curr.idle - prev.idle]

\* (Mutant first: a reset is only seen in the total.)
UsableTotal(d) == d.busy + d.idle > 0
Usable(d) == /\ d.busy + d.idle > 0
             /\ d.busy >= 0
             /\ d.idle >= 0

Process(prev, curr) ==
    [cpu   |-> {d \in {Delta(p, curr) : p \in prev} : Usable(d)},
     disks |-> curr.disks]

SeriesOf(h, points) ==
    {h} \X (points.disks \cup (IF points.cpu = {} THEN {} ELSE {Cpu}))

-----------------------------------------------------------------------------
(* scrape_loop and scrape_once.                                            *)

Default == [lastRaw |-> {}, lastOk |-> {}, error |-> FALSE, instances |-> {}]

\* state_for: the host's entry, created when it is not there yet.
StateFor(h) == IF h \in DOMAIN hosts THEN hosts[h] ELSE Default

SetState(h, state) ==
    hosts' = [g \in DOMAIN hosts \cup {h} |-> IF g = h THEN state ELSE hosts[g]]

Ask(h) ==
    /\ task[h].op = "waiting"
    /\ task' = [task EXCEPT ![h] = [op |-> "asking"]]
    /\ UNCHANGED <<log, mounts, hosts, stored, trouble, fresh>>

Fail(h) ==
    /\ SetState(h, [StateFor(h) EXCEPT !.error = TRUE])
    /\ task' = [task EXCEPT ![h] = Waiting]
    /\ UNCHANGED <<log, mounts, stored, trouble, fresh>>

\* No connection, a timeout, a status or a body that is not an answer, at
\* any point until the answer is in.
AskFail(h) ==
    /\ trouble
    /\ task[h].op \in {"asking", "answered"}
    /\ Fail(h)

\* (Mutant first: instances are learned before the insert.)
ReceiveLearning(h) ==
    /\ task[h].op = "answered"
    /\ LET curr   == task[h].curr
           points == Process(StateFor(h).lastRaw, curr)
       IN  /\ task' = [task EXCEPT ![h] = [op |-> "storing",
                                           curr |-> curr, points |-> points]]
           /\ SetState(h, [StateFor(h) EXCEPT
                             !.lastRaw = {}, !.instances = @ \cup points.disks])
    /\ UNCHANGED <<log, mounts, stored, trouble, fresh>>

\* The previous reading is taken, not copied; with nothing to store the
\* insert is left out.
Receive(h) ==
    /\ task[h].op = "answered"
    /\ LET curr   == task[h].curr
           points == Process(StateFor(h).lastRaw, curr)
           op     == IF SeriesOf(h, points) = {} THEN "finishing" ELSE "storing"
       IN  task' = [task EXCEPT ![h] = [op |-> op, curr |-> curr,
                                        points |-> points]]
    /\ SetState(h, [StateFor(h) EXCEPT !.lastRaw = {}])
    /\ UNCHANGED <<log, mounts, stored, trouble, fresh>>

\* Store::insert: all points of the scrape, or none.
Commit(h) ==
    /\ task[h].op = "storing"
    /\ stored' = stored \cup SeriesOf(h, task[h].points)
    /\ fresh' = fresh \cup SeriesOf(h, task[h].points)
    /\ task' = [task EXCEPT ![h].op = "finishing"]
    /\ UNCHANGED <<log, mounts, hosts, trouble>>

InsertFail(h) ==
    /\ trouble
    /\ task[h].op = "storing"
    /\ Fail(h)

\* The host's state after a scrape that succeeded.
\* (Mutants first: the reading is kept only when it gave points; the
\* instances are those of the last scrape; the error stays.)
SucceededNonEmpty(state, curr, points) ==
    [state EXCEPT !.instances = @ \cup points.disks, !.lastOk = {curr},
                  !.error = FALSE,
                  !.lastRaw = {r \in {curr} : points.cpu # {} \/ points.disks # {}}]

SucceededForgetting(state, curr, points) ==
    [state EXCEPT !.instances = points.disks, !.lastOk = {curr},
                  !.error = FALSE, !.lastRaw = {curr}]

SucceededWithError(state, curr, points) ==
    [state EXCEPT !.instances = @ \cup points.disks, !.lastOk = {curr},
                  !.lastRaw = {curr}]

Succeeded(state, curr, points) ==
    [state EXCEPT !.instances = @ \cup points.disks, !.lastOk = {curr},
                  !.error = FALSE, !.lastRaw = {curr}]

Finish(h) ==
    /\ task[h].op = "finishing"
    /\ SetState(h, Succeeded(StateFor(h), task[h].curr, task[h].points))
    /\ task' = [task EXCEPT ![h] = Waiting]
    /\ UNCHANGED <<log, mounts, stored, trouble, fresh>>

-----------------------------------------------------------------------------
(* The environment.                                                        *)

\* A monitored machine works, idles or reboots; mounts come and go.
Work(h, e) ==
    /\ Len(log[h]) < MaxWork
    /\ log' = [log EXCEPT ![h] = Append(@, e)]
    /\ UNCHANGED <<mounts, task, hosts, stored, trouble, fresh>>

Remount(h) ==
    /\ \E ms \in SUBSET Mount : mounts' = [mounts EXCEPT ![h] = ms]
    /\ UNCHANGED <<log, task, hosts, stored, trouble, fresh>>

\* The server stops, at any point of any scrape, and starts again: the host
\* map and the tasks are gone, what is stored stays.
Restart ==
    /\ trouble
    /\ task' = [h \in Host |-> Waiting]
    /\ hosts' = [h \in {} |-> {}]
    /\ fresh' = {}
    /\ UNCHANGED <<log, mounts, stored, trouble>>

\* From here on nothing fails any more.
Calm ==
    /\ trouble
    /\ trouble' = FALSE
    /\ UNCHANGED <<log, mounts, task, hosts, stored, fresh>>

ScrapeStep(h) ==
    \/ Ask(h)
    \/ Collect(h)
    \/ AskFail(h)
    \/ Receive(h)
    \/ Commit(h)
    \/ InsertFail(h)
    \/ Finish(h)

Machine ==
    \/ \E h \in Host, e \in Event : Work(h, e)
    \/ \E h \in Host : Remount(h)

Environment ==
    \/ Machine
    \/ Restart
    \/ Calm

Next ==
    \/ \E h \in Host : ScrapeStep(h)
    \/ Environment

Spec == Init /\ [][Next]_vars

\* Every task runs in a loop on the runtime (main.rs:69-77): a tick always
\* comes, a request always ends.
Fairness == \A h \in Host : WF_vars(ScrapeStep(h))

FairSpec == Spec /\ Fairness

-----------------------------------------------------------------------------
(* Safety.                                                                 *)

BootBetween(h, r, c) == \E i \in r.at + 1 .. c.at : log[h][i] = "boot"

\* What the machine did between two readings, and the point that makes.
Done(s, m, n, e) == Cardinality({i \in m + 1 .. n : s[i] = e})

Truth(h, r, c) == [busy |-> Done(log[h], r.at, c.at, "busy"),
                   idle |-> Done(log[h], r.at, c.at, "idle")]

TruePoint(h, r, c) == {u \in {Truth(h, r, c)} : u.busy + u.idle > 0}

Processed(h) == task[h].op \in {"storing", "finishing"}

\* The CPU point of a scrape is what the machine did since the last scrape
\* that succeeded, whatever failed or restarted in between (cpu.rs:3-5):
\* no work is counted twice or for another interval.  If the scrape before
\* succeeded the point is there; a failed insert may cost it.  Readings on
\* either side of a reboot, or without the cpu fields, are left out; those
\* give no negative share.
CpuExact ==
    \A h \in Host : Processed(h) =>
       LET curr   == task[h].curr
           points == task[h].points.cpu
       IN  /\ \A u \in points : u.busy >= 0 /\ u.idle >= 0
           /\ StateFor(h).lastOk = {} => points = {}
           /\ \A r \in StateFor(h).lastOk :
                 r.cpu /\ curr.cpu /\ ~BootBetween(h, r, curr) =>
                    /\ points \subseteq TruePoint(h, r, curr)
                    /\ StateFor(h).error \/ points = TruePoint(h, r, curr)

\* "a busy percentage from the delta between consecutive scrapes"
\* (cpu.rs:3-5), with no exception for a scrape whose cpu category failed.
CpuIsInterval ==
    \A h \in Host : Processed(h) =>
       LET curr == task[h].curr
       IN  \A r \in StateFor(h).lastOk :
              ~BootBetween(h, r, curr) =>
                 task[h].points.cpu \subseteq TruePoint(h, r, curr)

Disks(h, series) == {m \in Mount : <<h, m>> \in series}

\* The instances a query fans out over have points behind every one, and
\* between scrapes they are all this process has stored (scrape.rs:16-18),
\* though mounts come and go and inserts fail.
InstancesBacked ==
    \A h \in Host :
       /\ StateFor(h).instances \subseteq Disks(h, stored)
       /\ task[h].op = "waiting" => Disks(h, fresh) \subseteq StateFor(h).instances

-----------------------------------------------------------------------------
(* Liveness.                                                               *)

\* Once nothing fails any more, every target is known and without an error,
\* after any restarts and failures before.
Recovers ==
    \A h \in Host :
       <>[]~trouble => <>[](StateFor(h).lastOk # {} /\ ~StateFor(h).error)
=============================================================================
