-------------------------- MODULE LifecycleProofs ---------------------------
(***************************************************************************)
(* What the process of silph-server keeps through panics, stops, kills and *)
(* losses of power, for every list of target lists and any number of jobs. *)
(* The properties are Lifecycle's; none of them is inductive by itself:    *)
(* each relates what is left on disk or in a mutex to jobs that are still  *)
(* under way, and the invariants below say what those jobs have done.  The *)
(* last part is about requests: what Targets makes of a list of names.     *)
(***************************************************************************)
EXTENDS Lifecycle, LoopProofs

\* A job that writes has a number of its own choosing from Submit to Resume.
Numbered ==
    \A o \in Owner \ {Request} :
       job[o].op \notin {"none", "dead"} => job[o].write > 0

\* What is done is on disk, or was taken by a loss of power: the inserts
\* acknowledged, and those whose task has not yet seen that they are done.
Written == ToSet(log) \cup forfeited
Kept ==
    /\ acked \subseteq Written
    /\ \A o \in Owner \ {Request} : job[o].op = "done" => job[o].write \in Written

\* The final checkpoint is the last write of its process.
Folded == folded => phase \in {"closed", "off"} /\ durable = Len(log)

\* A panic of the store's own mutex began in an insert or a query.
OfTheStore == panicked \ {Maintenance} # {}
Contained ==
    /\ "app" \in poisoned => OfTheStore
    /\ \A o \in Owner \ {Maintenance} :
          job[o].op \in {"panicked", "dead"} => OfTheStore

IInv == TypeOK /\ Numbered /\ Kept /\ Folded /\ Contained

\* The positions of targets are owners, apart from maintenance and requests.
LEMMA Owners ==
    ASSUME TypeOK
    PROVE  /\ Scraper \subseteq Owner \ {Maintenance, Request}
           /\ Scraper \subseteq 1 .. MaxTargets
           /\ Maintenance \in Owner
           /\ Request \in Owner
<1>1. config \in Seq(Seq(STRING)) /\ Len(config) <= MaxTargets
  <2>1. CASE config \in Config
    BY <2>1, LifecycleAssumption
  <2>2. CASE config = <<>>
    BY <2>2, EmptySeq, LifecycleAssumption
  <2> QED BY <2>1, <2>2 DEF TypeOK
<1>2. DOMAIN config = 1 .. Len(config) /\ Len(config) \in Nat
  BY <1>1
<1> QED
  BY <1>1, <1>2, LifecycleAssumption DEF Scraper, Owner, Maintenance, Request

\* A step of one job changes what became of it and nothing else.
LEMMA JobSet ==
    ASSUME TypeOK, NEW o \in Owner, NEW op, SetJob(o, op),
           op \in {"queued", "running", "done", "failed", "panicked"}
    PROVE  /\ job' \in [Owner -> JobState]
           /\ job'[o].op = op
           /\ \A p \in Owner : job'[p].write = job[p].write
           /\ \A p \in Owner \ {o} : job'[p] = job[p]
  BY DEF TypeOK, SetJob, JobState

\* The log holds numbers of jobs that wrote.
LEMMA LogShape ==
    ASSUME TypeOK
    PROVE  /\ Len(log) \in Nat
           /\ DOMAIN log = 1 .. Len(log)
           /\ \A i \in 1 .. Len(log) : log[i] \in 1 .. MaxWrites
<1>1. log \in Seq(1 .. MaxWrites)
  BY DEF TypeOK
<1>2. /\ Len(log) \in Nat
      /\ log \in [1 .. Len(log) -> 1 .. MaxWrites]
  BY <1>1, LenProperties
<1> QED BY <1>2

\* No job in any form is what "none" means.
LEMMA Jobless ==
    /\ NoJob \in JobState
    /\ NoJob.op = "none"
  BY LifecycleAssumption DEF NoJob, JobState

\* The invariant holds of the initial state.
LEMMA InitIInv == Init => IInv
<1> SUFFICES ASSUME Init PROVE IInv
  OBVIOUS
<1>1. TypeOK
  <2>1. log \in Seq(1 .. MaxWrites) /\ durable \in 0 .. Len(log)
    BY EmptySeq DEF Init
  <2>2. writes \in 0 .. MaxWrites
    BY LifecycleAssumption DEF Init
  <2> QED BY <2>1, <2>2, Jobless DEF Init, TypeOK, Phase
<1>2. Numbered /\ Kept /\ Folded /\ Contained
  BY Jobless DEF Init, Numbered, Kept, Folded, Contained
<1> QED BY <1>1, <1>2 DEF IInv

\* Before and after the tasks there are no jobs.
LEMMA NoJobs ==
    ASSUME TypeOK, phase \in {"off", "open", "closing", "closed"}, NEW o \in Owner
    PROVE  job[o].op = "none"
  BY Jobless DEF TypeOK

-----------------------------------------------------------------------------
(* Each action keeps the invariant.                                        *)

\* A process that ends, in whatever way, leaves no job and no poison.
LEMMA GoneVolatile ==
    ASSUME IInv, Gone
    PROVE  /\ phase' = "off" /\ config' = <<>>
           /\ job' \in [Owner -> JobState]
           /\ \A o \in Owner : job'[o] = NoJob
           /\ Numbered' /\ Contained'
<1>1. /\ job' \in [Owner -> JobState]
      /\ \A o \in Owner : job'[o] = NoJob
  BY Jobless DEF Gone
<1>2. Numbered' /\ Contained'
  BY <1>1, Jobless DEF Gone, Numbered, Contained
<1> QED BY <1>1, <1>2 DEF Gone

\* Exit, ClosePanic and Kill leave the database as it is.
LEMMA InvGone ==
    ASSUME IInv, Gone, UNCHANGED <<folded, disk>>
    PROVE  IInv'
<1>1. TypeOK'
  BY GoneVolatile DEF IInv, TypeOK, Gone, disk, Phase
<1>2. Kept'
  BY GoneVolatile, Jobless DEF IInv, Kept, Written, Gone, disk
<1>3. Folded'
  BY GoneVolatile DEF IInv, Folded, disk
<1> QED BY <1>1, <1>2, <1>3, GoneVolatile DEF IInv

\* What a loss of power takes of the log is forfeited, and of a database that
\* was folded it takes nothing.
LEMMA InvPowerLoss ==
    ASSUME IInv, PowerLoss
    PROVE  IInv'
<1>1. PICK n \in durable .. Len(log) : log' = SubSeq(log, 1, n)
  BY DEF PowerLoss
<1>2. log \in Seq(1 .. MaxWrites) /\ durable \in 0 .. Len(log) /\ Len(log) \in Nat
  BY LenProperties DEF IInv, TypeOK
<1>3. n \in 0 .. Len(log)
  BY <1>2
<1>4. /\ log' \in Seq(1 .. MaxWrites)
      /\ Len(log') = n
      /\ \A i \in 1 .. n : log'[i] = log[i]
  <2>1. \A i \in 1 .. n : log[i] \in 1 .. MaxWrites
    BY <1>2, <1>3, LogShape DEF IInv
  <2> QED BY <1>1, <1>3, <2>1, SubSeqProperties
<1>5. durable' = durable /\ folded' = folded /\ acked' = acked /\ writes' = writes
  BY DEF PowerLoss, Gone
<1>6. Written' = Written
  <2>1. DOMAIN log = 1 .. Len(log) /\ DOMAIN log' = 1 .. n
    BY <1>2, <1>4, LenProperties
  <2>2. ToSet(log) \subseteq Written'
    <3> SUFFICES ASSUME NEW i \in 1 .. Len(log)
                 PROVE  log[i] \in Written'
      BY <2>1 DEF ToSet
    <3>1. CASE i <= n
      BY <3>1, <1>3, <1>4, <2>1 DEF Written, ToSet
    <3>2. CASE i > n
      BY <3>2, <1>2, <1>3 DEF Written, PowerLoss
    <3> QED BY <3>1, <3>2, <1>3
  <2>3. forfeited \subseteq Written'
    BY DEF Written, PowerLoss
  <2>4. forfeited' \subseteq Written
    BY <1>2, <2>1 DEF Written, PowerLoss, ToSet
  <2>5. ToSet(log') \subseteq Written
    BY <1>3, <1>4, <2>1 DEF Written, ToSet
  <2> QED BY <2>2, <2>3, <2>4, <2>5 DEF Written
<1>7. forfeited' \subseteq 1 .. MaxWrites
  <2>1. forfeited \subseteq 1 .. MaxWrites
    BY DEF IInv, TypeOK
  <2>2. \A i \in durable + 1 .. Len(log) : log[i] \in 1 .. MaxWrites
    BY <1>2, LogShape DEF IInv
  <2> QED BY <2>1, <2>2 DEF PowerLoss
<1>8. Gone
  BY DEF PowerLoss
<1>9. TypeOK'
  <2>1. log' \in Seq(1 .. MaxWrites) /\ durable' \in 0 .. Len(log')
    BY <1>1, <1>2, <1>4, <1>5
  <2>2. acked' \cup forfeited' \subseteq 1 .. MaxWrites
    BY <1>5, <1>7 DEF IInv, TypeOK
  <2> QED BY <1>5, <1>8, <2>1, <2>2, GoneVolatile DEF IInv, TypeOK, Gone, Phase
<1>10. Kept'
  BY <1>5, <1>6, <1>8, GoneVolatile, Jobless DEF IInv, Kept
<1>11. Folded'
  BY <1>1, <1>2, <1>4, <1>5, <1>8, GoneVolatile DEF IInv, Folded
<1> QED BY <1>8, <1>9, <1>10, <1>11, GoneVolatile DEF IInv

\* A start finds no job, and forgets the final checkpoint of the last process.
LEMMA InvOpen ==
    ASSUME IInv, NEW c \in Config, Open(c)
    PROVE  IInv'
<1>1. /\ phase = "off" /\ phase' = "open" /\ config' = c
      /\ poisoned' = {} /\ panicked' = {} /\ recent' = {} /\ folded' = FALSE
      /\ UNCHANGED <<job, writes, acked, log, durable, forfeited>>
  BY DEF Open, disk
<1>2. TypeOK'
  BY <1>1 DEF IInv, TypeOK, Phase
<1>3. Numbered' /\ Kept' /\ Folded'
  BY <1>1 DEF IInv, Numbered, Kept, Written, Folded
<1>4. Contained'
  BY <1>1, NoJobs DEF IInv, Contained
<1> QED BY <1>2, <1>3, <1>4 DEF IInv

\* The runtime is dropped while tasks run: the jobs on a thread stay.
LEMMA InvDropRuntime ==
    ASSUME IInv, phase \notin {"off", "closed"}, DropRuntime
    PROVE  IInv'
<1>1. /\ phase' = "stopping"
      /\ UNCHANGED <<config, poisoned, recent, folded, writes, acked, panicked,
                     log, durable, forfeited>>
  BY DEF DropRuntime, disk
<1>2. /\ job' \in [Owner -> JobState]
      /\ \A o \in Owner : job'[o] = job[o] \/ job'[o] = NoJob
  BY Jobless DEF DropRuntime, IInv, TypeOK
<1>3. TypeOK'
  BY <1>1, <1>2 DEF IInv, TypeOK, Phase
<1>4. Numbered' /\ Kept'
  BY <1>1, <1>2, Jobless DEF IInv, Numbered, Kept, Written
<1>5. Folded'
  BY <1>1 DEF IInv, Folded
<1>6. Contained'
  BY <1>1, <1>2, Jobless DEF IInv, Contained, OfTheStore
<1> QED BY <1>3, <1>4, <1>5, <1>6 DEF IInv

\* The phases of a server that comes up and is told to stop.
LEMMA InvPhase ==
    ASSUME IInv, Spawn \/ Bind \/ Signal
    PROVE  IInv'
<1>1. /\ phase \notin {"off", "closed"}
      /\ phase' \in {"binding", "serving", "draining"}
      /\ UNCHANGED <<config, job, poisoned, recent, folded, writes, acked,
                     panicked, log, durable, forfeited>>
  BY DEF Spawn, Bind, Signal, disk
<1>2. TypeOK'
  BY <1>1 DEF IInv, TypeOK, Phase
<1>3. Numbered' /\ Kept' /\ Folded' /\ Contained'
  BY <1>1 DEF IInv, Numbered, Kept, Written, Folded, Contained, OfTheStore
<1> QED BY <1>2, <1>3 DEF IInv

\* A job is queued under the next number.
LEMMA InvSubmit ==
    ASSUME IInv, NEW o \in Owner, Submit(o)
    PROVE  IInv'
<1>1. /\ phase \in {"binding", "serving", "draining"}
      /\ writes < MaxWrites /\ writes' = writes + 1
      /\ UNCHANGED <<phase, config, poisoned, recent, folded, acked, panicked,
                     log, durable, forfeited>>
  BY DEF Submit, Running, disk
<1>2. writes \in Nat /\ MaxWrites \in Nat /\ writes' \in 1 .. MaxWrites
  BY <1>1, LifecycleAssumption DEF IInv, TypeOK
<1>3. /\ job' \in [Owner -> JobState]
      /\ job'[o].op = "queued" /\ job'[o].write = writes'
      /\ \A p \in Owner \ {o} : job'[p] = job[p]
  <2>1. [op |-> "queued", write |-> writes'] \in JobState
    BY <1>2 DEF JobState
  <2>2. job' = [job EXCEPT ![o] = [op |-> "queued", write |-> writes']]
    BY <1>1 DEF Submit
  <2> QED BY <2>1, <2>2 DEF IInv, TypeOK
<1>4. TypeOK'
  BY <1>1, <1>2, <1>3 DEF IInv, TypeOK
<1>5. Numbered' /\ Kept'
  BY <1>1, <1>2, <1>3 DEF IInv, Numbered, Kept, Written
<1>6. Folded' /\ Contained'
  BY <1>1, <1>3 DEF IInv, Folded, Contained, OfTheStore
<1> QED BY <1>4, <1>5, <1>6 DEF IInv

\* A request comes, or a thread takes a job.
LEMMA InvQueue ==
    ASSUME IInv, NEW o \in Owner, (Ask /\ o = Request) \/ Start(o)
    PROVE  IInv'
<1>1. /\ phase \in {"binding", "serving", "draining"}
      /\ UNCHANGED <<phase, config, poisoned, recent, folded, writes, acked,
                     panicked, log, durable, forfeited>>
  BY DEF Ask, Start, Running, disk
<1>2. PICK op \in {"queued", "running"} :
        /\ SetJob(o, op)
        /\ o # Request => job[o].op = "queued"
  BY DEF Ask, Start
<1>3. /\ job' \in [Owner -> JobState]
      /\ job'[o].op = op
      /\ \A p \in Owner : job'[p].write = job[p].write
      /\ \A p \in Owner \ {o} : job'[p] = job[p]
  BY <1>2, JobSet DEF IInv
<1>4. TypeOK'
  BY <1>1, <1>3 DEF IInv, TypeOK
<1>5. Numbered' /\ Kept'
  BY <1>1, <1>2, <1>3 DEF IInv, Numbered, Kept, Written
<1>6. Folded' /\ Contained'
  BY <1>1, <1>3 DEF IInv, Folded, Contained, OfTheStore
<1> QED BY <1>4, <1>5, <1>6 DEF IInv

\* A commit puts its number at the end of the log, so that what is done is
\* kept; it happens in a phase in which nothing has been folded.
LEMMA InvCommit ==
    ASSUME IInv, NEW o \in Owner, Commit(o)
    PROVE  IInv'
<1>1. /\ job[o].op = "running" /\ o # Request
      /\ log' = Append(log, job[o].write)
      /\ durable' \in {durable, Len(log')}
      /\ SetJob(o, "done")
      /\ UNCHANGED <<phase, config, poisoned, recent, folded, writes, acked,
                     panicked, forfeited>>
  BY DEF Commit
<1>2. /\ job' \in [Owner -> JobState]
      /\ job'[o].op = "done"
      /\ \A p \in Owner : job'[p].write = job[p].write
      /\ \A p \in Owner \ {o} : job'[p] = job[p]
  BY <1>1, JobSet DEF IInv
<1>3. phase \notin {"off", "open", "closing", "closed"}
  BY <1>1, NoJobs DEF IInv
<1>4. job[o].write \in 1 .. MaxWrites
  <2>1. job[o].write \in 0 .. MaxWrites
    BY DEF IInv, TypeOK, JobState
  <2>2. job[o].write > 0
    BY <1>1 DEF IInv, Numbered
  <2>3. MaxWrites \in Nat
    BY LifecycleAssumption
  <2> QED BY <2>1, <2>2, <2>3
<1>5. /\ log \in Seq(1 .. MaxWrites)
      /\ durable \in 0 .. Len(log)
      /\ Len(log) \in Nat
  BY LogShape DEF IInv, TypeOK
<1>6. /\ log' \in Seq(1 .. MaxWrites)
      /\ Len(log') = Len(log) + 1
      /\ \A i \in 1 .. Len(log) : log'[i] = log[i]
      /\ log'[Len(log) + 1] = job[o].write
  BY <1>1, <1>4, <1>5, AppendProperties
<1>7. Written \subseteq Written' /\ job[o].write \in Written'
  <2>1. DOMAIN log = 1 .. Len(log) /\ DOMAIN log' = 1 .. Len(log) + 1
    BY <1>5, <1>6, LenProperties
  <2> QED BY <1>1, <1>5, <1>6, <2>1 DEF Written, ToSet
<1>8. TypeOK'
  <2>1. durable' \in 0 .. Len(log')
    BY <1>1, <1>5, <1>6
  <2> QED BY <1>1, <1>2, <1>3, <1>6, <2>1 DEF IInv, TypeOK
<1>9. Numbered' /\ Kept'
  BY <1>1, <1>2, <1>7 DEF IInv, Numbered, Kept
<1>10. Folded' /\ Contained'
  BY <1>1, <1>2, <1>3 DEF IInv, Folded, Contained, OfTheStore
<1> QED BY <1>8, <1>9, <1>10 DEF IInv

\* A read, or a statement that fails, leaves everything but its job.
LEMMA InvReturn ==
    ASSUME IInv, NEW o \in Owner, NEW op \in {"done", "failed"}, Return(o, op)
    PROVE  IInv'
<1>1. /\ job[o].op = "running" /\ (op = "done" => o = Request)
      /\ SetJob(o, op)
      /\ UNCHANGED <<phase, config, poisoned, recent, folded, writes, acked,
                     panicked, log, durable, forfeited>>
  BY DEF Return, disk
<1>2. /\ job' \in [Owner -> JobState]
      /\ job'[o].op = op
      /\ \A p \in Owner : job'[p].write = job[p].write
      /\ \A p \in Owner \ {o} : job'[p] = job[p]
  BY <1>1, JobSet DEF IInv
<1>3. phase \notin {"off", "open", "closing", "closed"}
  BY <1>1, NoJobs DEF IInv
<1>4. TypeOK'
  BY <1>1, <1>2, <1>3 DEF IInv, TypeOK
<1>5. Numbered' /\ Kept'
  BY <1>1, <1>2 DEF IInv, Numbered, Kept, Written
<1>6. Folded' /\ Contained'
  BY <1>1, <1>2 DEF IInv, Folded, Contained, OfTheStore
<1> QED BY <1>4, <1>5, <1>6 DEF IInv

\* A job panics of itself, or because one before it has: either way the
\* panic of an insert or a query goes back to one of the store.
LEMMA InvPanic ==
    ASSUME IInv, NEW o \in Owner, Panic(o) \/ LockPanic(o)
    PROVE  IInv'
<1>1. /\ job[o].op = "running"
      /\ SetJob(o, "panicked")
      /\ UNCHANGED <<phase, config, recent, folded, writes, acked,
                     log, durable, forfeited>>
  BY DEF Panic, LockPanic, disk
<1>2. \/ poisoned' = poisoned \cup {Mutex(o)} /\ panicked' = panicked \cup {o}
      \/ /\ poisoned' = poisoned /\ panicked' = panicked
         /\ Mutex(o) \in poisoned
  BY DEF Panic, LockPanic
<1>3. Mutex(o) = IF o = Maintenance THEN "maintenance" ELSE "app"
  BY DEF Mutex
<1>4. /\ job' \in [Owner -> JobState]
      /\ job'[o].op = "panicked"
      /\ \A p \in Owner : job'[p].write = job[p].write
      /\ \A p \in Owner \ {o} : job'[p] = job[p]
  BY <1>1, JobSet DEF IInv
<1>5. phase \notin {"off", "open", "closing", "closed"}
  BY <1>1, NoJobs DEF IInv
<1>6. TypeOK'
  BY <1>1, <1>2, <1>3, <1>4, <1>5 DEF IInv, TypeOK
<1>7. Numbered' /\ Kept' /\ Folded'
  BY <1>1, <1>4 DEF IInv, Numbered, Kept, Written, Folded
<1>8. Contained'
  <2>1. OfTheStore => OfTheStore'
    BY <1>2 DEF OfTheStore
  <2>2. o # Maintenance => OfTheStore'
    BY <1>2, <1>3, <2>1 DEF OfTheStore, IInv, Contained
  <2>3. "app" \in poisoned' => "app" \in poisoned \/ o # Maintenance
    BY <1>2, <1>3
  <2> QED BY <1>4, <2>1, <2>2, <2>3 DEF IInv, Contained
<1> QED BY <1>6, <1>7, <1>8 DEF IInv

\* A task takes the result of its job: what it records as a success is done,
\* and a scrape task ends only on a panic.
LEMMA InvResume ==
    ASSUME IInv, NEW o \in Owner, Resume(o)
    PROVE  IInv'
<1>1. /\ job[o].op \in {"done", "failed", "panicked"}
      /\ phase \in {"binding", "serving", "draining"}
      /\ UNCHANGED <<phase, config, poisoned, folded, writes, panicked,
                     log, durable, forfeited>>
  BY DEF Resume, Running, disk
<1>2. \/ recent' = recent /\ acked' = acked
      \/ /\ o \in Scraper /\ job[o].op = "done"
         /\ recent' = recent \cup {o} /\ acked' = acked \cup {job[o].write}
  BY DEF Resume, Succeeded
<1>3. /\ job' \in [Owner -> JobState]
      /\ \/ job'[o].op = "none"
         \/ o \in Scraper /\ job[o].op = "panicked" /\ job'[o].op = "dead"
      /\ \A p \in Owner \ {o} : job'[p] = job[p]
  <2>1. [NoJob EXCEPT !.op = "dead"] \in JobState
    BY LifecycleAssumption DEF NoJob, JobState
  <2>2. [NoJob EXCEPT !.op = "dead"].op = "dead"
    BY DEF NoJob
  <2>3. job' = [job EXCEPT ![o] = IF o \in Scraper /\ job[o].op = "panicked"
                                  THEN [NoJob EXCEPT !.op = "dead"] ELSE NoJob]
    BY DEF Resume
  <2>4. job \in [Owner -> JobState]
    BY DEF IInv, TypeOK
  <2>5. CASE o \in Scraper /\ job[o].op = "panicked"
    <3>1. job' = [job EXCEPT ![o] = [NoJob EXCEPT !.op = "dead"]]
      BY <2>3, <2>5
    <3> QED BY <2>1, <2>2, <2>4, <2>5, <3>1
  <2>6. CASE ~(o \in Scraper /\ job[o].op = "panicked")
    <3>1. job' = [job EXCEPT ![o] = NoJob]
      BY <2>3, <2>6
    <3> QED BY <2>4, <3>1, Jobless
  <2> QED BY <2>5, <2>6
<1>4. o \in Scraper => o \in Owner \ {Maintenance, Request} /\ o \in 1 .. MaxTargets
  BY Owners DEF IInv
<1>5. job[o].op = "done" /\ o \in Scraper => job[o].write \in Written
  BY <1>4 DEF IInv, Kept
<1>6. Written' = Written /\ Written \subseteq 1 .. MaxWrites
  <2>1. ToSet(log) \subseteq 1 .. MaxWrites
    BY LogShape DEF IInv, ToSet
  <2> QED BY <1>1, <2>1 DEF Written, IInv, TypeOK
<1>7. TypeOK'
  <2>1. recent' \subseteq 1 .. MaxTargets
    BY <1>2, <1>4 DEF IInv, TypeOK
  <2>2. acked' \subseteq 1 .. MaxWrites
    BY <1>2, <1>5, <1>6 DEF IInv, TypeOK
  <2> QED BY <1>1, <1>3, <2>1, <2>2 DEF IInv, TypeOK
<1>8. Numbered'
  BY <1>3 DEF IInv, Numbered
<1>9. Kept'
  BY <1>2, <1>3, <1>5, <1>6 DEF IInv, Kept
<1>10. Folded'
  BY <1>1 DEF IInv, Folded
<1>11. Contained'
  BY <1>1, <1>3, <1>4 DEF IInv, Contained, OfTheStore
<1> QED BY <1>7, <1>8, <1>9, <1>10, <1>11 DEF IInv

\* Time passes without a success.
LEMMA InvLapse ==
    ASSUME IInv, NEW o \in Owner, Lapse(o)
    PROVE  IInv'
<1>1. /\ recent' \subseteq recent
      /\ UNCHANGED <<phase, config, job, poisoned, folded, writes, acked,
                     panicked, log, durable, forfeited>>
  BY DEF Lapse, disk
<1>2. TypeOK'
  BY <1>1 DEF IInv, TypeOK
<1>3. Numbered' /\ Kept' /\ Folded' /\ Contained'
  BY <1>1 DEF IInv, Numbered, Kept, Written, Folded, Contained, OfTheStore
<1> QED BY <1>2, <1>3 DEF IInv

\* The runtime is gone once no thread is in a job: what is left of the others
\* goes with it.
LEMMA InvDropped ==
    ASSUME IInv, Dropped
    PROVE  IInv'
<1>1. /\ phase = "stopping" /\ phase' = "closing"
      /\ UNCHANGED <<config, poisoned, recent, folded, writes, acked, panicked,
                     log, durable, forfeited>>
  BY DEF Dropped, disk
<1>2. /\ job' \in [Owner -> JobState]
      /\ \A o \in Owner : job'[o] = NoJob
  BY Jobless DEF Dropped, RuntimeDropped
<1>3. TypeOK'
  BY <1>1, <1>2 DEF IInv, TypeOK, Phase
<1>4. Numbered' /\ Kept' /\ Folded' /\ Contained'
  BY <1>1, <1>2, Jobless
     DEF IInv, Numbered, Kept, Written, Folded, Contained, OfTheStore
<1> QED BY <1>3, <1>4 DEF IInv

\* The final checkpoint syncs all there is, or fails.
LEMMA InvClose ==
    ASSUME IInv, NEW ok \in BOOLEAN, Close(ok)
    PROVE  IInv'
<1>1. /\ phase = "closing" /\ phase' = "closed" /\ folded' = ok
      /\ durable' = IF ok THEN Len(log) ELSE durable
      /\ UNCHANGED <<config, job, poisoned, recent, log, writes, acked,
                     forfeited, panicked>>
  BY DEF Close
<1>2. durable' \in 0 .. Len(log)
  BY <1>1, LogShape DEF IInv, TypeOK
<1>3. TypeOK'
  BY <1>1, <1>2 DEF IInv, TypeOK, Phase
<1>4. Numbered' /\ Kept' /\ Folded' /\ Contained'
  BY <1>1 DEF IInv, Numbered, Kept, Written, Folded, Contained, OfTheStore
<1> QED BY <1>3, <1>4 DEF IInv

-----------------------------------------------------------------------------

\* Every step keeps the invariant.
LEMMA StepIInv == IInv /\ [Next]_vars => IInv'
<1> SUFFICES ASSUME IInv, [Next]_vars PROVE IInv'
  OBVIOUS
<1>1. CASE Boot
  BY <1>1, InvOpen DEF Boot
<1>2. CASE Serve
  <2>1. CASE Spawn \/ Bind
    BY <2>1, InvPhase
  <2>2. CASE SpawnFails \/ BindFails
    BY <2>2, InvDropRuntime DEF SpawnFails, BindFails
  <2> QED BY <1>2, <2>1, <2>2 DEF Serve
<1>3. CASE Ask
  BY <1>3, InvQueue, Owners DEF IInv
<1>4. ASSUME NEW o \in Owner, Submit(o) \/ JobStep(o) \/ Resume(o) \/ Lapse(o)
      PROVE  IInv'
  <2>1. CASE Submit(o)
    BY <2>1, InvSubmit
  <2>2. CASE JobStep(o)
    BY <2>2, InvQueue, InvCommit, InvReturn, InvPanic DEF JobStep
  <2>3. CASE Resume(o)
    BY <2>3, InvResume
  <2>4. CASE Lapse(o)
    BY <2>4, InvLapse
  <2> QED BY <1>4, <2>1, <2>2, <2>3, <2>4
<1>5. CASE Signal
  BY <1>5, InvPhase
<1>6. CASE Stop
  <2>1. CASE Drained
    BY <2>1, InvDropRuntime DEF Drained
  <2>2. CASE Dropped
    BY <2>2, InvDropped
  <2>3. CASE \E ok \in BOOLEAN : Close(ok)
    BY <2>3, InvClose
  <2>4. CASE Exit \/ ClosePanic
    BY <2>4, InvGone DEF Exit, ClosePanic
  <2> QED BY <1>6, <2>1, <2>2, <2>3, <2>4 DEF Stop
<1>7. CASE Kill
  BY <1>7, InvGone DEF Kill
<1>8. CASE PowerLoss
  BY <1>8, InvPowerLoss
<1>9. CASE UNCHANGED vars
  <2>1. TypeOK'
    BY <1>9 DEF vars, IInv, TypeOK
  <2>2. Numbered' /\ Kept' /\ Folded' /\ Contained'
    BY <1>9 DEF vars, IInv, Numbered, Kept, Written, Folded, Contained, OfTheStore
  <2> QED BY <2>1, <2>2 DEF IInv
<1> QED
  BY <1>1, <1>2, <1>3, <1>4, <1>5, <1>6, <1>7, <1>8, <1>9 DEF Next

\* In every state of every behaviour the types hold; the job of a live scrape
\* task carries the number of its write; an insert acknowledged, or committed
\* and not yet acknowledged, is in the log or was forfeited to a loss of
\* power; a final checkpoint leaves a closed database all of which is durable;
\* and the app's mutex is poisoned, or a job or a task other than
\* maintenance's ended by a panic, only where an insert or a query panicked
\* (main.rs:51-57, storage.rs:220-309).
THEOREM Invariant == Spec => []IInv
  BY InitIInv, StepIInv, PTL DEF Spec

\* Types: among them that a process that is off, opening or closing has no
\* job, so that nothing can write to a database that is being closed
\* (main.rs:51-57).
THEOREM TypeCorrect == Spec => []TypeOK
<1>1. IInv => TypeOK
  BY DEF IInv
<1> QED BY <1>1, Invariant, PTL

\* However many targets, jobs, panics, kills and losses of power there are:
\* an insert whose success was recorded is in the database, or was taken by a
\* loss of power when it was later than the last checkpoint.
THEOREM AckedInsertsKept == Spec => []AckedKept
<1>1. IInv => AckedKept
  BY DEF IInv, Kept, Written, AckedKept
<1> QED BY <1>1, Invariant, PTL

\* A stop whose final checkpoint succeeded leaves a database that is whole
\* without its log, also after a kill or a loss of power that follows it.
THEOREM CleanStop == Spec => []CleanStopDurable
<1>1. IInv => CleanStopDurable
  BY DEF IInv, Folded, CleanStopDurable
<1> QED BY <1>1, Invariant, PTL

\* No panic of maintenance ends a scrape task, now or later.
THEOREM PanicsContained == Spec => []PanicContained
<1>1. IInv => PanicContained
  BY Owners DEF IInv, Contained, OfTheStore, PanicContained
<1> QED BY <1>1, Invariant, PTL

-----------------------------------------------------------------------------
(* The three loops of Targets.                                             *)

\* Letters; the comma is one of them.
Char   == STRING \cup {Comma}
Name   == Seq(Char)
Pieced == {p \in Seq(Name) : p # <<>>}

Joining(all, name) == IF all = <<>> THEN name ELSE all \o <<Comma>> \o name
Splitting(pieces, char) ==
    IF char = Comma THEN Append(pieces, <<>>)
    ELSE [pieces EXCEPT ![Len(pieces)] = Append(@, char)]
Cleaning(names, piece) ==
    IF Trim(piece) = <<>> \/ Trim(piece) \in ToSet(names) THEN names
    ELSE Append(names, Trim(piece))

\* What SplitList does with the pieces.
Cleaned(pieces) ==
    FoldLeft(LAMBDA names, piece :
               IF Trim(piece) = <<>> \/ Trim(piece) \in ToSet(names) THEN names
               ELSE Append(names, Trim(piece)),
             <<>>, pieces)

JoinF  == [p \in Name \X Name |-> Joining(p[1], p[2])]
SplitF == [p \in Pieced \X Char |-> Splitting(p[1], p[2])]
CleanF == [p \in Seq(Name) \X Name |-> Cleaning(p[1], p[2])]

\* A step of a join makes a name of a name, and what it makes of them.
LEMMA JoinType ==
    /\ <<>> \in Name /\ JoinF \in [Name \X Name -> Name]
    /\ \A a, x \in Name : JoinF[<<a, x>>] = Joining(a, x)
<1>1. \A a, x \in Name : Joining(a, x) \in Name
  <2>1. <<Comma>> \in Seq(Char)
    <3>1. Comma \in Char
      BY DEF Char
    <3> QED BY <3>1
  <2>2. \A a, x \in Seq(Char) : a \o <<Comma>> \o x \in Seq(Char)
    BY <2>1, ConcatProperties
  <2> QED BY <2>2 DEF Name, Joining
<1> QED BY <1>1 DEF JoinF, Name

\* A step of a split leaves at least one piece.
LEMMA SplitType ==
    /\ << <<>> >> \in Pieced /\ SplitF \in [Pieced \X Char -> Pieced]
    /\ \A a \in Pieced, x \in Char : SplitF[<<a, x>>] = Splitting(a, x)
<1>1. ASSUME NEW a \in Pieced, NEW x \in Char PROVE Splitting(a, x) \in Pieced
  <2>1. CASE x = Comma
    <3>1. Append(a, <<>>) \in Seq(Name) /\ Append(a, <<>>) # <<>>
      <4>1. <<>> \in Name /\ a \in Seq(Name)
        BY DEF Name, Pieced
      <4> QED BY <4>1, AppendProperties
    <3> QED BY <2>1, <3>1 DEF Splitting, Pieced
  <2>2. CASE x # Comma
    <3>1. a \in Seq(Name) /\ Len(a) \in 1 .. Len(a) /\ a[Len(a)] \in Name
      BY DEF Pieced
    <3>2. Append(a[Len(a)], x) \in Name
      BY <3>1, AppendProperties DEF Name
    <3>3. [a EXCEPT ![Len(a)] = Append(a[Len(a)], x)] \in Seq(Name)
      BY <3>1, <3>2, ExceptSeq
    <3>4. [a EXCEPT ![Len(a)] = Append(a[Len(a)], x)] # <<>>
      <4>1. Len([a EXCEPT ![Len(a)] = Append(a[Len(a)], x)]) = Len(a)
        BY <3>1, <3>2, ExceptSeq
      <4> QED BY <3>1, <4>1
    <3> QED BY <2>2, <3>3, <3>4 DEF Splitting, Pieced
  <2> QED BY <2>1, <2>2
<1>2. << <<>> >> \in Pieced
  BY DEF Pieced, Name
<1> QED BY <1>1, <1>2 DEF SplitF

\* Trimming gives a name.
LEMMA TrimType ==
    ASSUME NEW name \in Name
    PROVE  Trim(name) \in Name
<1> DEFINE kept == {i \in DOMAIN name : name[i] # Blank}
<1>1. kept \in SUBSET (1 .. Len(name)) /\ Len(name) \in Nat
  BY DEF Name
<1>2. CASE kept = {}
  BY <1>2 DEF Trim, Name
<1>3. CASE kept # {}
  <2>1. Max(kept) \in kept
    BY <1>1, <1>3, Greatest
  <2>2. Min(kept) \in kept
    <3>1. PICK m \in kept : \A t \in kept : m <= t
      <4>1. kept \in SUBSET Nat
        BY <1>1
      <4> HIDE DEF kept
      <4> QED BY <1>3, <4>1, Least
    <3> HIDE DEF kept
    <3> QED BY <3>1 DEF Min
  <2>3. SubSeq(name, Min(kept), Max(kept)) \in Name
    <3> HIDE DEF kept
    <3>1. Min(kept) \in 1 .. Len(name) /\ Max(kept) \in 1 .. Len(name)
      BY <1>1, <2>1, <2>2
    <3> QED BY <3>1, SubSeqProperties DEF Name
  <2> QED BY <1>3, <2>3 DEF Trim
<1> QED BY <1>2, <1>3

\* A step that keeps or drops a piece makes a list of names of one.
LEMMA CleanType ==
    /\ <<>> \in Seq(Name) /\ CleanF \in [Seq(Name) \X Name -> Seq(Name)]
    /\ \A a \in Seq(Name), x \in Name : CleanF[<<a, x>>] = Cleaning(a, x)
<1>1. ASSUME NEW a \in Seq(Name), NEW x \in Name PROVE Cleaning(a, x) \in Seq(Name)
  <2>1. Trim(x) \in Name
    BY TrimType
  <2>2. Append(a, Trim(x)) \in Seq(Name)
    <3> QED BY <2>1
  <2> QED BY <2>2 DEF Cleaning
<1>2. \A a \in Seq(Name), x \in Name : CleanF[<<a, x>>] = Cleaning(a, x)
  BY DEF CleanF
<1>3. CleanF \in [Seq(Name) \X Name -> Seq(Name)]
  <2> SUFFICES ASSUME NEW p \in Seq(Name) \X Name PROVE Cleaning(p[1], p[2]) \in Seq(Name)
    BY Zenon DEF CleanF
  <2>1. p[1] \in Seq(Name) /\ p[2] \in Name
    OBVIOUS
  <2> QED BY <1>1, <2>1, Zenon
<1> QED BY <1>2, <1>3, EmptySeq

\* Joining names, character by character and piece by piece is such a loop.
LEMMA JoinedResult ==
    ASSUME NEW names \in Seq(Name)
    PROVE  Joined(names) = Result(JoinF, <<>>, names)
<1> DEFINE n == Len(names)
           R(g) == [t \in SUBSET DOMAIN names |->
                      IF t = {} THEN <<>>
                      ELSE Joining(g[t \ {Max(t)}], names[Max(t)])]
           it == CHOOSE g : g = R(g)
<1>1. n \in Nat /\ DOMAIN names = 1 .. n /\ \A i \in 1 .. n : names[i] \in Name
  OBVIOUS
<1>2. Joined(names) = it[DOMAIN names]
  BY Zenon DEF Joined, FoldLeft, MapThenFoldSet, Joining
<1>3. PICK g \in [SUBSET (1 .. n) -> Name] : IsFold(g, JoinF, <<>>, names)
  <2>1. <<>> \in Name /\ JoinF \in [Name \X Name -> Name]
    BY JoinType
  <2> HIDE DEF it, R
  <2> QED BY <2>1, FoldExists
<1>4. ASSUME NEW t \in SUBSET (1 .. n), t # {}
      PROVE  g[t] = Joining(g[t \ {Max(t)}], names[Max(t)])
  <2>1. Max(t) \in 1 .. n /\ t \ {Max(t)} \in SUBSET (1 .. n)
    BY <1>1, <1>4, Greatest
  <2>2. g[t \ {Max(t)}] \in Name /\ names[Max(t)] \in Name
    BY <1>1, <1>3, <2>1
  <2> QED BY <1>3, <1>4, <2>2, JoinType DEF IsFold
<1> HIDE DEF n
<1>5. g = R(g)
  <2>1. g[{}] = <<>> /\ {} \in SUBSET (1 .. n)
    BY <1>3 DEF IsFold, n
  <2> QED BY <1>1, <1>3, <1>4, <2>1
<1>6. it = R(it)
  <2> HIDE DEF R
  <2> QED BY <1>5
<1>7. \A t \in SUBSET (1 .. n) :
         t # {} => it[t] = Joining(it[t \ {Max(t)}], names[Max(t)])
  <2> HIDE DEF it
  <2> QED BY <1>1, <1>6
<1>8. it[{}] = g[{}]
  <2> HIDE DEF it
  <2>1. g[{}] = <<>> /\ {} \in SUBSET (1 .. n)
    BY <1>3 DEF IsFold, n
  <2> QED BY <1>1, <1>6, <2>1
<1> HIDE DEF it, R
<1>9. it[1 .. n] = g[1 .. n]
  <2>1. \A t \in SUBSET (1 .. n) :
           t # {} /\ it[t \ {Max(t)}] = g[t \ {Max(t)}] => it[t] = g[t]
    BY <1>4, <1>7
  <2> QED BY <1>1, <1>8, <2>1, FoldSame
<1>10. g[1 .. n] = Result(JoinF, <<>>, names)
  BY <1>1, <1>3, FoldResult DEF n
<1> QED BY <1>1, <1>2, <1>9, <1>10

\* So is splitting,
LEMMA PiecesResult ==
    ASSUME NEW raw \in Seq(Char)
    PROVE  Pieces(raw) = Result(SplitF, << <<>> >>, raw)
<1> DEFINE n == Len(raw)
           R(g) == [t \in SUBSET DOMAIN raw |->
                      IF t = {} THEN << <<>> >>
                      ELSE Splitting(g[t \ {Max(t)}], raw[Max(t)])]
           it == CHOOSE g : g = R(g)
<1>1. n \in Nat /\ DOMAIN raw = 1 .. n /\ \A i \in 1 .. n : raw[i] \in Char
  OBVIOUS
<1>2. Pieces(raw) = it[DOMAIN raw]
  BY Zenon DEF Pieces, FoldLeft, MapThenFoldSet, Splitting
<1>3. PICK g \in [SUBSET (1 .. n) -> Pieced] : IsFold(g, SplitF, << <<>> >>, raw)
  <2>1. << <<>> >> \in Pieced /\ SplitF \in [Pieced \X Char -> Pieced]
    BY SplitType
  <2> HIDE DEF it, R
  <2> QED BY <2>1, FoldExists
<1>4. ASSUME NEW t \in SUBSET (1 .. n), t # {}
      PROVE  g[t] = Splitting(g[t \ {Max(t)}], raw[Max(t)])
  <2>1. Max(t) \in 1 .. n /\ t \ {Max(t)} \in SUBSET (1 .. n)
    BY <1>1, <1>4, Greatest
  <2>2. g[t \ {Max(t)}] \in Pieced /\ raw[Max(t)] \in Char
    BY <1>1, <1>3, <2>1
  <2> QED BY <1>3, <1>4, <2>2, SplitType DEF IsFold
<1> HIDE DEF n
<1>5. g = R(g)
  <2>1. g[{}] = << <<>> >> /\ {} \in SUBSET (1 .. n)
    BY <1>3 DEF IsFold, n
  <2> QED BY <1>1, <1>3, <1>4, <2>1
<1>6. it = R(it)
  <2> HIDE DEF R
  <2> QED BY <1>5
<1>7. \A t \in SUBSET (1 .. n) :
         t # {} => it[t] = Splitting(it[t \ {Max(t)}], raw[Max(t)])
  <2> HIDE DEF it
  <2> QED BY <1>1, <1>6
<1>8. it[{}] = g[{}]
  <2> HIDE DEF it
  <2>1. g[{}] = << <<>> >> /\ {} \in SUBSET (1 .. n)
    BY <1>3 DEF IsFold, n
  <2> QED BY <1>1, <1>6, <2>1
<1> HIDE DEF it, R
<1>9. it[1 .. n] = g[1 .. n]
  <2>1. \A t \in SUBSET (1 .. n) :
           t # {} /\ it[t \ {Max(t)}] = g[t \ {Max(t)}] => it[t] = g[t]
    BY <1>4, <1>7
  <2> QED BY <1>1, <1>8, <2>1, FoldSame
<1>10. g[1 .. n] = Result(SplitF, << <<>> >>, raw)
  BY <1>1, <1>3, FoldResult DEF n
<1> QED BY <1>1, <1>2, <1>9, <1>10

\* and dropping blanks and repeats.
LEMMA CleanedResult ==
    ASSUME NEW pieces \in Seq(Name)
    PROVE  Cleaned(pieces) = Result(CleanF, <<>>, pieces)
<1> DEFINE n == Len(pieces)
           R(g) == [t \in SUBSET DOMAIN pieces |->
                      IF t = {} THEN <<>>
                      ELSE Cleaning(g[t \ {Max(t)}], pieces[Max(t)])]
           it == CHOOSE g : g = R(g)
<1>1. n \in Nat /\ DOMAIN pieces = 1 .. n /\ \A i \in 1 .. n : pieces[i] \in Name
  OBVIOUS
<1>2. Cleaned(pieces) = it[DOMAIN pieces]
  BY Zenon DEF Cleaned, FoldLeft, MapThenFoldSet, Cleaning
<1>3. PICK g \in [SUBSET (1 .. n) -> Seq(Name)] : IsFold(g, CleanF, <<>>, pieces)
  <2>1. <<>> \in Seq(Name) /\ CleanF \in [Seq(Name) \X Name -> Seq(Name)]
    BY CleanType
  <2> HIDE DEF it, R
  <2> QED BY <2>1, FoldExists
<1>4. ASSUME NEW t \in SUBSET (1 .. n), t # {}
      PROVE  g[t] = Cleaning(g[t \ {Max(t)}], pieces[Max(t)])
  <2>1. Max(t) \in 1 .. n /\ t \ {Max(t)} \in SUBSET (1 .. n)
    BY <1>1, <1>4, Greatest
  <2>2. g[t \ {Max(t)}] \in Seq(Name) /\ pieces[Max(t)] \in Name
    BY <1>1, <1>3, <2>1
  <2> QED BY <1>3, <1>4, <2>2, CleanType DEF IsFold
<1> HIDE DEF n
<1>5. g = R(g)
  <2>1. g[{}] = <<>> /\ {} \in SUBSET (1 .. n)
    BY <1>3 DEF IsFold, n
  <2> QED BY <1>1, <1>3, <1>4, <2>1
<1>6. it = R(it)
  <2> HIDE DEF R
  <2> QED BY <1>5
<1>7. \A t \in SUBSET (1 .. n) :
         t # {} => it[t] = Cleaning(it[t \ {Max(t)}], pieces[Max(t)])
  <2> HIDE DEF it
  <2> QED BY <1>1, <1>6
<1>8. it[{}] = g[{}]
  <2> HIDE DEF it
  <2>1. g[{}] = <<>> /\ {} \in SUBSET (1 .. n)
    BY <1>3 DEF IsFold, n
  <2> QED BY <1>1, <1>6, <2>1
<1> HIDE DEF it, R
<1>9. it[1 .. n] = g[1 .. n]
  <2>1. \A t \in SUBSET (1 .. n) :
           t # {} /\ it[t \ {Max(t)}] = g[t \ {Max(t)}] => it[t] = g[t]
    BY <1>4, <1>7
  <2> QED BY <1>1, <1>8, <2>1, FoldSame
<1>10. g[1 .. n] = Result(CleanF, <<>>, pieces)
  BY <1>1, <1>3, FoldResult DEF n
<1> QED BY <1>1, <1>2, <1>9, <1>10

-----------------------------------------------------------------------------
(* Requests.                                                               *)

\* One more name.
LEMMA JoinedStep ==
    ASSUME NEW names \in Seq(Name)
    PROVE  /\ Joined(<<>>) = <<>> /\ Joined(names) \in Name
           /\ \A x \in Name : Joined(Append(names, x)) = Joining(Joined(names), x)
<1>1. \A x \in Name : Append(names, x) \in Seq(Name)
  BY AppendProperties
<1>2. <<>> \in Seq(Name)
  BY EmptySeq
<1>3. \A s \in Seq(Name) : Joined(s) = Result(JoinF, <<>>, s)
  BY JoinedResult
<1>4. /\ Result(JoinF, <<>>, <<>>) = <<>> /\ Result(JoinF, <<>>, names) \in Name
      /\ \A x \in Name : Result(JoinF, <<>>, Append(names, x)) = JoinF[<<Result(JoinF, <<>>, names), x>>]
  <2>1. <<>> \in Name /\ JoinF \in [Name \X Name -> Name]
    BY JoinType
  <2>2. ASSUME NEW x \in Name
        PROVE  OneMore(JoinF, <<>>, names, x)
    BY <2>1, ResultMore
  <2>3. Result(JoinF, <<>>, names) \in Name
    BY <2>1, ResultType
  <2> QED BY <2>2, <2>3, ResultNone DEF OneMore
<1> QED BY <1>1, <1>2, <1>3, <1>4, JoinType

\* One more letter of the parameter.
LEMMA PiecesStep ==
    ASSUME NEW raw \in Name
    PROVE  /\ Pieces(<<>>) = << <<>> >> /\ Pieces(raw) \in Pieced
           /\ \A x \in Char : Pieces(Append(raw, x)) = Splitting(Pieces(raw), x)
<1>0. raw \in Seq(Char)
  BY DEF Name
<1>1. \A x \in Char : Append(raw, x) \in Seq(Char)
  BY <1>0, AppendProperties
<1>2. <<>> \in Seq(Char)
  BY EmptySeq
<1>3. \A s \in Seq(Char) : Pieces(s) = Result(SplitF, << <<>> >>, s)
  BY PiecesResult
<1>4. /\ Result(SplitF, << <<>> >>, <<>>) = << <<>> >> /\ Result(SplitF, << <<>> >>, raw) \in Pieced
      /\ \A x \in Char : Result(SplitF, << <<>> >>, Append(raw, x))
                           = SplitF[<<Result(SplitF, << <<>> >>, raw), x>>]
  <2>1. << <<>> >> \in Pieced /\ SplitF \in [Pieced \X Char -> Pieced]
    BY SplitType
  <2>2. ASSUME NEW x \in Char
        PROVE  OneMore(SplitF, << <<>> >>, raw, x)
    BY <1>0, <2>1, ResultMore
  <2>3. Result(SplitF, << <<>> >>, raw) \in Pieced
    BY <1>0, <2>1, ResultType
  <2> QED BY <2>2, <2>3, ResultNone DEF OneMore
<1> QED BY <1>0, <1>1, <1>2, <1>3, <1>4, SplitType

\* One more piece.
LEMMA CleanedStep ==
    ASSUME NEW pieces \in Seq(Name)
    PROVE  /\ Cleaned(<<>>) = <<>>
           /\ \A x \in Name : Cleaned(Append(pieces, x)) = Cleaning(Cleaned(pieces), x)
<1>1. \A x \in Name : Append(pieces, x) \in Seq(Name)
  BY AppendProperties
<1>2. <<>> \in Seq(Name)
  BY EmptySeq
<1>3. \A s \in Seq(Name) : Cleaned(s) = Result(CleanF, <<>>, s)
  BY CleanedResult
<1>4. /\ Result(CleanF, <<>>, <<>>) = <<>> /\ Result(CleanF, <<>>, pieces) \in Seq(Name)
      /\ \A x \in Name : Result(CleanF, <<>>, Append(pieces, x))
                           = CleanF[<<Result(CleanF, <<>>, pieces), x>>]
  <2>1. <<>> \in Seq(Name) /\ CleanF \in [Seq(Name) \X Name -> Seq(Name)]
    BY CleanType
  <2>2. ASSUME NEW x \in Name
        PROVE  OneMore(CleanF, <<>>, pieces, x)
    BY <2>1, ResultMore
  <2>3. Result(CleanF, <<>>, pieces) \in Seq(Name)
    BY <2>1, ResultType
  <2> QED BY <2>2, <2>3, ResultNone DEF OneMore
<1> QED BY <1>1, <1>2, <1>3, <1>4, CleanType

\* A prefix is the one before it and one more element.
LEMMA Prefix ==
    ASSUME NEW S, NEW s \in Seq(S)
    PROVE  /\ SubSeq(s, 1, 0) = <<>> /\ SubSeq(s, 1, Len(s)) = s
           /\ \A k \in 0 .. Len(s) :
                 /\ SubSeq(s, 1, k) \in Seq(S) /\ Len(SubSeq(s, 1, k)) = k
                 /\ \A i \in 1 .. k : SubSeq(s, 1, k)[i] = s[i]
           /\ \A k \in 1 .. Len(s) :
                 s[k] \in S /\ SubSeq(s, 1, k) = Append(SubSeq(s, 1, k - 1), s[k])
<1>1. ASSUME NEW k \in 0 .. Len(s)
      PROVE  /\ SubSeq(s, 1, k) \in Seq(S) /\ Len(SubSeq(s, 1, k)) = k
             /\ \A i \in 1 .. k : SubSeq(s, 1, k)[i] = s[i]
  BY SubSeqProperties
<1>2. SubSeq(s, 1, 0) = <<>>
  BY <1>1, EmptySeq
<1>3. SubSeq(s, 1, Len(s)) = s
  <2>1. Len(s) \in 0 .. Len(s)
    OBVIOUS
  <2> QED BY <1>1, <2>1, SeqEqual
<1>4. ASSUME NEW k \in 1 .. Len(s)
      PROVE  s[k] \in S /\ SubSeq(s, 1, k) = Append(SubSeq(s, 1, k - 1), s[k])
  <2>1. k \in 0 .. Len(s) /\ k - 1 \in 0 .. Len(s) /\ s[k] \in S
    OBVIOUS
  <2> DEFINE a == SubSeq(s, 1, k)
             b == SubSeq(s, 1, k - 1)
  <2>2. /\ a \in Seq(S) /\ Len(a) = k /\ \A i \in 1 .. k : a[i] = s[i]
        /\ b \in Seq(S) /\ Len(b) = k - 1 /\ \A i \in 1 .. k - 1 : b[i] = s[i]
    BY <1>1, <2>1
  <2> HIDE DEF a, b
  <2>3. /\ Append(b, s[k]) \in Seq(S) /\ Len(Append(b, s[k])) = k
        /\ \A i \in 1 .. k : Append(b, s[k])[i] = s[i]
    BY <2>1, <2>2
  <2>4. a = Append(b, s[k])
    BY <2>2, <2>3, SeqEqual
  <2> QED BY <2>1, <2>4 DEF a, b
<1> QED BY <1>1, <1>2, <1>3, <1>4

\* A name without comma goes whole into the piece that is open.
LEMMA NameTaken ==
    ASSUME NEW pre \in Name, NEW head \in Seq(Name), Pieces(pre) = Append(head, <<>>),
           NEW name \in Name, Comma \notin ToSet(name)
    PROVE  Pieces(pre \o name) = Append(head, name)
<1> DEFINE n == Len(name)
           p(k) == SubSeq(name, 1, k)
           T == {k \in 0 .. n : Pieces(pre \o p(k)) # Append(head, p(k))}
<1>1. n \in Nat /\ pre \in Seq(Char) /\ name \in Seq(Char) /\ n \in 0 .. n
  BY DEF Name
<1>2. /\ p(0) = <<>> /\ p(n) = name /\ \A k \in 0 .. n : p(k) \in Seq(Char)
      /\ \A k \in 1 .. n : name[k] \in Char /\ p(k) = Append(p(k - 1), name[k])
  BY <1>1, Prefix
<1>3. \A k \in 1 .. n : name[k] # Comma
  BY <1>1 DEF ToSet
<1> HIDE DEF n, p
<1>4. Pieces(pre \o p(0)) = Append(head, p(0))
  <2>1. pre \o <<>> = pre
    BY <1>1, ConcatEmptySeq
  <2> QED BY <1>2, <2>1
<1>5. ASSUME NEW k \in 1 .. n, Pieces(pre \o p(k - 1)) = Append(head, p(k - 1))
      PROVE  Pieces(pre \o p(k)) = Append(head, p(k))
  <2> DEFINE q == p(k - 1)
             c == name[k]
  <2>1. q \in Seq(Char) /\ c \in Char /\ c # Comma /\ p(k) = Append(q, c)
    <3>1. k - 1 \in 0 .. n
      BY <1>1
    <3> QED BY <1>2, <1>3, <3>1
  <2>2. Pieces(pre \o q) = Append(head, q)
    BY <1>5
  <2> HIDE DEF q, c
  <2>3. pre \o Append(q, c) = Append(pre \o q, c) /\ pre \o q \in Seq(Char)
    BY <1>1, <2>1
  <2>4. Pieces(Append(pre \o q, c)) = Splitting(Append(head, q), c)
    BY <2>1, <2>2, <2>3, PiecesStep DEF Name
  <2>5. Splitting(Append(head, q), c) = [Append(head, q) EXCEPT ![Len(Append(head, q))] = Append(@, c)]
    BY <2>1 DEF Splitting
  <2>6. [Append(head, q) EXCEPT ![Len(Append(head, q))] = Append(@, c)] = Append(head, Append(q, c))
    <3> DEFINE x == Append(head, q)
               y == Append(head, Append(q, c))
    <3>1. q \in Name /\ Append(q, c) \in Name
      BY <2>1, AppendProperties DEF Name
    <3>2. /\ x \in Seq(Name) /\ Len(x) = Len(head) + 1 /\ Len(head) \in Nat /\ x[Len(x)] = q
          /\ y \in Seq(Name) /\ Len(y) = Len(head) + 1
          /\ \A i \in 1 .. Len(head) : x[i] = head[i] /\ y[i] = head[i]
          /\ y[Len(head) + 1] = Append(q, c)
      BY <3>1, AppendProperties
    <3> HIDE DEF x, y
    <3> DEFINE z == [x EXCEPT ![Len(x)] = Append(q, c)]
    <3>3. z \in Seq(Name) /\ Len(z) = Len(x)
          /\ \A j \in 1 .. Len(x) : z[j] = IF j = Len(x) THEN Append(q, c) ELSE x[j]
      <4>1. Len(x) \in 1 .. Len(x)
        BY <3>2
      <4> QED BY <3>1, <3>2, <4>1, ExceptSeq
    <3> HIDE DEF z
    <3>4. \A j \in 1 .. Len(z) : z[j] = y[j]
      <4> TAKE j \in 1 .. Len(z)
      <4>1. j \in 1 .. Len(x) /\ (j = Len(x) \/ j \in 1 .. Len(head))
        BY <3>2, <3>3
      <4>2. j = Len(x) => y[j] = Append(q, c) /\ z[j] = Append(q, c)
        BY <3>2, <3>3, <4>1
      <4>3. j \in 1 .. Len(head) => j # Len(x) /\ y[j] = head[j] /\ x[j] = head[j]
        BY <3>2
      <4>4. j # Len(x) => z[j] = x[j]
        BY <3>3, <4>1
      <4>5. CASE j = Len(x)
        BY <4>2, <4>5
      <4>6. CASE j # Len(x)
        <5>1. z[j] = x[j] /\ x[j] = head[j] /\ y[j] = head[j]
          BY <4>1, <4>3, <4>4, <4>6
        <5> QED BY <5>1
      <4> QED BY <4>5, <4>6
    <3>5. z = y
      BY <3>2, <3>3, <3>4, SeqEqual
    <3>6. [x EXCEPT ![Len(x)] = Append(@, c)] = z
      BY <3>2 DEF z
    <3> QED BY <3>5, <3>6 DEF x, y
  <2> QED BY <2>1, <2>3, <2>4, <2>5, <2>6
<1>6. T = {}
  <2>1. SUFFICES ASSUME T # {} PROVE FALSE
    OBVIOUS
  <2>2. T \in SUBSET Nat
    OBVIOUS
  <2>3. PICK m \in T : \A t \in T : m <= t
    <3> HIDE DEF T
    <3> QED BY <2>1, <2>2, Least
  <2>4. m \in 1 .. n /\ ~(m <= m - 1) /\ m - 1 \in 0 .. n
    BY <1>1, <1>4, <2>3
  <2>5. Pieces(pre \o p(m - 1)) = Append(head, p(m - 1))
    BY <2>3, <2>4
  <2> QED BY <1>5, <2>3, <2>4, <2>5
<1> QED BY <1>1, <1>2, <1>6

\* Names that are not empty and have no comma are the pieces of their join.
LEMMA PiecesJoined ==
    ASSUME NEW names \in Seq(Name), names # <<>>,
           \A k \in 1 .. Len(names) : names[k] # <<>> /\ Comma \notin ToSet(names[k])
    PROVE  Pieces(Joined(names)) = names
<1> DEFINE n == Len(names)
           p(k) == SubSeq(names, 1, k)
           OK(k) == Joined(p(k)) # <<>> /\ Pieces(Joined(p(k))) = p(k)
           T == {k \in 1 .. n : ~OK(k)}
<1>1. n \in Nat /\ n \in 1 .. n /\ \A k \in 1 .. n : names[k] # <<>> /\ Comma \notin ToSet(names[k])
  OBVIOUS
<1>2. /\ p(0) = <<>> /\ p(n) = names /\ \A k \in 0 .. n : p(k) \in Seq(Name)
      /\ \A k \in 1 .. n : names[k] \in Name /\ p(k) = Append(p(k - 1), names[k])
  BY Prefix
<1> HIDE DEF n, p
<1>3. <<>> \in Name /\ <<>> \in Seq(Name)
  BY EmptySeq DEF Name
<1>4. ASSUME 1 \in 1 .. n PROVE OK(1)
  <2> DEFINE x == names[1]
  <2>1. x \in Name /\ x # <<>> /\ Comma \notin ToSet(x) /\ p(1) = Append(<<>>, x)
    <3>1. 1 - 1 = 0
      OBVIOUS
    <3> QED BY <1>1, <1>2, <1>4, <3>1
  <2> HIDE DEF x
  <2>2. Joined(p(1)) = x
    BY <1>3, <2>1, JoinedStep DEF Joining
  <2>3. Pieces(<<>>) = Append(<<>>, <<>>)
    <3>1. Append(<<>>, <<>>) = << <<>> >>
      OBVIOUS
    <3> QED BY <1>3, <3>1, PiecesStep
  <2>4. Pieces(<<>> \o x) = Append(<<>>, x)
    BY <1>3, <2>1, <2>3, NameTaken
  <2>5. <<>> \o x = x
    BY <2>1, ConcatEmptySeq DEF Name
  <2> QED BY <2>1, <2>2, <2>4, <2>5
<1>5. ASSUME NEW k \in 1 .. n, k # 1, OK(k - 1) PROVE OK(k)
  <2> DEFINE x == names[k]
             q == p(k - 1)
             j == Joined(q)
  <2>1. /\ x \in Name /\ x # <<>> /\ Comma \notin ToSet(x)
        /\ p(k) = Append(q, x) /\ q \in Seq(Name)
    <3>1. k - 1 \in 0 .. n
      BY <1>1
    <3> QED BY <1>1, <1>2, <3>1
  <2>2. j # <<>> /\ Pieces(j) = q
    BY <1>5
  <2>3. j \in Name /\ Joined(p(k)) = j \o <<Comma>> \o x
    <3> HIDE DEF x, q
    <3> QED BY <2>1, <2>2, JoinedStep DEF Joining
  <2> HIDE DEF x, q, j
  <2>4. j \o <<Comma>> = Append(j, Comma) /\ Append(j, Comma) \in Name /\ Comma \in Char
    <3>1. Comma \in Char /\ j \in Seq(Char)
      BY <2>3 DEF Char, Name
    <3> HIDE DEF Char
    <3> QED BY <3>1 DEF Name
  <2>5. Pieces(Append(j, Comma)) = Append(q, <<>>)
    BY <2>2, <2>3, <2>4, PiecesStep DEF Splitting
  <2>6. Pieces(Append(j, Comma) \o x) = Append(q, x)
    BY <2>1, <2>4, <2>5, NameTaken
  <2>7. j \o <<Comma>> \o x # <<>>
    <3>1. Len(Append(j, Comma) \o x) = Len(j) + 1 + Len(x) /\ Len(j) \in Nat /\ Len(x) \in Nat
      BY <2>1, <2>3, <2>4 DEF Name
    <3>2. Len(<<>>) = 0
      OBVIOUS
    <3>3. Append(j, Comma) \o x # <<>>
      BY <3>1, <3>2
    <3> QED BY <2>4, <3>3
  <2> QED BY <2>1, <2>3, <2>4, <2>6, <2>7
<1> HIDE DEF OK
<1>6. T = {}
  <2>1. SUFFICES ASSUME T # {} PROVE FALSE
    OBVIOUS
  <2>2. T \in SUBSET Nat
    OBVIOUS
  <2>3. PICK m \in T : \A t \in T : m <= t
    <3> HIDE DEF T
    <3> QED BY <2>1, <2>2, Least
  <2>4. m \in 1 .. n /\ m # 1 /\ ~(m <= m - 1) /\ m - 1 \in 1 .. n
    BY <1>1, <1>4, <2>3
  <2>5. OK(m - 1)
    BY <2>3, <2>4
  <2> QED BY <1>5, <2>3, <2>4, <2>5
<1> QED BY <1>1, <1>2, <1>6 DEF OK

\* Distinct names without blanks around them come out as they went in.
LEMMA CleanedSame ==
    ASSUME NEW names \in Seq(Name), IsInjective(names),
           \A k \in 1 .. Len(names) : names[k] # <<>> /\ Trim(names[k]) = names[k]
    PROVE  Cleaned(names) = names
<1> DEFINE n == Len(names)
           p(k) == SubSeq(names, 1, k)
           T == {k \in 0 .. n : Cleaned(p(k)) # p(k)}
<1>1. n \in Nat /\ n \in 0 .. n /\ \A k \in 1 .. n : names[k] # <<>> /\ Trim(names[k]) = names[k]
  OBVIOUS
<1>2. /\ p(0) = <<>> /\ p(n) = names /\ \A k \in 0 .. n : p(k) \in Seq(Name)
      /\ \A k \in 1 .. n : names[k] \in Name /\ p(k) = Append(p(k - 1), names[k])
      /\ \A k \in 0 .. n : Len(p(k)) = k /\ \A i \in 1 .. k : p(k)[i] = names[i]
  BY Prefix
<1>3. \A i, k \in 1 .. n : names[i] = names[k] => i = k
  BY DEF IsInjective
<1> HIDE DEF n, p
<1>4. Cleaned(p(0)) = p(0)
  BY <1>2, CleanedStep
<1>5. ASSUME NEW k \in 1 .. n, Cleaned(p(k - 1)) = p(k - 1) PROVE Cleaned(p(k)) = p(k)
  <2>1. k - 1 \in 0 .. n /\ \A i \in 1 .. k - 1 : i \in 1 .. n /\ i # k
    BY <1>1
  <2>2. names[k] \notin ToSet(p(k - 1))
    <3>1. DOMAIN p(k - 1) = 1 .. k - 1
      BY <1>2, <2>1
    <3>2. \A i \in 1 .. k - 1 : p(k - 1)[i] = names[i] /\ names[i] # names[k]
      BY <1>2, <1>3, <2>1
    <3> QED BY <3>1, <3>2 DEF ToSet
  <2>3. Cleaned(Append(p(k - 1), names[k])) = Cleaning(p(k - 1), names[k])
    BY <1>2, <1>5, <2>1, CleanedStep
  <2> QED BY <1>1, <1>2, <2>2, <2>3 DEF Cleaning
<1>6. T = {}
  <2>1. SUFFICES ASSUME T # {} PROVE FALSE
    OBVIOUS
  <2>2. T \in SUBSET Nat
    OBVIOUS
  <2>3. PICK m \in T : \A t \in T : m <= t
    <3> HIDE DEF T
    <3> QED BY <2>1, <2>2, Least
  <2>4. m \in 1 .. n /\ ~(m <= m - 1) /\ m - 1 \in 0 .. n
    BY <1>1, <1>4, <2>3
  <2>5. Cleaned(p(m - 1)) = p(m - 1)
    BY <2>3, <2>4
  <2> QED BY <1>5, <2>3, <2>4, <2>5
<1> QED BY <1>1, <1>2, <1>6

\* So a request for such names is resolved to them, and one for none to none.
LEMMA Resolved ==
    ASSUME NEW names \in Seq(Name), IsInjective(names),
           \A k \in 1 .. Len(names) :
              /\ names[k] # <<>> /\ Trim(names[k]) = names[k]
              /\ Comma \notin ToSet(names[k])
    PROVE  SplitList(Joined(names)) = names
<1>1. \A raw : SplitList(raw) = Cleaned(Pieces(raw))
  BY DEF SplitList, Cleaned
<1>2. CASE names = <<>>
  <2>1. <<>> \in Name /\ <<>> \in Seq(Name)
    BY EmptySeq DEF Name
  <2>2. Joined(<<>>) = <<>> /\ Pieces(<<>>) = << <<>> >> /\ << <<>> >> = Append(<<>>, <<>>)
    BY <2>1, JoinedStep, PiecesStep
  <2>3. Trim(<<>>) = <<>>
    BY DEF Trim
  <2>4. Cleaned(Append(<<>>, <<>>)) = <<>>
    BY <2>1, <2>3, CleanedStep DEF Cleaning
  <2> QED BY <1>1, <1>2, <2>2, <2>4
<1>3. CASE names # <<>>
  BY <1>1, <1>3, PiecesJoined, CleanedSame
<1> QED BY <1>2, <1>3

\* The configuration of a process was accepted.
LEMMA Accepted == Spec => []Valid(config)
<1>1. Init => Valid(config)
  BY DEF Init, Valid
<1>2. Valid(config) /\ [Next]_vars => Valid(config)'
  <2> SUFFICES ASSUME Valid(config), [Next]_vars PROVE Valid(config')
    OBVIOUS
  <2>1. config' = config \/ config' = <<>> \/ \E c \in Config : Valid(c) /\ config' = c
    BY DEF Next, Boot, Open, Serve, Spawn, SpawnFails, Bind, BindFails, DropRuntime, Ask,
           Submit, JobStep, Start, Commit, Return, LockPanic, Panic, Resume, Lapse, Signal,
           Stop, Drained, Dropped, Close, Exit, ClosePanic, Kill, PowerLoss, Gone, vars
  <2>2. Valid(<<>>)
    BY DEF Valid
  <2> QED BY <2>1, <2>2
<1> QED BY <1>1, <1>2, PTL DEF Spec

\* However many targets there are, whatever their names and in whatever order
\* they were picked, those without blanks around them reach the query API as
\* they were selected.
THEOREM RequestsResolve == Spec => []RequestResolves
<1>1. TypeOK /\ Valid(config) => RequestResolves
  <2> SUFFICES ASSUME TypeOK, Valid(config), NEW n \in 0 .. Len(config),
                      NEW chosen \in [1 .. n -> DOMAIN config], IsInjective(chosen),
                      \A k \in 1 .. n : Trim(config[chosen[k]]) = config[chosen[k]]
               PROVE  SplitList(Joined([k \in 1 .. n |-> config[chosen[k]]]))
                        = [k \in 1 .. n |-> config[chosen[k]]]
    BY DEF RequestResolves
  <2> DEFINE asked == [k \in 1 .. n |-> config[chosen[k]]]
  <2>1. config \in Seq(Seq(STRING)) /\ Len(config) \in Nat
    <3>1. <<>> \in Seq(Seq(STRING))
      OBVIOUS
    <3>2. config \in Seq(Seq(STRING))
      BY <3>1, LifecycleAssumption DEF TypeOK
    <3> QED BY <3>2
  <2>2. \A s \in Seq(STRING) : s \in Name
    <3>1. STRING \subseteq Char
      BY DEF Char
    <3> TAKE s \in Seq(STRING)
    <3>2. \A i \in 1 .. Len(s) : s[i] \in Char
      BY <3>1, LenProperties
    <3> QED BY <3>2, SeqMonotonic DEF Name
  <2>3. \A i \in DOMAIN config : /\ config[i] \in Name /\ Trim(config[i]) # <<>>
                                /\ Comma \notin ToSet(config[i])
    BY <2>1, <2>2 DEF Valid
  <2>4. \A k \in 1 .. n : /\ asked[k] \in Name /\ asked[k] # <<>>
                          /\ Comma \notin ToSet(asked[k]) /\ Trim(asked[k]) = asked[k]
    BY <2>3
  <2>5. asked \in Seq(Name) /\ Len(asked) = n /\ DOMAIN asked = 1 .. n
    BY <2>1, <2>4
  <2>6. IsInjective(asked)
    <3>1. \A i, j \in DOMAIN config : config[i] = config[j] => i = j
      BY DEF Valid
    <3>2. \A i, j \in 1 .. n : asked[i] = asked[j] => i = j
      BY <3>1 DEF IsInjective
    <3> QED BY <2>5, <3>2 DEF IsInjective
  <2> HIDE DEF asked
  <2>7. SplitList(Joined(asked)) = asked
    BY <2>4, <2>5, <2>6, Resolved
  <2> QED BY <2>7 DEF asked
<1> QED BY <1>1, TypeCorrect, Accepted, PTL
=============================================================================
