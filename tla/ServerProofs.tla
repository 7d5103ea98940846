---------------------------- MODULE ServerProofs ----------------------------
(***************************************************************************)
(* The scrape tasks keep their readings, points and instances apart, and   *)
(* an answer of the query API misses nothing a scrape had acknowledged,    *)
(* for any targets, mounts, histories of the machines and limits.  The     *)
(* first parts are about Scrape, the last is about Server.                 *)
(***************************************************************************)
EXTENDS Server, FiniteSetTheorems, TLAPS

-----------------------------------------------------------------------------
(* Counting.                                                               *)

LEMMA PartOfInterval ==
    ASSUME NEW a \in Int, NEW b \in Int, NEW T, T \subseteq a .. b
    PROVE  IsFiniteSet(T) /\ Cardinality(T) \in Nat
<1>1. IsFiniteSet(a .. b)
  BY FS_Interval
<1>2. IsFiniteSet(T)
  BY <1>1, FS_Subset, Zenon
<1> QED BY <1>2, FS_CardinalityType, Zenon

LEMMA CounterNat ==
    ASSUME NEW s, NEW n \in Nat, NEW e
    PROVE  Counter(s, n, e) \in Nat
<1> DEFINE C == {i \in 1 .. n : s[i] = e /\ \A j \in i .. n : s[j] # "boot"}
<1>1. 1 \in Int /\ n \in Int /\ C \subseteq 1 .. n
  OBVIOUS
<1> HIDE DEF C
<1>2. Cardinality(C) \in Nat
  BY <1>1, PartOfInterval
<1> QED BY <1>2 DEF Counter, C

LEMMA DoneNat ==
    ASSUME NEW s, NEW m \in Nat, NEW n \in Nat, NEW e
    PROVE  Done(s, m, n, e) \in Nat
<1> DEFINE D == {i \in m + 1 .. n : s[i] = e}
<1>1. m + 1 \in Int /\ n \in Int /\ D \subseteq m + 1 .. n
  OBVIOUS
<1> HIDE DEF D
<1>2. Cardinality(D) \in Nat
  BY <1>1, PartOfInterval
<1> QED BY <1>2 DEF Done, D

\* Without a boot between two readings the counters grow by what was done.
LEMMA CounterGrows ==
    ASSUME NEW s, NEW m \in Nat, NEW n \in Nat, m <= n, NEW e, e # "boot",
           \A i \in m + 1 .. n : s[i] # "boot"
    PROVE  Counter(s, n, e) = Counter(s, m, e) + Done(s, m, n, e)
<1> DEFINE C(k) == {i \in 1 .. k : s[i] = e /\ \A j \in i .. k : s[j] # "boot"}
           D    == {i \in m + 1 .. n : s[i] = e}
<1>1. C(n) = C(m) \cup D
  <2>1. ASSUME NEW i \in C(n) PROVE i \in C(m) \cup D
    <3>1. CASE i <= m
      BY <3>1
    <3>2. CASE i > m
      BY <3>2
    <3> QED BY <3>1, <3>2
  <2>2. ASSUME NEW i \in C(m) PROVE i \in C(n)
    <3>1. ASSUME NEW j \in i .. n PROVE s[j] # "boot"
      <4>1. CASE j <= m
        BY <4>1
      <4>2. CASE j > m
        BY <4>2
      <4> QED BY <4>1, <4>2
    <3> QED BY <3>1
  <2>3. ASSUME NEW i \in D PROVE i \in C(n)
    BY <2>3
  <2> QED BY <2>1, <2>2, <2>3
<1>2. C(m) \cap D = {}
  OBVIOUS
<1>3. C(m) \subseteq 1 .. m /\ D \subseteq m + 1 .. n
  OBVIOUS
<1> HIDE DEF C, D
<1>4. /\ IsFiniteSet(C(m)) /\ Cardinality(C(m)) \in Nat
      /\ IsFiniteSet(D) /\ Cardinality(D) \in Nat
  <2>1. m + 1 \in Int /\ 1 \in Int /\ m \in Int /\ n \in Int
    OBVIOUS
  <2>2. IsFiniteSet(C(m)) /\ Cardinality(C(m)) \in Nat
    BY <1>3, <2>1, PartOfInterval
  <2>3. IsFiniteSet(D) /\ Cardinality(D) \in Nat
    BY <1>3, <2>1, PartOfInterval
  <2> QED BY <2>2, <2>3
<1>5. Cardinality(C(m) \cup D)
        = Cardinality(C(m)) + Cardinality(D) - Cardinality(C(m) \cap D)
  <2>1. IsFiniteSet(C(m)) /\ IsFiniteSet(D)
    BY <1>4
  <2> QED BY ONLY <2>1, FS_Union, Zenon
<1>6. Cardinality(C(m) \cap D) = 0
  BY <1>2, FS_EmptySet, Zenon
<1>7. Cardinality(C(n)) = Cardinality(C(m)) + Cardinality(D)
  BY <1>1, <1>4, <1>5, <1>6
<1> QED BY <1>7 DEF Counter, Done, C, D

\* What was counted of a prefix stays when the log grows.
LEMMA CounterStays ==
    ASSUME NEW s \in Seq(Event), NEW x, NEW n \in Nat, n <= Len(s), NEW e
    PROVE  Counter(Append(s, x), n, e) = Counter(s, n, e)
<1>1. \A i \in 1 .. n : Append(s, x)[i] = s[i]
  OBVIOUS
<1>2. {i \in 1 .. n : Append(s, x)[i] = e
                        /\ \A j \in i .. n : Append(s, x)[j] # "boot"}
        = {i \in 1 .. n : s[i] = e /\ \A j \in i .. n : s[j] # "boot"}
  BY <1>1
<1> QED BY <1>2 DEF Counter

-----------------------------------------------------------------------------
(* Types.                                                                  *)

LEMMA StateType == TypeOK => \A h \in Host : StateFor(h) \in HostState
  BY DEF TypeOK, StateFor, Default, HostState

\* Writing one host's entry leaves the others as they were.
LEMMA SetStateFact ==
    ASSUME TypeOK, NEW h \in Host, NEW st \in HostState, SetState(h, st)
    PROVE  /\ DOMAIN hosts' \subseteq Host
           /\ hosts' \in [DOMAIN hosts' -> HostState]
           /\ StateFor(h)' = st
           /\ \A g \in Host : g # h => StateFor(g)' = StateFor(g)
  BY DEF TypeOK, SetState, StateFor

LEMMA ProcessType ==
    ASSUME NEW prev \in SUBSET Reading, NEW curr \in Reading
    PROVE  Process(prev, curr) \in Points
<1>1. \A p \in prev : Usable(Delta(p, curr)) => Delta(p, curr) \in Usage
  BY SMT DEF Usable, Delta, Usage, Reading
<1>2. curr.disks \in SUBSET Mount
  BY DEF Reading
<1> QED BY <1>1, <1>2 DEF Process, Points

\* The record of a task in each phase.
LEMMA TaskShape ==
    ASSUME TypeOK, NEW h \in Host
    PROVE  /\ task[h].op \in {"waiting", "asking", "answered", "storing",
                             "finishing"}
           /\ task[h].op \in {"answered", "storing", "finishing"}
                => task[h].curr \in Reading
           /\ task[h].op \in {"storing", "finishing"}
                => task[h].points \in Points
  BY DEF TypeOK, Task, Waiting

LEMMA SeriesType ==
    ASSUME NEW h \in Host, NEW points \in Points
    PROVE  SeriesOf(h, points) \subseteq Series
  BY DEF SeriesOf, Points, Series, Label

LEMMA TypeInit == Init => TypeOK
<1> SUFFICES ASSUME Init PROVE TypeOK
  OBVIOUS
<1>1. hosts = [h \in {} |-> {}] /\ DOMAIN hosts = {}
  BY DEF Init
<1>2. hosts \in [DOMAIN hosts -> HostState]
  BY <1>1
<1> QED BY <1>1, <1>2 DEF Init, TypeOK, Task, Waiting

\* A failed scrape only marks its host.
LEMMA FailType ==
    ASSUME TypeOK, NEW h \in Host, Fail(h)
    PROVE  TypeOK'
<1> DEFINE st == [StateFor(h) EXCEPT !.error = TRUE]
<1>1. st \in HostState
  BY StateType DEF HostState
<1>2. SetState(h, st)
  BY DEF Fail
<1>3. DOMAIN hosts' \subseteq Host /\ hosts' \in [DOMAIN hosts' -> HostState]
  BY <1>1, <1>2, SetStateFact
<1>4. task' \in [Host -> Task]
  BY DEF Fail, TypeOK, Task
<1> QED BY <1>3, <1>4 DEF Fail, TypeOK

LEMMA ScrapeType ==
    ASSUME TypeOK, NEW h \in Host, ScrapeStep(h)
    PROVE  TypeOK'
<1> USE TaskShape
<1>1. CASE Ask(h)
  BY <1>1 DEF Ask, TypeOK, Task
<1>2. CASE Collect(h)
  <2>1. PICK cpu \in BOOLEAN, disks \in SUBSET Mount :
          task' = [task EXCEPT ![h] = [op |-> "answered",
                                       curr |-> Read(h, cpu, disks)]]
    BY <1>2 DEF Collect, Readable, TypeOK
  <2>2. Len(log[h]) \in Nat
    BY DEF TypeOK
  <2>3. Read(h, cpu, disks) \in Reading
    <3>1. /\ Counter(log[h], Len(log[h]), "busy") \in Nat
          /\ Counter(log[h], Len(log[h]), "idle") \in Nat
      BY <2>2, CounterNat
    <3> QED BY <2>2, <3>1 DEF Read, Reading
  <2>4. [op |-> "answered", curr |-> Read(h, cpu, disks)] \in Task
    BY <2>3 DEF Task
  <2> QED BY <1>2, <2>1, <2>4 DEF Collect, TypeOK
<1>3. CASE AskFail(h)
  BY <1>3, FailType DEF AskFail
<1>4. CASE Receive(h)
  <2> DEFINE curr   == task[h].curr
             points == Process(StateFor(h).lastRaw, curr)
             op     == IF SeriesOf(h, points) = {} THEN "finishing" ELSE "storing"
             st     == [StateFor(h) EXCEPT !.lastRaw = {}]
  <2>1. curr \in Reading
    BY <1>4 DEF Receive
  <2>2. StateFor(h) \in HostState
    BY StateType
  <2>3. points \in Points
    BY <2>1, <2>2, ProcessType DEF HostState
  <2>4. [op |-> op, curr |-> curr, points |-> points] \in Task
    BY <2>1, <2>3 DEF Task
  <2>5. task' = [task EXCEPT ![h] = [op |-> op, curr |-> curr, points |-> points]]
    BY <1>4 DEF Receive
  <2>6. st \in HostState /\ SetState(h, st)
    BY <1>4, <2>2 DEF Receive, HostState
  <2> HIDE DEF curr, points, op, st
  <2>7. DOMAIN hosts' \subseteq Host /\ hosts' \in [DOMAIN hosts' -> HostState]
    BY <2>6, SetStateFact
  <2> QED BY <1>4, <2>4, <2>5, <2>7 DEF Receive, TypeOK
<1>5. CASE Commit(h)
  <2>1. task[h].points \in Points /\ task[h].curr \in Reading
    BY <1>5 DEF Commit
  <2>2. SeriesOf(h, task[h].points) \subseteq Series
    BY <2>1, SeriesType
  <2>3. task[h] \in [op : {"storing", "finishing"}, curr : Reading, points : Points]
    <3>1. task[h] \in Task /\ task[h].op = "storing"
      BY <1>5 DEF Commit, TypeOK
    <3> QED BY ONLY <3>1, SMT DEF Task, Waiting
  <2>4. [task[h] EXCEPT !.op = "finishing"] \in Task
    BY <2>3 DEF Task
  <2>5. task' \in [Host -> Task]
    BY <1>5, <2>4 DEF Commit, TypeOK
  <2> QED BY <1>5, <2>2, <2>5 DEF Commit, TypeOK
<1>6. CASE InsertFail(h)
  BY <1>6, FailType DEF InsertFail
<1>7. CASE Finish(h)
  <2> DEFINE st == Succeeded(StateFor(h), task[h].curr, task[h].points)
  <2>1. task[h].points \in Points /\ task[h].curr \in Reading
    BY <1>7 DEF Finish
  <2>2. st \in HostState
    BY <2>1, StateType DEF Succeeded, HostState, Points
  <2>3. SetState(h, st)
    BY <1>7 DEF Finish
  <2> HIDE DEF st
  <2>4. DOMAIN hosts' \subseteq Host /\ hosts' \in [DOMAIN hosts' -> HostState]
    BY <2>2, <2>3, SetStateFact
  <2> QED BY <1>7, <2>4 DEF Finish, TypeOK, Task
<1> QED BY <1>1, <1>2, <1>3, <1>4, <1>5, <1>6, <1>7 DEF ScrapeStep

LEMMA EnvironmentType == TypeOK /\ Environment => TypeOK'
<1> SUFFICES ASSUME TypeOK, Environment PROVE TypeOK'
  OBVIOUS
<1>1. ASSUME NEW h \in Host, NEW e \in Event, Work(h, e) PROVE TypeOK'
  <2>1. Append(log[h], e) \in Seq(Event)
    BY DEF TypeOK
  <2> QED BY <1>1, <2>1 DEF Work, TypeOK
<1>2. ASSUME NEW h \in Host, Remount(h) PROVE TypeOK'
  BY <1>2 DEF Remount, TypeOK
<1>3. CASE Restart
  <2>1. hosts' = [h \in {} |-> {}] /\ DOMAIN hosts' = {}
    BY <1>3 DEF Restart
  <2>2. hosts' \in [DOMAIN hosts' -> HostState]
    BY <2>1
  <2> QED BY <1>3, <2>1, <2>2 DEF Restart, TypeOK, Task
<1>4. CASE Calm
  BY <1>4 DEF Calm, TypeOK
<1> QED BY <1>1, <1>2, <1>3, <1>4 DEF Environment, Machine

LEMMA TypeStep == TypeOK /\ [Next]_vars => TypeOK'
<1>1. TypeOK /\ UNCHANGED vars => TypeOK'
  BY DEF vars, TypeOK
<1> QED BY <1>1, ScrapeType, EnvironmentType DEF Next

\* Every variable keeps its type: a stored CPU point never has a negative
\* share, and what is marked as this process's is stored.
THEOREM ScrapeTypeCorrect == Spec => []TypeOK
  BY TypeInit, TypeStep, PTL DEF Spec

-----------------------------------------------------------------------------
(* Readings and CPU points.                                                *)

\* A reading holds what the kernel had counted when it was taken.
Faithful(h, r) ==
    /\ r.at <= Len(log[h])
    /\ r.cpu => /\ r.busy = Counter(log[h], r.at, "busy")
                /\ r.idle = Counter(log[h], r.at, "idle")

\* The previous reading, where there is one, is the last one acknowledged;
\* where it is missing between scrapes, the error says so.
HostInv(h) ==
    /\ StateFor(h).lastRaw \subseteq StateFor(h).lastOk
    /\ \A r, q \in StateFor(h).lastOk : r = q
    /\ \A r \in StateFor(h).lastOk : Faithful(h, r)
    /\ task[h].op \in {"waiting", "asking", "answered"} =>
          StateFor(h).error \/ StateFor(h).lastRaw = StateFor(h).lastOk

\* The points under way come from that reading and the current one.
TaskInv(h) ==
    /\ task[h].op \in {"answered", "storing", "finishing"} =>
          /\ Faithful(h, task[h].curr)
          /\ \A r \in StateFor(h).lastOk : r.at <= task[h].curr.at
    /\ task[h].op \in {"storing", "finishing"} =>
          \E prev \in SUBSET StateFor(h).lastOk :
             /\ task[h].points = Process(prev, task[h].curr)
             /\ StateFor(h).error \/ prev = StateFor(h).lastOk

CpuInv == \A h \in Host : HostInv(h) /\ TaskInv(h)

\* A host no step touches keeps its invariant.
LEMMA CpuFrame ==
    ASSUME NEW g \in Host, HostInv(g), TaskInv(g), log'[g] = log[g],
           task'[g] = task[g], StateFor(g)' = StateFor(g)
    PROVE  HostInv(g)' /\ TaskInv(g)'
  BY DEF HostInv, TaskInv, Faithful

\* A reading stays faithful while its machine goes on.
LEMMA FaithfulStays ==
    ASSUME TypeOK, NEW h \in Host, NEW e \in Event,
           log' = [log EXCEPT ![h] = Append(@, e)],
           NEW g \in Host, NEW r \in Reading, Faithful(g, r)
    PROVE  Faithful(g, r)'
<1>1. CASE g # h
  BY <1>1 DEF TypeOK, Faithful
<1>2. CASE g = h
  <2>1. log[h] \in Seq(Event) /\ log'[h] = Append(log[h], e)
    BY DEF TypeOK
  <2>2. r.at \in Nat /\ r.at <= Len(log[h])
    BY <1>2 DEF Reading, Faithful
  <2>3. Len(Append(log[h], e)) = Len(log[h]) + 1 /\ Len(log[h]) \in Nat
    BY <2>1
  <2>4. /\ Counter(Append(log[h], e), r.at, "busy") = Counter(log[h], r.at, "busy")
        /\ Counter(Append(log[h], e), r.at, "idle") = Counter(log[h], r.at, "idle")
    BY <2>1, <2>2, CounterStays
  <2> QED BY <1>2, <2>1, <2>2, <2>3, <2>4 DEF Faithful
<1> QED BY <1>1, <1>2

LEMMA CpuFail ==
    ASSUME TypeOK, CpuInv, NEW h \in Host, Fail(h)
    PROVE  CpuInv'
<1> DEFINE st == [StateFor(h) EXCEPT !.error = TRUE]
<1>1. StateFor(h) \in HostState /\ st \in HostState
  BY StateType DEF HostState
<1>2. /\ StateFor(h)' = st
      /\ \A g \in Host : g # h => StateFor(g)' = StateFor(g)
  BY <1>1, SetStateFact DEF Fail
<1>3. log' = log /\ task' = [task EXCEPT ![h] = Waiting]
  BY DEF Fail
<1>4. HostInv(h)' /\ TaskInv(h)'
  <2>1. task'[h] = Waiting /\ StateFor(h)'.error
    BY <1>1, <1>2, <1>3 DEF TypeOK, HostState
  <2>2. /\ StateFor(h)'.lastRaw = StateFor(h).lastRaw
        /\ StateFor(h)'.lastOk = StateFor(h).lastOk
    BY <1>1, <1>2 DEF HostState
  <2> QED BY <1>3, <2>1, <2>2 DEF CpuInv, HostInv, TaskInv, Faithful, Waiting
<1>5. ASSUME NEW g \in Host, g # h PROVE HostInv(g)' /\ TaskInv(g)'
  BY <1>2, <1>3, <1>5, CpuFrame DEF CpuInv, TypeOK
<1> QED BY <1>4, <1>5 DEF CpuInv

LEMMA CpuScrape ==
    ASSUME TypeOK, CpuInv, NEW h \in Host, ScrapeStep(h)
    PROVE  CpuInv'
<1> USE TaskShape
<1>0. StateFor(h) \in HostState
  BY StateType
<1>1. CASE Ask(h)
  <2>1. log' = log /\ \A g \in Host : StateFor(g)' = StateFor(g)
    BY <1>1 DEF Ask, StateFor
  <2>2. task'[h].op = "asking" /\ \A g \in Host : g # h => task'[g] = task[g]
    BY <1>1 DEF Ask, TypeOK
  <2>3. HostInv(h)' /\ TaskInv(h)'
    BY <1>1, <2>1, <2>2 DEF Ask, CpuInv, HostInv, TaskInv, Faithful
  <2>4. ASSUME NEW g \in Host, g # h PROVE HostInv(g)' /\ TaskInv(g)'
    BY <2>1, <2>2, <2>4, CpuFrame DEF CpuInv
  <2> QED BY <2>3, <2>4 DEF CpuInv
<1>2. CASE Collect(h)
  <2>1. log' = log /\ \A g \in Host : StateFor(g)' = StateFor(g)
    BY <1>2 DEF Collect, StateFor
  <2>2. PICK cpu \in BOOLEAN, disks \in SUBSET Readable(h) :
          task' = [task EXCEPT ![h] = [op |-> "answered",
                                       curr |-> Read(h, cpu, disks)]]
    BY <1>2 DEF Collect
  <2>3. /\ task'[h].op = "answered"
        /\ task'[h].curr = Read(h, cpu, disks)
        /\ \A g \in Host : g # h => task'[g] = task[g]
    BY <2>2 DEF TypeOK
  <2>4. Len(log[h]) \in Nat
    BY DEF TypeOK
  <2>5. Faithful(h, Read(h, cpu, disks)) /\ Read(h, cpu, disks).at = Len(log[h])
    BY <2>4 DEF Faithful, Read
  <2>6. HostInv(h)' /\ TaskInv(h)'
    <3>1. HostInv(h)'
      BY <1>2, <2>1, <2>3 DEF Collect, CpuInv, HostInv, Faithful
    <3>2. Faithful(h, task[h].curr)'
      BY <2>1, <2>3, <2>5 DEF Faithful
    <3>3. \A r \in StateFor(h)'.lastOk : r.at <= task'[h].curr.at
      BY <2>1, <2>3, <2>5 DEF CpuInv, HostInv, Faithful
    <3> QED BY <2>3, <3>1, <3>2, <3>3 DEF TaskInv
  <2>7. ASSUME NEW g \in Host, g # h PROVE HostInv(g)' /\ TaskInv(g)'
    BY <2>1, <2>3, <2>7, CpuFrame DEF CpuInv
  <2> QED BY <2>6, <2>7 DEF CpuInv
<1>3. CASE AskFail(h)
  BY <1>3, CpuFail DEF AskFail
<1>4. CASE Receive(h)
  <2> DEFINE curr   == task[h].curr
             points == Process(StateFor(h).lastRaw, curr)
             st     == [StateFor(h) EXCEPT !.lastRaw = {}]
  <2>1. st \in HostState /\ SetState(h, st)
    BY <1>0, <1>4 DEF Receive, HostState
  <2>2. /\ StateFor(h)' = st
        /\ \A g \in Host : g # h => StateFor(g)' = StateFor(g)
    BY <2>1, SetStateFact
  <2>3. /\ StateFor(h)'.lastRaw = {}
        /\ StateFor(h)'.lastOk = StateFor(h).lastOk
        /\ StateFor(h)'.error = StateFor(h).error
    BY <1>0, <2>2 DEF HostState
  <2>4. /\ log' = log
        /\ task'[h].op \in {"storing", "finishing"}
        /\ task'[h].curr = curr
        /\ task'[h].points = points
        /\ \A g \in Host : g # h => task'[g] = task[g]
    BY <1>4 DEF Receive, TypeOK
  <2>5. HostInv(h) /\ TaskInv(h) /\ task[h].op = "answered"
    BY <1>4 DEF CpuInv, Receive
  <2>6. HostInv(h)'
    BY <2>3, <2>4, <2>5 DEF HostInv, Faithful
  <2>7. TaskInv(h)'
    <3>1. Faithful(h, task[h].curr)'
      BY <2>4, <2>5 DEF TaskInv, Faithful
    <3>2. \A r \in StateFor(h)'.lastOk : r.at <= task'[h].curr.at
      BY <2>3, <2>4, <2>5 DEF TaskInv
    <3>3. /\ StateFor(h).lastRaw \in SUBSET StateFor(h)'.lastOk
          /\ task'[h].points = Process(StateFor(h).lastRaw, task'[h].curr)
          /\ StateFor(h)'.error \/ StateFor(h).lastRaw = StateFor(h)'.lastOk
      BY <2>3, <2>4, <2>5 DEF HostInv
    <3> QED BY <3>1, <3>2, <3>3 DEF TaskInv, Process
  <2>8. ASSUME NEW g \in Host, g # h PROVE HostInv(g)' /\ TaskInv(g)'
    BY <2>2, <2>4, <2>8, CpuFrame DEF CpuInv
  <2> QED BY <2>6, <2>7, <2>8 DEF CpuInv
<1>5. CASE Commit(h)
  <2>1. log' = log /\ \A g \in Host : StateFor(g)' = StateFor(g)
    BY <1>5 DEF Commit, StateFor
  <2>2. /\ task'[h] = [task[h] EXCEPT !.op = "finishing"]
        /\ \A g \in Host : g # h => task'[g] = task[g]
    BY <1>5 DEF Commit, TypeOK
  <2>3. /\ task'[h].op = "finishing" /\ task[h].op = "storing"
        /\ task'[h].curr = task[h].curr
        /\ task'[h].points = task[h].points
    <3>1. task[h] \in Task /\ task[h].op = "storing"
      BY <1>5 DEF Commit, TypeOK
    <3>2. task[h] \in [op : {"storing", "finishing"}, curr : Reading,
                       points : Points]
      BY ONLY <3>1, SMT DEF Task, Waiting
    <3> QED BY <2>2, <3>1, <3>2
  <2>4. HostInv(h)'
    BY <2>1, <2>3 DEF CpuInv, HostInv, Faithful
  <2>5. TaskInv(h)'
    <3>1. TaskInv(h)
      BY DEF CpuInv
    <3>2. PICK prev \in SUBSET StateFor(h).lastOk :
             /\ task[h].points = Process(prev, task[h].curr)
             /\ StateFor(h).error \/ prev = StateFor(h).lastOk
      BY <2>3, <3>1 DEF TaskInv
    <3>3. /\ prev \in SUBSET StateFor(h)'.lastOk
          /\ task'[h].points = Process(prev, task'[h].curr)
          /\ StateFor(h)'.error \/ prev = StateFor(h)'.lastOk
      BY <2>1, <2>3, <3>2
    <3>4. /\ Faithful(h, task[h].curr)'
          /\ \A r \in StateFor(h)'.lastOk : r.at <= task'[h].curr.at
      BY <2>1, <2>3, <3>1 DEF TaskInv, Faithful
    <3> QED BY <3>3, <3>4 DEF TaskInv, Process
  <2>6. ASSUME NEW g \in Host, g # h PROVE HostInv(g)' /\ TaskInv(g)'
    BY <2>1, <2>2, <2>6, CpuFrame DEF CpuInv
  <2> QED BY <2>4, <2>5, <2>6 DEF CpuInv
<1>6. CASE InsertFail(h)
  BY <1>6, CpuFail DEF InsertFail
<1>7. CASE Finish(h)
  <2> DEFINE curr == task[h].curr
             st   == Succeeded(StateFor(h), curr, task[h].points)
  <2>1. task[h].points \in Points /\ curr \in Reading
    BY <1>7 DEF Finish
  <2>2. st \in HostState /\ SetState(h, st)
    BY <1>0, <1>7, <2>1 DEF Finish, Succeeded, HostState, Points
  <2>3. /\ StateFor(h)' = st
        /\ \A g \in Host : g # h => StateFor(g)' = StateFor(g)
    BY <2>2, SetStateFact
  <2>4. StateFor(h)'.lastRaw = {curr} /\ StateFor(h)'.lastOk = {curr}
    BY <1>0, <2>3 DEF HostState, Succeeded
  <2>5. /\ log' = log
        /\ task'[h].op = "waiting"
        /\ \A g \in Host : g # h => task'[g] = task[g]
    BY <1>7 DEF Finish, TypeOK, Waiting
  <2>6. Faithful(h, curr)
    BY <1>7 DEF Finish, CpuInv, TaskInv
  <2>7. HostInv(h)'
    BY <2>4, <2>5, <2>6 DEF HostInv, Faithful
  <2>8. TaskInv(h)'
    BY <2>5 DEF TaskInv
  <2>9. ASSUME NEW g \in Host, g # h PROVE HostInv(g)' /\ TaskInv(g)'
    BY <2>3, <2>5, <2>9, CpuFrame DEF CpuInv
  <2> QED BY <2>7, <2>8, <2>9 DEF CpuInv
<1> QED BY <1>1, <1>2, <1>3, <1>4, <1>5, <1>6, <1>7 DEF ScrapeStep

LEMMA CpuEnvironment == TypeOK /\ CpuInv /\ Environment => CpuInv'
<1> SUFFICES ASSUME TypeOK, CpuInv, Environment PROVE CpuInv'
  OBVIOUS
<1>1. ASSUME NEW h \in Host, NEW e \in Event, Work(h, e) PROVE CpuInv'
  <2>1. /\ task' = task /\ \A g \in Host : StateFor(g)' = StateFor(g)
        /\ log' = [log EXCEPT ![h] = Append(@, e)]
    BY <1>1 DEF Work, StateFor
  <2>2. ASSUME NEW g \in Host PROVE HostInv(g)' /\ TaskInv(g)'
    <3>1. StateFor(g) \in HostState
      BY StateType
    <3>2. \A r \in StateFor(g).lastOk : Faithful(g, r)'
      BY <2>1, <3>1, FaithfulStays DEF CpuInv, HostInv, HostState
    <3>3. task[g].op \in {"answered", "storing", "finishing"}
            => Faithful(g, task[g].curr)'
      BY <2>1, TaskShape, FaithfulStays DEF CpuInv, TaskInv
    <3>4. HostInv(g)'
      BY <2>1, <3>2 DEF CpuInv, HostInv, Faithful
    <3>5. TaskInv(g)'
      BY <2>1, <3>3 DEF CpuInv, TaskInv, Faithful
    <3> QED BY <3>4, <3>5
  <2> QED BY <2>2 DEF CpuInv
<1>2. ASSUME NEW h \in Host, Remount(h) PROVE CpuInv'
  <2>1. log' = log /\ task' = task /\ \A g \in Host : StateFor(g)' = StateFor(g)
    BY <1>2 DEF Remount, StateFor
  <2> QED BY <2>1, CpuFrame DEF CpuInv
<1>3. CASE Restart
  <2>1. \A g \in Host : task'[g] = Waiting /\ StateFor(g)' = Default
    BY <1>3 DEF Restart, StateFor
  <2>2. ASSUME NEW g \in Host PROVE HostInv(g)' /\ TaskInv(g)'
    <3>1. /\ task'[g].op = "waiting"
          /\ StateFor(g)'.lastRaw = {} /\ StateFor(g)'.lastOk = {}
      BY <2>1 DEF Waiting, Default
    <3> QED BY <3>1 DEF HostInv, TaskInv
  <2> QED BY <2>2 DEF CpuInv
<1>4. CASE Calm
  <2>1. log' = log /\ task' = task /\ \A g \in Host : StateFor(g)' = StateFor(g)
    BY <1>4 DEF Calm, StateFor
  <2> QED BY <2>1, CpuFrame DEF CpuInv
<1> QED BY <1>1, <1>2, <1>3, <1>4 DEF Environment, Machine

LEMMA CpuStep == TypeOK /\ CpuInv /\ [Next]_vars => CpuInv'
<1>1. ASSUME TypeOK, CpuInv, UNCHANGED vars PROVE CpuInv'
  <2>1. log' = log /\ task' = task /\ \A g \in Host : StateFor(g)' = StateFor(g)
    BY <1>1 DEF vars, StateFor
  <2> QED BY <1>1, <2>1, CpuFrame DEF CpuInv
<1> QED BY <1>1, CpuScrape, CpuEnvironment DEF Next

LEMMA CpuInit == Init => CpuInv
<1> SUFFICES ASSUME Init, NEW h \in Host PROVE HostInv(h) /\ TaskInv(h)
  BY DEF CpuInv
<1>1. task[h] = Waiting /\ StateFor(h) = Default
  BY DEF Init, StateFor
<1> QED BY <1>1 DEF HostInv, TaskInv, Waiting, Default

\* Two faithful readings with the cpu fields, and no boot between them,
\* differ by what the machine did.
LEMMA DeltaIsTruth ==
    ASSUME TypeOK, NEW h \in Host, NEW r \in Reading, NEW c \in Reading,
           Faithful(h, r), Faithful(h, c), r.at <= c.at, r.cpu, c.cpu,
           ~BootBetween(h, r, c)
    PROVE  /\ Delta(r, c) = Truth(h, r, c)
           /\ Truth(h, r, c) \in Usage
<1>1. r.at \in Nat /\ c.at \in Nat
  BY DEF Reading
<1>2. \A i \in r.at + 1 .. c.at : log[h][i] # "boot"
  BY DEF BootBetween
<1>3. ASSUME NEW e \in {"busy", "idle"}
      PROVE  /\ Counter(log[h], c.at, e)
                  = Counter(log[h], r.at, e) + Done(log[h], r.at, c.at, e)
             /\ Counter(log[h], r.at, e) \in Nat
             /\ Done(log[h], r.at, c.at, e) \in Nat
  <2>1. e # "boot"
    OBVIOUS
  <2>2. Counter(log[h], c.at, e)
          = Counter(log[h], r.at, e) + Done(log[h], r.at, c.at, e)
    BY <1>1, <1>2, <2>1, CounterGrows
  <2> QED BY <1>1, <2>2, CounterNat, DoneNat
<1>4. /\ c.busy = r.busy + Done(log[h], r.at, c.at, "busy")
      /\ c.idle = r.idle + Done(log[h], r.at, c.at, "idle")
      /\ r.busy \in Nat /\ r.idle \in Nat
      /\ Done(log[h], r.at, c.at, "busy") \in Nat
      /\ Done(log[h], r.at, c.at, "idle") \in Nat
  BY <1>3 DEF Faithful
<1> QED BY <1>4 DEF Delta, Truth, Usage

LEMMA CpuInvExact == TypeOK /\ CpuInv => CpuExact
<1> SUFFICES ASSUME TypeOK, CpuInv, NEW h \in Host, Processed(h)
             PROVE  LET curr   == task[h].curr
                        points == task[h].points.cpu
                    IN  /\ \A u \in points : u.busy >= 0 /\ u.idle >= 0
                        /\ StateFor(h).lastOk = {} => points = {}
                        /\ \A r \in StateFor(h).lastOk :
                              r.cpu /\ curr.cpu /\ ~BootBetween(h, r, curr) =>
                                 /\ points \subseteq TruePoint(h, r, curr)
                                 /\ StateFor(h).error
                                      \/ points = TruePoint(h, r, curr)
  BY DEF CpuExact
<1> DEFINE curr   == task[h].curr
           points == task[h].points.cpu
<1>1. /\ curr \in Reading /\ task[h].points \in Points
      /\ StateFor(h) \in HostState /\ HostInv(h) /\ TaskInv(h)
  BY TaskShape, StateType DEF Processed, CpuInv
<1>2. PICK prev \in SUBSET StateFor(h).lastOk :
        /\ task[h].points = Process(prev, curr)
        /\ StateFor(h).error \/ prev = StateFor(h).lastOk
  BY <1>1 DEF TaskInv, Processed
<1>3. points = {d \in {Delta(p, curr) : p \in prev} : Usable(d)}
  BY <1>2 DEF Process
<1>4. \A u \in points : u.busy >= 0 /\ u.idle >= 0
  BY <1>3 DEF Usable
<1>5. StateFor(h).lastOk = {} => points = {}
  BY <1>3
<1>6. ASSUME NEW r \in StateFor(h).lastOk,
             r.cpu, curr.cpu, ~BootBetween(h, r, curr)
      PROVE  /\ points \subseteq TruePoint(h, r, curr)
             /\ StateFor(h).error \/ points = TruePoint(h, r, curr)
  <2>1. /\ r \in Reading /\ Faithful(h, r) /\ Faithful(h, curr)
        /\ r.at <= curr.at
    BY <1>1 DEF HostState, HostInv, TaskInv, Processed
  <2>2. Delta(r, curr) = Truth(h, r, curr) /\ Truth(h, r, curr) \in Usage
    BY <1>6, <1>1, <2>1, DeltaIsTruth
  <2>3. Usable(Truth(h, r, curr))
          <=> Truth(h, r, curr).busy + Truth(h, r, curr).idle > 0
    BY <2>2 DEF Usable, Usage
  <2>4. \A p \in StateFor(h).lastOk : p = r
    BY <1>1, <1>6 DEF HostInv
  <2> HIDE DEF curr, points
  <2>5. points \subseteq TruePoint(h, r, curr)
    BY <1>3, <2>2, <2>3, <2>4 DEF TruePoint
  <2>6. CASE StateFor(h).error
    BY <2>5, <2>6
  <2>7. CASE prev = StateFor(h).lastOk
    BY <1>3, <1>6, <2>2, <2>3, <2>4, <2>7 DEF TruePoint
  <2> QED BY <1>2, <2>5, <2>6, <2>7
<1> HIDE DEF curr, points
<1>7. QED
  BY <1>4, <1>5, <1>6 DEF curr, points

\* Where the last successful scrape's reading and the one processed both have
\* cpu fields and the machine has not rebooted between them, a CPU point is
\* exactly what the machine did from the one to the other, whatever fails,
\* restarts or is missed in between, and it is there unless a scrape since has
\* failed (scrape.rs:98-137, cpu.rs:64-80).  Over a reboot a point has no
\* negative share, no more; what it is after a reading without cpu fields is
\* CpuIsInterval's matter.
THEOREM CpuPointsAreExact == Spec => []CpuExact
<1>1. TypeOK /\ CpuInv /\ [Next]_vars => TypeOK' /\ CpuInv'
  BY TypeStep, CpuStep
<1>2. Init => TypeOK /\ CpuInv
  BY TypeInit, CpuInit
<1> QED BY <1>1, <1>2, CpuInvExact, PTL DEF Spec

-----------------------------------------------------------------------------
(* Instances.                                                              *)

\* What a host is known by is stored; what this process has stored for it
\* is known, or about to be once the scrape finishes.
InstancesInv(h) ==
    /\ StateFor(h).instances \subseteq Disks(h, stored)
    /\ task[h].op # "finishing" => Disks(h, fresh) \subseteq StateFor(h).instances
    /\ task[h].op = "finishing" =>
          /\ task[h].points.disks \subseteq Disks(h, stored)
          /\ Disks(h, fresh)
                \subseteq StateFor(h).instances \cup task[h].points.disks

InstInv == \A h \in Host : InstancesInv(h)

LEMMA InstFrame ==
    ASSUME NEW g \in Host, InstancesInv(g), task'[g] = task[g],
           StateFor(g)' = StateFor(g), Disks(g, stored)' = Disks(g, stored),
           Disks(g, fresh)' = Disks(g, fresh)
    PROVE  InstancesInv(g)'
  BY DEF InstancesInv

LEMMA InstFail ==
    ASSUME TypeOK, InstInv, NEW h \in Host, task[h].op # "finishing", Fail(h)
    PROVE  InstInv'
<1> DEFINE st == [StateFor(h) EXCEPT !.error = TRUE]
<1>1. StateFor(h) \in HostState /\ st \in HostState
  BY StateType DEF HostState
<1>2. /\ StateFor(h)' = st
      /\ \A g \in Host : g # h => StateFor(g)' = StateFor(g)
  BY <1>1, SetStateFact DEF Fail
<1>3. stored' = stored /\ fresh' = fresh /\ task' = [task EXCEPT ![h] = Waiting]
  BY DEF Fail
<1>4. InstancesInv(h)'
  <2>1. StateFor(h)'.instances = StateFor(h).instances
    BY <1>1, <1>2 DEF HostState
  <2>2. task'[h].op = "waiting"
    BY <1>3 DEF TypeOK, Waiting
  <2> QED BY <1>3, <2>1, <2>2 DEF InstInv, InstancesInv, Disks
<1>5. ASSUME NEW g \in Host, g # h PROVE InstancesInv(g)'
  BY <1>2, <1>3, <1>5, InstFrame DEF InstInv, TypeOK, Disks
<1> QED BY <1>4, <1>5 DEF InstInv

LEMMA InstScrape ==
    ASSUME TypeOK, InstInv, NEW h \in Host, ScrapeStep(h)
    PROVE  InstInv'
<1> USE TaskShape
<1>0. StateFor(h) \in HostState /\ InstancesInv(h)
  BY StateType DEF InstInv
<1>1. CASE Ask(h) \/ Collect(h)
  <2>1. /\ stored' = stored /\ fresh' = fresh
        /\ \A g \in Host : StateFor(g)' = StateFor(g)
        /\ \A g \in Host : g # h => task'[g] = task[g]
        /\ task[h].op # "finishing" /\ task'[h].op # "finishing"
    BY <1>1 DEF Ask, Collect, StateFor, TypeOK
  <2>2. InstancesInv(h)'
    BY <1>0, <2>1 DEF InstancesInv, Disks
  <2>3. ASSUME NEW g \in Host, g # h PROVE InstancesInv(g)'
    BY <2>1, <2>3, InstFrame DEF InstInv, Disks
  <2> QED BY <2>2, <2>3 DEF InstInv
<1>2. CASE AskFail(h) \/ InsertFail(h)
  BY <1>2, InstFail DEF AskFail, InsertFail
<1>3. CASE Receive(h)
  <2> DEFINE curr   == task[h].curr
             points == Process(StateFor(h).lastRaw, curr)
             st     == [StateFor(h) EXCEPT !.lastRaw = {}]
  <2>1. st \in HostState /\ SetState(h, st)
    BY <1>0, <1>3 DEF Receive, HostState
  <2>2. /\ StateFor(h)' = st
        /\ \A g \in Host : g # h => StateFor(g)' = StateFor(g)
    BY <2>1, SetStateFact
  <2>3. StateFor(h)'.instances = StateFor(h).instances
    BY <1>0, <2>2 DEF HostState
  <2>4. /\ stored' = stored /\ fresh' = fresh
        /\ task[h].op = "answered"
        /\ task'[h].points = points
        /\ task'[h].op = "finishing" => SeriesOf(h, points) = {}
        /\ \A g \in Host : g # h => task'[g] = task[g]
    BY <1>3 DEF Receive, TypeOK
  <2> HIDE DEF points
  <2>5. SeriesOf(h, points) = {} => points.disks = {}
    <3>1. \A d \in points.disks : <<h, d>> \in SeriesOf(h, points)
      BY DEF SeriesOf
    <3> QED BY <3>1
  <2>6. InstancesInv(h)'
    BY <1>0, <2>3, <2>4, <2>5 DEF InstancesInv, Disks
  <2>7. ASSUME NEW g \in Host, g # h PROVE InstancesInv(g)'
    BY <2>2, <2>4, <2>7, InstFrame DEF InstInv, Disks
  <2> QED BY <2>6, <2>7 DEF InstInv
<1>4. CASE Commit(h)
  <2> DEFINE points == task[h].points
  <2>1. /\ points \in Points /\ task[h].op = "storing"
        /\ stored' = stored \cup SeriesOf(h, points)
        /\ fresh' = fresh \cup SeriesOf(h, points)
        /\ \A g \in Host : StateFor(g)' = StateFor(g)
        /\ \A g \in Host : g # h => task'[g] = task[g]
    BY <1>4 DEF Commit, TypeOK, StateFor
  <2>2. task'[h].op = "finishing" /\ task'[h].points = points
    <3>1. task[h] \in Task /\ task[h].op = "storing"
      BY <1>4 DEF Commit, TypeOK
    <3>2. task[h] \in [op : {"storing", "finishing"}, curr : Reading,
                       points : Points]
      BY ONLY <3>1, SMT DEF Task, Waiting
    <3>3. task'[h] = [task[h] EXCEPT !.op = "finishing"]
      BY <1>4 DEF Commit, TypeOK
    <3> QED BY <3>2, <3>3
  <2>3. \A m \in Mount : m # Cpu
    BY ScrapeAssumption
  <2>4. \A m \in Mount : <<h, m>> \in SeriesOf(h, points) <=> m \in points.disks
    BY <2>3 DEF SeriesOf
  <2>5. \A g \in Host, m \in Mount :
           g # h => <<g, m>> \notin SeriesOf(h, points)
    BY DEF SeriesOf
  <2>6. points.disks \subseteq Mount
    BY <2>1 DEF Points
  <2> HIDE DEF points
  <2>7. InstancesInv(h)'
    BY <1>0, <2>1, <2>2, <2>4, <2>6 DEF InstancesInv, Disks
  <2>8. ASSUME NEW g \in Host, g # h PROVE InstancesInv(g)'
    <3>1. Disks(g, stored)' = Disks(g, stored) /\ Disks(g, fresh)' = Disks(g, fresh)
      BY <2>1, <2>5, <2>8 DEF Disks
    <3> QED BY <2>1, <2>8, <3>1, InstFrame DEF InstInv
  <2> QED BY <2>7, <2>8 DEF InstInv
<1>5. CASE Finish(h)
  <2> DEFINE st == Succeeded(StateFor(h), task[h].curr, task[h].points)
  <2>1. task[h].points \in Points /\ task[h].curr \in Reading
    BY <1>5 DEF Finish
  <2>2. st \in HostState /\ SetState(h, st)
    BY <1>0, <1>5, <2>1 DEF Finish, Succeeded, HostState, Points
  <2>3. /\ StateFor(h)' = st
        /\ \A g \in Host : g # h => StateFor(g)' = StateFor(g)
    BY <2>2, SetStateFact
  <2>4. StateFor(h)'.instances
          = StateFor(h).instances \cup task[h].points.disks
    BY <1>0, <2>3 DEF HostState, Succeeded
  <2>5. /\ stored' = stored /\ fresh' = fresh
        /\ task[h].op = "finishing" /\ task'[h].op = "waiting"
        /\ \A g \in Host : g # h => task'[g] = task[g]
    BY <1>5 DEF Finish, TypeOK, Waiting
  <2>6. InstancesInv(h)'
    BY <1>0, <2>4, <2>5 DEF InstancesInv, Disks
  <2>7. ASSUME NEW g \in Host, g # h PROVE InstancesInv(g)'
    BY <2>3, <2>5, <2>7, InstFrame DEF InstInv, Disks
  <2> QED BY <2>6, <2>7 DEF InstInv
<1> QED BY <1>1, <1>2, <1>3, <1>4, <1>5 DEF ScrapeStep

LEMMA InstRest ==
    ASSUME TypeOK, InstInv, Environment \/ UNCHANGED vars
    PROVE  InstInv'
<1>1. CASE Restart
  <2>1. ASSUME NEW g \in Host PROVE InstancesInv(g)'
    <3>1. /\ task'[g].op = "waiting" /\ StateFor(g)'.instances = {}
          /\ Disks(g, fresh)' = {}
      BY <1>1 DEF Restart, StateFor, Waiting, Default, Disks
    <3> QED BY <3>1 DEF InstancesInv
  <2> QED BY <2>1 DEF InstInv
<1>2. CASE ~Restart
  <2>1. /\ stored' = stored /\ fresh' = fresh /\ task' = task
        /\ \A g \in Host : StateFor(g)' = StateFor(g)
    BY <1>2 DEF Environment, Machine, Work, Remount, Calm, vars, StateFor
  <2>2. ASSUME NEW g \in Host PROVE InstancesInv(g)'
    <3>1. /\ Disks(g, stored)' = Disks(g, stored)
          /\ Disks(g, fresh)' = Disks(g, fresh)
      BY <2>1 DEF Disks
    <3> QED BY <2>1, <3>1, InstFrame DEF InstInv
  <2> QED BY <2>2 DEF InstInv
<1> QED BY <1>1, <1>2

LEMMA InstStep == TypeOK /\ InstInv /\ [Next]_vars => InstInv'
  BY InstScrape, InstRest DEF Next

LEMMA InstInit == Init => InstInv
<1> SUFFICES ASSUME Init, NEW h \in Host PROVE InstancesInv(h)
  BY DEF InstInv
<1>1. task[h].op = "waiting" /\ StateFor(h).instances = {} /\ fresh = {}
  BY DEF Init, StateFor, Waiting, Default
<1> QED BY <1>1 DEF InstancesInv, Disks

LEMMA InstInvBacked == TypeOK /\ InstInv => InstancesBacked
  BY DEF InstInv, InstancesInv, InstancesBacked

\* Every instance a query can fan out over has points in the store, and
\* between scrapes no instance this process has stored is missing
\* (scrape.rs:115-133).
THEOREM InstancesAreBacked == Spec => []InstancesBacked
<1>1. TypeOK /\ InstInv /\ [Next]_vars => TypeOK' /\ InstInv'
  BY TypeStep, InstStep
<1>2. Init => TypeOK /\ InstInv
  BY TypeInit, InstInit
<1> QED BY <1>1, <1>2, InstInvBacked, PTL DEF Spec

-----------------------------------------------------------------------------
(* Requests.                                                               *)

\* What is due is found or still to be asked for, and every instance asked
\* for has points.
RequestInv ==
    request.op = "reading" =>
       /\ request.due \subseteq request.todo \cup request.found
       /\ request.due \subseteq stored
       /\ request.found \subseteq stored
       /\ \A s \in request.todo : s[2] # Cpu => s \in stored

SInv == ServerTypeOK /\ InstInv /\ RequestInv

\* Scraping takes nothing away from what is stored.
LEMMA StoredGrows ==
    ASSUME Scraping
    PROVE  stored \subseteq stored' /\ request' = request
  BY DEF Scraping, ScrapeStep, Machine, Ask, Collect, AskFail, Receive, Commit,
         InsertFail, Finish, Fail, Work, Remount, Calm

LEMMA ScrapingIsNext == Scraping => Next
  BY DEF Scraping, Next, Environment

LEMMA SInvInit == ServerInit => SInv
  BY TypeInit, InstInit DEF ServerInit, SInv, ServerTypeOK, RequestInv, Idle

\* The series a request resolves: all that is due, and nothing unbacked.
LEMMA TargetsFact ==
    ASSUME TypeOK, InstInv, NEW names \in SUBSET Host, names \subseteq DOMAIN hosts,
           NEW metrics
    PROVE  /\ Targets(names, metrics) \subseteq Series
           /\ \A s \in Targets(names, metrics) : s[2] # Cpu => s \in stored
           /\ \A s \in Acknowledged :
                 s[1] \in names /\ Wanted(s, metrics)
                   => s \in Targets(names, metrics)
           /\ Acknowledged \subseteq stored
<1>1. Targets(names, metrics) \subseteq Series
  BY DEF Targets, Series
<1>2. ASSUME NEW s \in Targets(names, metrics), s[2] # Cpu PROVE s \in stored
  <2>1. /\ s = <<s[1], s[2]>> /\ s[1] \in names /\ s[1] \in Host
        /\ s[2] \in hosts[s[1]].instances
    BY <1>2 DEF Targets
  <2>2. s[2] \in StateFor(s[1]).instances
    BY <2>1 DEF StateFor
  <2>3. s[2] \in Disks(s[1], stored)
    BY <2>1, <2>2 DEF InstInv, InstancesInv
  <2> QED BY <2>1, <2>3 DEF Disks
<1>3. ASSUME NEW s \in Acknowledged, s[1] \in names, Wanted(s, metrics)
      PROVE  s \in Targets(names, metrics)
  <2>1. s \in fresh /\ s \in Series
    BY DEF Acknowledged, TypeOK
  <2>2. s = <<s[1], s[2]>> /\ s[1] \in Host /\ s[2] \in Mount \cup {Cpu}
    BY <2>1 DEF Series, Label
  <2>3. CASE s[2] = Cpu
    BY <1>3, <2>2, <2>3 DEF Wanted, Targets, Label
  <2>4. CASE s[2] # Cpu
    <3>1. s[2] \in Disks(s[1], fresh)
      BY <2>1, <2>2, <2>4 DEF Disks
    <3>2. /\ InstancesInv(s[1])
          /\ task[s[1]].op = "finishing" => task[s[1]].points \in Points
      BY <2>2, TaskShape DEF InstInv
    <3>3. task[s[1]].op = "finishing" => s[2] \notin task[s[1]].points.disks
      BY <2>2 DEF Acknowledged, SeriesOf
    <3>4. s[2] \in StateFor(s[1]).instances
      BY <3>1, <3>2, <3>3 DEF InstancesInv
    <3>5. s[2] \in hosts[s[1]].instances
      BY <1>3, <3>4 DEF StateFor
    <3> QED BY <1>3, <2>2, <2>4, <3>5 DEF Wanted, Targets, Label
  <2> QED BY <2>3, <2>4
<1>4. Acknowledged \subseteq stored
  BY DEF Acknowledged, TypeOK
<1> QED BY <1>1, <1>2, <1>3, <1>4

LEMMA SInvStep == SInv /\ [ServerNext]_serverVars => SInv'
<1> SUFFICES ASSUME SInv, [ServerNext]_serverVars PROVE SInv'
  OBVIOUS
<1> USE DEF SInv
<1>1. CASE Scraping
  <2>1. TypeOK' /\ InstInv'
    BY <1>1, ScrapingIsNext, TypeStep, InstStep DEF ServerTypeOK
  <2>2. stored \subseteq stored' /\ request' = request
    BY <1>1, StoredGrows
  <2>3. RequestInv'
    BY <2>2 DEF RequestInv
  <2> QED BY <2>1, <2>2, <2>3 DEF ServerTypeOK
<1>2. CASE ServerRestart
  <2>1. TypeOK' /\ InstInv'
    BY <1>2, TypeStep, InstStep DEF ServerTypeOK, ServerRestart, Next, Environment
  <2> QED BY <1>2, <2>1 DEF ServerRestart, ServerTypeOK, RequestInv, Idle
<1>3. CASE Query \/ UNCHANGED serverVars
  <2>1. UNCHANGED vars
    BY <1>3 DEF Query, QueryBegin, QueryOne, QueryReturn, QueryFail, serverVars
  <2>2. TypeOK' /\ InstInv'
    BY <2>1, TypeStep, InstStep DEF ServerTypeOK
  <2>3. stored' = stored
    BY <2>1 DEF vars
  <2>4. request' \in {Idle} \cup Request /\ RequestInv'
    <3>1. CASE UNCHANGED serverVars
      BY <2>3, <3>1 DEF serverVars, ServerTypeOK, RequestInv
    <3>2. ASSUME NEW names \in SUBSET Host, NEW metrics,
                 QueryBegin(names, metrics)
          PROVE  request' \in {Idle} \cup Request /\ RequestInv'
      <4> DEFINE due == {s \in Acknowledged :
                           s[1] \in names /\ Wanted(s, metrics)}
      <4>1. request' = [op |-> "reading", todo |-> Targets(names, metrics),
                        found |-> {}, due |-> due]
        BY <3>2 DEF QueryBegin
      <4>2. /\ Targets(names, metrics) \subseteq Series
            /\ \A s \in Targets(names, metrics) : s[2] # Cpu => s \in stored
            /\ due \subseteq Targets(names, metrics)
            /\ due \subseteq stored
        BY <3>2, TargetsFact DEF QueryBegin, ServerTypeOK
      <4> HIDE DEF due
      <4> QED BY <2>3, <4>1, <4>2 DEF Request, RequestInv
    <3>3. CASE QueryOne
      <4>1. request \in Request /\ request.op = "reading"
        BY <3>3 DEF QueryOne, ServerTypeOK, Idle
      <4>2. PICK s \in request.todo :
               request' = [request EXCEPT !.todo = @ \ {s},
                                          !.found = @ \cup ({s} \cap stored)]
        BY <3>3 DEF QueryOne
      <4>3. /\ request'.op = "reading"
            /\ request'.todo = request.todo \ {s}
            /\ request'.found = request.found \cup ({s} \cap stored)
            /\ request'.due = request.due
        BY <4>1, <4>2 DEF Request
      <4>4. request' \in Request
        BY <4>1, <4>2 DEF Request
      <4> QED BY <2>3, <4>1, <4>3, <4>4 DEF RequestInv
    <3>4. CASE QueryReturn \/ QueryFail
      BY <3>4 DEF QueryReturn, QueryFail, RequestInv, Idle
    <3> QED BY <1>3, <3>1, <3>2, <3>3, <3>4 DEF Query
  <2> QED BY <2>2, <2>4 DEF ServerTypeOK
<1> QED BY <1>1, <1>2, <1>3 DEF ServerNext

\* Every variable keeps its type, the request's included.
THEOREM ServerTypeCorrect == ServerSpec => []ServerTypeOK
<1>1. SInv => ServerTypeOK
  BY DEF SInv
<1> QED BY SInvInit, SInvStep, <1>1, PTL DEF ServerSpec

\* A finished answer holds every series acknowledged before the request
\* began, and only stored ones (api.rs:176-231).
THEOREM AnswersAreComplete == ServerSpec => []AnswerCovers
<1>1. SInv => AnswerCovers
  BY DEF SInv, RequestInv, AnswerCovers
<1> QED BY SInvInit, SInvStep, <1>1, PTL DEF ServerSpec

\* No instance is asked for that has no points (api.rs:185-190).
THEOREM InstancesHavePoints == ServerSpec => []NoEmptyInstance
<1>1. SInv => NoEmptyInstance
  BY DEF SInv, RequestInv, NoEmptyInstance
<1> QED BY SInvInit, SInvStep, <1>1, PTL DEF ServerSpec
=============================================================================
