------------------------------ MODULE Storage ------------------------------
(***************************************************************************)
(* The storage engine of silph-server (crates/silph-server/src/storage.rs):*)
(* three SQLite tables reached over two connections.                       *)
(*                                                                         *)
(* The application connection is behind one mutex, so it runs one insert   *)
(* or one query at a time; the maintenance connection runs compaction and  *)
(* retention beside it.  SQLite gives each write transaction the database  *)
(* write lock and each SELECT a snapshot of its own, so a step below is    *)
(* one statement, or the commit of a transaction, of one connection.       *)
(*                                                                         *)
(* A (metric, instance) pair is one member of Label; a chunk's blob is the *)
(* set of points it decodes to; tsz is lossless, so encoding is that set.  *)
(***************************************************************************)
EXTENDS Integers, Sequences, FiniteSetsExt

CONSTANTS
    Host, Label,   \* the two halves of a series' name
    Value,         \* sample values, as f64 bit patterns
    NoValue,       \* marks a second without a sample
    Quantize,      \* storage.rs quantize, as a function on Value
    Batch,         \* the point lists one scrape can hand to insert
    Span,          \* the <<first, last>> seconds a query can ask for
    MaxTime,       \* bound: last second of the modelled time line
    Window,        \* CHUNK_WINDOW_S
    Retention,     \* retention_s
    MaxInserts,    \* bound: inserts started in one behaviour
    CanRot         \* whether a blob may be damaged on disk

Time    == 0 .. MaxTime
Key     == [host : Host, label : Label]
Point   == [label : Label, value : Value]
Reading == [ts : Time, value : Value]
Row     == [id : Nat, ts : Time, value : Value]
Chunk   == [id : Nat, lo : Time, hi : Time, points : SUBSET Reading,
            ok : BOOLEAN]
CacheEntry == [key : Key, id : Nat]
History == [Key \X Time -> Value \cup {NoValue}]

ASSUME StorageAssumption ==
    /\ NoValue \notin Value
    /\ Quantize \in [Value -> Value]
    /\ Batch \subseteq Seq(Point)
    /\ Span \subseteq Time \X Time
    /\ MaxTime \in Nat
    /\ Window \in Nat \ {0}
    /\ Retention \in Nat
    /\ MaxInserts \in Nat
    /\ CanRot \in BOOLEAN

VARIABLES
    series,    \* table series: the key at position i has id i
    samples,   \* table samples: raw rows
    chunks,    \* table chunks: compacted runs
    cache,     \* Inner.series_ids: ids known to this process
    app,       \* what the application connection is doing
    maint,     \* what the maintenance task is doing
    now,       \* the wall clock, in seconds
    inserts,   \* inserts started, for MaxInserts
    \* History variables: they record, and no guard reads them.
    last,      \* the newest committed value per series and second
    horizon,   \* the largest retention cutoff committed
    moved      \* windows compacted since the running query read chunks

tables == <<series, samples, chunks>>
vars == <<series, samples, chunks, cache, app, maint, now, inserts,
          last, horizon, moved>>

-----------------------------------------------------------------------------
(* The states of the two connections.                                      *)

Idle == [op |-> "idle"]

\* An insert's transaction: its private view of the tables it writes, the
\* ids it staged, and (history) what `last' becomes if it commits.
InsertTx == [op : {"insert"}, host : Host, ts : Time, todo : Seq(Point),
             series : Seq(Key), samples : SUBSET Row,
             pending : SUBSET CacheEntry, last : History]

\* A query between its statements: "chunks" and "samples" name the SELECT
\* that runs next, "done" holds the merged points.
Query == [op : {"chunks", "samples", "done"}, key : Key, id : Nat,
          from : Time, to : Time, points : SUBSET Reading]

Pass  == [op : {"pass"}, now : Time, todo : SUBSET (Nat \X Nat)]
Merge == [op : {"merge"}, now : Time, todo : SUBSET (Nat \X Nat),
          id : Nat, w : Nat, points : SUBSET Reading]

TypeOK ==
    /\ series \in Seq(Key)
    /\ samples \in SUBSET Row
    /\ chunks \in SUBSET Chunk
    /\ cache \in SUBSET CacheEntry
    /\ app \in {Idle} \cup InsertTx \cup Query
    /\ maint \in {Idle} \cup Pass \cup Merge
    /\ now \in Time
    /\ inserts \in Nat
    /\ last \in History
    /\ horizon \in Nat
    /\ moved \in SUBSET (Nat \X Nat)

Init ==
    /\ series = <<>>
    /\ samples = {}
    /\ chunks = {}
    /\ cache = {}
    /\ app = Idle
    /\ maint = Idle
    /\ now \in Time
    /\ inserts = 0
    /\ last = [kt \in Key \X Time |-> NoValue]
    /\ horizon = 0
    /\ moved = {}

-----------------------------------------------------------------------------
(* Inner::insert: one deferred transaction, whose first statement is a     *)
(* write and so takes the write lock, held until it commits or rolls back. *)

\* INSERT OR REPLACE INTO samples, whose key is (series_id, ts_s).
Upsert(rows, r) ==
    {s \in rows : ~(s.id = r.id /\ s.ts = r.ts)} \cup {r}

\* The timestamp was taken before the wait for the mutex and the lock, and
\* the wall clock can be set in between: it may be any second.
InsertBegin(h, t, batch) ==
    /\ app = Idle
    /\ maint.op # "merge"
    /\ inserts < MaxInserts
    /\ inserts' = inserts + 1
    /\ app' = [op |-> "insert", host |-> h, ts |-> t, todo |-> batch,
               series |-> series, samples |-> samples, pending |-> {},
               last |-> last]
    /\ UNCHANGED <<tables, cache, maint, now, last, horizon, moved>>

\* The key of the next point, and the transaction once that point is
\* written under `id'.
PointKey == [host |-> app.host, label |-> Head(app.todo).label]

Stored == Quantize[Head(app.todo).value]

StagePoint(id) ==
    [app EXCEPT
       !.todo = Tail(@),
       !.samples = Upsert(@, [id |-> id, ts |-> app.ts, value |-> Stored]),
       !.last = [@ EXCEPT ![<<PointKey, app.ts>>] =
                             Quantize[Head(app.todo).value]]]

Known == {e \in cache \cup app.pending : e.key = PointKey}

\* A series this process or this transaction has already resolved.
InsertKnown ==
    /\ app.op = "insert"
    /\ app.todo # <<>>
    /\ \E e \in Known : app' = StagePoint(e.id)
    /\ UNCHANGED <<tables, cache, maint, now, inserts, last, horizon, moved>>

\* INSERT OR IGNORE INTO series, then SELECT id: the id stays local to the
\* transaction until it commits.
Resolved(srs, k) ==
    IF \E i \in DOMAIN srs : srs[i] = k THEN srs ELSE Append(srs, k)

InsertUnknown ==
    /\ app.op = "insert"
    /\ app.todo # <<>>
    /\ Known = {}
    /\ LET srs == Resolved(app.series, PointKey)
       IN  \E id \in DOMAIN srs :
             /\ srs[id] = PointKey
             /\ app' = [StagePoint(id) EXCEPT
                          !.series = srs,
                          !.pending = @ \cup {[key |-> PointKey, id |-> id]}]
    /\ UNCHANGED <<tables, cache, maint, now, inserts, last, horizon, moved>>

InsertCommit ==
    /\ app.op = "insert"
    /\ app.todo = <<>>
    /\ series' = app.series
    /\ samples' = app.samples
    /\ last' = app.last
    /\ cache' = cache \cup app.pending
    /\ app' = Idle
    /\ UNCHANGED <<chunks, maint, now, inserts, horizon, moved>>

\* Mutant: ids are cached before the commit is known to have succeeded.
InsertFailCached ==
    /\ app.op = "insert"
    /\ cache' = cache \cup app.pending
    /\ app' = Idle
    /\ UNCHANGED <<tables, maint, now, inserts, last, horizon, moved>>

\* Any statement, or the commit, may fail: the transaction rolls back.
InsertFail ==
    /\ app.op = "insert"
    /\ app' = Idle
    /\ UNCHANGED <<tables, cache, maint, now, inserts, last, horizon, moved>>

-----------------------------------------------------------------------------
(* Inner::query: three autocommit SELECTs, each over its own snapshot.     *)

QueryBegin(k, span) ==
    /\ app = Idle
    /\ LET start(op, id) == [op |-> op, key |-> k, id |-> id, from |-> span[1],
                             to |-> span[2], points |-> {}]
       IN  \/ \E id \in DOMAIN series :
                /\ series[id] = k
                /\ app' = start("chunks", id)
           \/ /\ \A id \in DOMAIN series : series[id] # k
              /\ app' = start("done", 0)
    /\ UNCHANGED <<tables, cache, maint, now, inserts, last, horizon, moved>>

InSpan(t) == app.from <= t /\ t <= app.to

\* Mutant: only chunks wholly inside the range.
OverlappingInside ==
    {c \in chunks : c.id = app.id /\ c.lo >= app.from /\ c.hi <= app.to}

\* The chunks the SELECT's range condition picks out.
Overlapping ==
    {c \in chunks : c.id = app.id /\ c.hi >= app.from /\ c.lo <= app.to}

QueryChunks ==
    /\ app.op = "chunks"
    /\ \A c \in Overlapping : c.ok
    /\ app' = [app EXCEPT
                 !.op = "samples",
                 !.points = {p \in UNION {c.points : c \in Overlapping} :
                               InSpan(p.ts)}]
    /\ moved' = {}
    /\ UNCHANGED <<tables, cache, maint, now, inserts, last, horizon>>

\* The raw points of one series, and a raw point overriding the compacted
\* point of its second.
RawOf(rows, id) ==
    {p \in Reading : [id |-> id, ts |-> p.ts, value |-> p.value] \in rows}

\* (Mutant first: the compacted point overrides the raw one.)
OverrideRaw(raw, compacted) ==
    compacted \cup {r \in raw : \A p \in compacted : r.ts # p.ts}

Override(raw, compacted) ==
    raw \cup {p \in compacted : \A r \in raw : r.ts # p.ts}

QuerySamples ==
    /\ app.op = "samples"
    /\ LET raw == {p \in RawOf(samples, app.id) : InSpan(p.ts)}
       IN  app' = [app EXCEPT !.op = "done",
                              !.points = Override(raw, @)]
    /\ UNCHANGED <<tables, cache, maint, now, inserts, last, horizon, moved>>

QueryReturn ==
    /\ app.op = "done"
    /\ app' = Idle
    /\ moved' = {}
    /\ UNCHANGED <<tables, cache, maint, now, inserts, last, horizon>>

\* A blob that does not decode, or a statement that fails, ends the query.
QueryFail ==
    /\ app.op \in {"chunks", "samples"}
    /\ app' = Idle
    /\ moved' = {}
    /\ UNCHANGED <<tables, cache, maint, now, inserts, last, horizon>>

-----------------------------------------------------------------------------
(* compact_and_prune: the windows complete when the pass starts, one       *)
(* BEGIN IMMEDIATE transaction per window, then one for retention.         *)

InWindow(t, w) == w * Window <= t /\ t < (w + 1) * Window

\* Where the window of second n starts; every window before it is complete.
\* (Mutant first: the newest complete window counts as still open.)
OpenFromLate(n) == (n \div Window - 1) * Window
OpenFrom(n) == (n \div Window) * Window

PassBegin ==
    /\ maint = Idle
    /\ maint' = [op |-> "pass", now |-> now,
                 todo |-> {<<r.id, r.ts \div Window>> :
                             r \in {s \in samples : s.ts < OpenFrom(now)}}]
    /\ UNCHANGED <<tables, cache, app, now, inserts, last, horizon, moved>>

\* A window holds as many chunks as it took.
\* (Mutant first: only the chunk that starts the window.)
ChunksAtStart(id, w) == {c \in chunks : c.id = id /\ c.lo = w * Window}
ChunksIn(id, w) == {c \in chunks : c.id = id /\ InWindow(c.lo, w)}
RowsIn(id, w)   == {r \in samples : r.id = id /\ InWindow(r.ts, w)}

\* Existing chunks first, raw rows over them.
Merged(id, w) ==
    Override(RawOf(RowsIn(id, w), id),
             UNION {c.points : c \in ChunksIn(id, w)})

\* compact_window takes the write lock before it reads anything.
CompactRead(id, w) ==
    /\ maint.op = "pass"
    /\ <<id, w>> \in maint.todo
    /\ app.op # "insert"
    /\ \A c \in ChunksIn(id, w) : c.ok
    /\ Merged(id, w) # {}
    /\ maint' = [op |-> "merge", now |-> maint.now,
                 todo |-> maint.todo \ {<<id, w>>},
                 id |-> id, w |-> w, points |-> Merged(id, w)]
    /\ UNCHANGED <<tables, cache, app, now, inserts, last, horizon, moved>>

\* Mutant: a window's error ends the pass.
CompactSkipAll(id, w) ==
    /\ maint.op = "pass"
    /\ <<id, w>> \in maint.todo
    /\ maint' = Idle
    /\ UNCHANGED <<tables, cache, app, now, inserts, last, horizon, moved>>

\* Lock timeout, a blob that does not decode, an I/O error, or nothing left
\* to merge: the window waits for the next pass.
CompactSkip(id, w) ==
    /\ maint.op = "pass"
    /\ <<id, w>> \in maint.todo
    /\ maint' = [maint EXCEPT !.todo = @ \ {<<id, w>>}]
    /\ UNCHANGED <<tables, cache, app, now, inserts, last, horizon, moved>>

\* split_encode cuts the ordered points wherever the sizes make it: two
\* points share a chunk when no cut falls between them.
TsOf(points) == {p.ts : p \in points}
Passed(p, cuts) == {c \in cuts : c <= p.ts}
Blocks(points, cuts) ==
    {{q \in points : Passed(q, cuts) = Passed(p, cuts)} : p \in points}

\* Mutant: the lower bound is exclusive.
EncodeChunkOpen(id, block) ==
    [id |-> id, lo |-> Min(TsOf(block)) - 1, hi |-> Max(TsOf(block)),
     points |-> block, ok |-> TRUE]

EncodeChunk(id, block) ==
    [id |-> id, lo |-> Min(TsOf(block)), hi |-> Max(TsOf(block)),
     points |-> block, ok |-> TRUE]

CompactCommit ==
    /\ maint.op = "merge"
    /\ \E cuts \in SUBSET TsOf(maint.points) :
          chunks' = (chunks \ ChunksIn(maint.id, maint.w))
                      \cup {EncodeChunk(maint.id, b) :
                              b \in Blocks(maint.points, cuts)}
    /\ samples' = samples \ RowsIn(maint.id, maint.w)
    /\ moved' = IF app.op = "samples"
                THEN moved \cup {<<maint.id, maint.w>>} ELSE moved
    /\ maint' = [op |-> "pass", now |-> maint.now, todo |-> maint.todo]
    /\ UNCHANGED <<series, cache, app, now, inserts, last, horizon>>

CompactAbort ==
    /\ maint.op = "merge"
    /\ maint' = [op |-> "pass", now |-> maint.now, todo |-> maint.todo]
    /\ UNCHANGED <<tables, cache, app, now, inserts, last, horizon, moved>>

Cutoff == maint.now - Retention

\* DELETE FROM chunks WHERE end_s < cutoff.
\* (Mutant first: by the chunk's first second.)
ExpiredByStart(c) == c.lo < Cutoff
ExpiredChunk(c) == c.hi < Cutoff

Prune ==
    /\ maint.op = "pass"
    /\ maint.todo = {}
    /\ app.op # "insert"
    /\ chunks' = {c \in chunks : ~ExpiredChunk(c)}
    /\ samples' = {r \in samples : r.ts >= Cutoff}
    /\ horizon' = IF Cutoff > horizon THEN Cutoff ELSE horizon
    /\ maint' = Idle
    /\ UNCHANGED <<series, cache, app, now, inserts, last, moved>>

PruneFail ==
    /\ maint.op = "pass"
    /\ maint.todo = {}
    /\ maint' = Idle
    /\ UNCHANGED <<tables, cache, app, now, inserts, last, horizon, moved>>

-----------------------------------------------------------------------------
(* The environment.                                                        *)

\* The process dies and is started again: committed rows stay (WAL), open
\* transactions roll back, the cache starts empty.
Restart ==
    /\ app' = Idle
    /\ maint' = Idle
    /\ cache' = {}
    /\ moved' = {}
    /\ UNCHANGED <<tables, now, inserts, last, horizon>>

\* The wall clock: it runs forward and may be set either way.
Tick ==
    /\ now' \in Time
    /\ UNCHANGED <<tables, cache, app, maint, inserts, last, horizon, moved>>

\* A blob is damaged on disk while nothing runs: its points are gone, and
\* with them what the store can be asked to remember.
Rot(c) ==
    /\ CanRot
    /\ c.ok
    /\ app = Idle
    /\ maint.op # "merge"
    /\ chunks' = (chunks \ {c}) \cup {[c EXCEPT !.points = {}, !.ok = FALSE]}
    /\ last' = [kt \in Key \X Time |->
                  IF /\ kt[1] = series[c.id] /\ kt[2] \in TsOf(c.points)
                     /\ kt[2] \notin TsOf(RawOf(samples, c.id))
                  THEN NoValue ELSE last[kt]]
    /\ UNCHANGED <<series, samples, cache, app, maint, now, inserts,
                   horizon, moved>>

-----------------------------------------------------------------------------

Insert ==
    \/ \E h \in Host, t \in Time, batch \in Batch : InsertBegin(h, t, batch)
    \/ InsertKnown
    \/ InsertUnknown
    \/ InsertCommit
    \/ InsertFail

Ask ==
    \/ \E k \in Key, span \in Span : QueryBegin(k, span)
    \/ QueryChunks
    \/ QuerySamples
    \/ QueryReturn
    \/ QueryFail

\* The windows the running pass has still to visit.
Todo == IF maint.op = "pass" THEN maint.todo ELSE {}

Maintain ==
    \/ PassBegin
    \/ \E iw \in Todo : CompactRead(iw[1], iw[2])
    \/ \E iw \in Todo : CompactSkip(iw[1], iw[2])
    \/ CompactCommit
    \/ CompactAbort
    \/ Prune
    \/ PruneFail

Next ==
    \/ Insert
    \/ Ask
    \/ Maintain
    \/ Restart
    \/ Tick
    \/ \E c \in chunks : Rot(c)

Spec == Init /\ [][Next]_vars

-----------------------------------------------------------------------------
(* Safety.                                                                 *)

\* What a query would answer now for one second of series k: the raw row
\* if there is one, else what the chunks hold.
RawAt(srs, rows, k, t) ==
    {v \in Value : \E id \in DOMAIN srs :
                     srs[id] = k /\ [id |-> id, ts |-> t, value |-> v] \in rows}

PackedAt(srs, k, t) ==
    {v \in Value : \E c \in chunks : /\ c.id \in DOMAIN srs /\ srs[c.id] = k
                                     /\ [ts |-> t, value |-> v] \in c.points}

ValuesAt(srs, rows, k, t) ==
    IF RawAt(srs, rows, k, t) # {} THEN RawAt(srs, rows, k, t)
                                   ELSE PackedAt(srs, k, t)

Only(v) == IF v = NoValue THEN {} ELSE {v}

\* Every second that retention has not been handed answers with exactly the
\* newest value committed there, whatever compactions, late samples,
\* rollbacks, restarts and passes lie between (storage.rs:12-13, 528-530):
\* nothing acknowledged is lost, doubled, altered or taken from another
\* series.
LastWriteVisible ==
    \A k \in Key, t \in Time :
       t >= horizon => ValuesAt(series, samples, k, t) = Only(last[<<k, t>>])

\* A cached id names the committed series it is cached for; an id that
\* rolled back never stays (storage.rs:322-324).
CacheSound ==
    \A e \in cache : e.id \in DOMAIN series /\ series[e.id] = e.key

\* Chunks of one series never overlap, and none reaches into a second
\* window, so chunk points arrive at a query ascending and unique
\* (storage.rs:401-404) and a rewritten window leaves no orphan behind
\* (storage.rs:559-561).
ChunksDisjoint ==
    /\ \A c, d \in chunks :
          c.id = d.id /\ c # d => c.hi < d.lo \/ d.hi < c.lo
    /\ \A c \in chunks : \E w \in Time : InWindow(c.lo, w) /\ InWindow(c.hi, w)

Moved(id, t) == \E m \in moved : m[1] = id /\ InWindow(t, m[2])

\* A finished query holds, for every second of its span that retention and
\* a concurrent compaction left alone, the newest committed value and
\* nothing else, and no second outside its span (storage.rs:377-488).
QueryExact ==
    app.op = "done" =>
       /\ \A p \in app.points : InSpan(p.ts)
       /\ \A t \in Time :
             InSpan(t) /\ t >= horizon /\ ~Moved(app.id, t)
                => {p.value : p \in {q \in app.points : q.ts = t}}
                     = Only(last[<<app.key, t>>])

\* What the comment on quantize asks of a query: "a query must not change
\* its answer when a window happens to get compacted underneath it"
\* (storage.rs:73-75).  QueryExact with no exception for a concurrent
\* compaction.
CompactionInvisible ==
    app.op = "done" =>
       \A t \in Time :
          InSpan(t) /\ t >= horizon
             => {p.value : p \in {q \in app.points : q.ts = t}}
                  = Only(last[<<app.key, t>>])

-----------------------------------------------------------------------------
(* Refinement: what the tables answer from the horizon on, as the          *)
(* abstract store.                                                         *)

VisibleDb ==
    [kt \in Key \X Time |->
       LET vs == ValuesAt(series, samples, kt[1], kt[2])
       IN  IF kt[2] >= horizon /\ vs # {} THEN CHOOSE v \in vs : TRUE
                                         ELSE NoValue]

Abstract == INSTANCE TimeSeries WITH db <- VisibleDb

\* The engine implements the map it stands for: an insert lands whole or
\* not at all, retention only moves the horizon, and every other step, of
\* compaction, queries, failures, restarts and the clock, is invisible.
ImplementsTimeSeries == Abstract!Spec

-----------------------------------------------------------------------------
(* Liveness.  The maintenance task runs forever (storage.rs:290-307) and   *)
(* the application's transactions end; a lock wait or an I/O error may     *)
(* defeat a step any number of times but not for ever.                     *)

Fairness ==
    /\ WF_vars(InsertKnown \/ InsertUnknown \/ InsertCommit \/ InsertFail)
    /\ WF_vars(QueryChunks \/ QuerySamples \/ QueryReturn \/ QueryFail)
    /\ WF_vars(PassBegin)
    /\ \A id \in 1 .. Cardinality(Key), w \in 0 .. (MaxTime \div Window) - 1 :
          /\ SF_vars(CompactRead(id, w))
          /\ SF_vars(CompactSkip(id, w))
    /\ SF_vars(CompactCommit)
    /\ WF_vars(CompactAbort)
    /\ SF_vars(Prune)

FairSpec == Spec /\ Fairness

\* The raw rows whose window the clock has completed, and which no damaged
\* chunk keeps from being merged.
Overdue ==
    {r \in samples : \E w \in Time :
        /\ InWindow(r.ts, w) /\ (w + 1) * Window <= now
        /\ \A c \in ChunksIn(r.id, w) : c.ok}

Expired ==
    {r \in samples : r.ts < now - Retention}
      \cup {c \in chunks : c.hi < now - Retention}

\* Once the clock stops being set back, every completed window is compacted;
\* a damaged chunk holds back its own window only (storage.rs:493-495).
EventuallyCompacted == <>[](now = MaxTime) => []<>(Overdue = {})

\* Retention holds with or without inserts and under restart churn
\* (storage.rs:286-289), and takes damaged chunks with it.
EventuallyExpired == <>[](now = MaxTime) => []<>(Expired = {})
=============================================================================
