--------------------------- MODULE StorageProofs ----------------------------
(***************************************************************************)
(* Theorems about Storage, for every value of its constants.               *)
(***************************************************************************)
EXTENDS Storage, LoopProofs

-----------------------------------------------------------------------------
(* Arithmetic of windows.                                                  *)

\* Multiplying by a window length keeps order.
LEMMA Mono ==
  ASSUME NEW a \in Nat, NEW b \in Nat, NEW n \in Nat, a <= b
  PROVE  a * n <= b * n
  BY SMT

\* The window index PassBegin computes is a number.
LEMMA DivNat ==
  ASSUME NEW t \in Nat, NEW n \in Nat \ {0}
  PROVE  t \div n \in Nat
  BY SMT

-----------------------------------------------------------------------------
(* The records the two connections hold, told apart by their op field.     *)

\* An application connection inside an insert holds a transaction record.
LEMMA InsertShape == TypeOK /\ app.op = "insert" => app \in InsertTx
  BY DEF TypeOK, Idle, Query

\* One inside a query holds a query record.
LEMMA QueryShape ==
  TypeOK /\ app.op \in {"chunks", "samples", "done"} => app \in Query
  BY DEF TypeOK, Idle, InsertTx

\* Likewise for the maintenance connection.
LEMMA PassShape == TypeOK /\ maint.op = "pass" => maint \in Pass
  BY DEF TypeOK, Idle, Merge

LEMMA MergeShape == TypeOK /\ maint.op = "merge" => maint \in Merge
  BY DEF TypeOK, Idle, Pass

\* What an insert adds to its transaction for one point is well typed.
LEMMA StagedType ==
  ASSUME TypeOK, app.op = "insert", app.todo # <<>>, NEW id \in Nat
  PROVE  /\ StagePoint(id) \in InsertTx
         /\ PointKey \in Key
         /\ Stored \in Value
         /\ Tail(app.todo) \in Seq(Point)
  <1>1. app \in InsertTx
    BY InsertShape
  <1>2. /\ app.host \in Host
        /\ app.ts \in Time
        /\ app.todo \in Seq(Point)
        /\ app.samples \in SUBSET Row
        /\ app.last \in History
    BY <1>1 DEF InsertTx
  <1>3. Head(app.todo) \in Point /\ Tail(app.todo) \in Seq(Point)
    BY <1>2
  <1>4. PointKey \in Key
    BY <1>2, <1>3 DEF PointKey, Key, Point
  <1>5. Stored \in Value /\ Quantize[Head(app.todo).value] \in Value
    BY <1>3, StorageAssumption DEF Stored, Point
  <1>6. Upsert(app.samples, [id |-> id, ts |-> app.ts, value |-> Stored])
          \in SUBSET Row
    BY <1>2, <1>5 DEF Upsert, Row
  <1>7. [app.last EXCEPT ![<<PointKey, app.ts>>] =
                            Quantize[Head(app.todo).value]] \in History
    BY <1>2, <1>4, <1>5 DEF History
  <1>8. StagePoint(id) \in InsertTx
    BY <1>1, <1>3, <1>6, <1>7 DEF StagePoint, InsertTx
  <1> QED
    BY <1>3, <1>4, <1>5, <1>8

-----------------------------------------------------------------------------
(* The bounds of an encoded chunk.                                         *)

\* A set of seconds that is not empty has a first and a last one.
LEMMA MinMax ==
  ASSUME NEW T \in SUBSET Time, T # {}
  PROVE  /\ Min(T) \in T /\ \A t \in T : Min(T) <= t
         /\ Max(T) \in T /\ \A t \in T : t <= Max(T)
  <1>1. MaxTime \in Nat /\ \A t \in T : t \in Nat /\ t <= MaxTime
    BY StorageAssumption DEF Time
  <1>2. \E m \in T : \A t \in T : m <= t
    BY <1>1, Least
  <1>3. \E m \in T : \A t \in T : t <= m
    <2> DEFINE R == {MaxTime - t : t \in T}
    <2>1. R \in SUBSET Nat
      BY <1>1
    <2>2. R # {}
      OBVIOUS
    <2>3. PICK r \in R : \A y \in R : r <= y
      <3> HIDE DEF R
      <3> QED BY <2>1, <2>2, Least
    <2>4. PICK m \in T : r = MaxTime - m
      OBVIOUS
    <2>5. ASSUME NEW t \in T PROVE t <= m
      <3>1. MaxTime - t \in R
        OBVIOUS
      <3> QED
        BY <1>1, <2>3, <2>4, <3>1
    <2> QED
      BY <2>5
  <1>4. Min(T) \in T /\ \A t \in T : Min(T) <= t
    BY <1>2 DEF Min
  <1>5. Max(T) \in T /\ \A t \in T : Max(T) >= t
    BY <1>3, <1>1 DEF Max
  <1> QED
    BY <1>1, <1>4, <1>5

\* The bounds of a chunk bound its points, and two of them carry them.
LEMMA EncodeShape ==
  ASSUME NEW b \in SUBSET Reading, b # {}
  PROVE  /\ Min(TsOf(b)) \in Time
         /\ Max(TsOf(b)) \in Time
         /\ \A p \in b : Min(TsOf(b)) <= p.ts /\ p.ts <= Max(TsOf(b))
         /\ \E p \in b : p.ts = Min(TsOf(b))
         /\ \E p \in b : p.ts = Max(TsOf(b))
  <1>1. TsOf(b) \in SUBSET Time /\ TsOf(b) # {}
    BY DEF TsOf, Reading
  <1>2. /\ Min(TsOf(b)) \in TsOf(b) /\ \A t \in TsOf(b) : Min(TsOf(b)) <= t
        /\ Max(TsOf(b)) \in TsOf(b) /\ \A t \in TsOf(b) : t <= Max(TsOf(b))
    BY <1>1, MinMax
  <1>3. \A p \in b : p.ts \in TsOf(b)
    BY DEF TsOf
  <1>4. \A t \in TsOf(b) : \E p \in b : p.ts = t
    BY DEF TsOf
  <1> QED
    BY <1>1, <1>2, <1>3, <1>4

-----------------------------------------------------------------------------
(* Type correctness.                                                       *)

LEMMA TypeInit == Init => TypeOK
  BY StorageAssumption
     DEF Init, TypeOK, Time, Key, Row, Chunk, Idle, History

\* Inserts.
LEMMA TypeInsert == TypeOK /\ Insert => TypeOK'
  <1> SUFFICES ASSUME TypeOK, Insert PROVE TypeOK'
    OBVIOUS
  <1>1. ASSUME NEW h \in Host, NEW t \in Time, NEW batch \in Batch,
               InsertBegin(h, t, batch)
        PROVE  TypeOK'
    <2>1. batch \in Seq(Point)
      BY StorageAssumption
    <2>2. app' \in InsertTx
      BY <1>1, <2>1 DEF InsertBegin, TypeOK, InsertTx
    <2> QED
      BY <1>1, <2>2 DEF InsertBegin, TypeOK, tables
  <1>2. CASE InsertKnown
    <2>1. PICK e \in Known : app' = StagePoint(e.id)
      BY <1>2 DEF InsertKnown
    <2>2. app \in InsertTx
      BY <1>2, InsertShape DEF InsertKnown
    <2>3. e.id \in Nat
      BY <2>2 DEF Known, TypeOK, CacheEntry, InsertTx
    <2>4. app' \in InsertTx
      BY <1>2, <2>1, <2>3, StagedType DEF InsertKnown
    <2> QED
      BY <1>2, <2>4 DEF InsertKnown, TypeOK, tables
  <1>3. CASE InsertUnknown
    <2> DEFINE srs == Resolved(app.series, PointKey)
    <2>1. PICK id \in DOMAIN srs :
             app' = [StagePoint(id) EXCEPT
                       !.series = srs,
                       !.pending = @ \cup {[key |-> PointKey, id |-> id]}]
      BY <1>3 DEF InsertUnknown
    <2>2. app \in InsertTx
      BY <1>3, InsertShape DEF InsertUnknown
    <2>3. PointKey \in Key
      BY <1>3, StagedType DEF InsertUnknown
    <2>4. srs \in Seq(Key)
      BY <2>2, <2>3 DEF Resolved, InsertTx
    <2>5. id \in Nat
      BY <2>4
    <2>6. StagePoint(id) \in InsertTx
      BY <1>3, <2>5, StagedType DEF InsertUnknown
    <2>7. app' \in InsertTx
      <3> DEFINE stg == StagePoint(id)
                 pend == stg.pending \cup {[key |-> PointKey, id |-> id]}
      <3>1. stg \in InsertTx
        BY <2>6
      <3>2. pend \in SUBSET CacheEntry
        <4> HIDE DEF stg
        <4> QED BY <2>3, <2>5, <3>1 DEF InsertTx, CacheEntry
      <3>3. app' = [stg EXCEPT !.series = srs, !.pending = pend]
        BY <2>1
      <3> HIDE DEF stg, pend, srs
      <3> QED
        BY <2>4, <3>1, <3>2, <3>3 DEF InsertTx
    <2> QED
      BY <1>3, <2>7 DEF InsertUnknown, TypeOK, tables
  <1>4. CASE InsertCommit
    BY <1>4, InsertShape DEF InsertCommit, TypeOK, InsertTx
  <1>5. CASE InsertFail
    BY <1>5 DEF InsertFail, TypeOK, tables
  <1> QED
    BY <1>1, <1>2, <1>3, <1>4, <1>5 DEF Insert

\* Queries.
LEMMA TypeAsk == TypeOK /\ Ask => TypeOK'
  <1> SUFFICES ASSUME TypeOK, Ask PROVE TypeOK'
    OBVIOUS
  <1>1. ASSUME NEW k \in Key, NEW span \in Span, QueryBegin(k, span)
        PROVE  TypeOK'
    <2>1. span[1] \in Time /\ span[2] \in Time
      BY StorageAssumption
    <2>2. \A id \in DOMAIN series : id \in Nat
      BY DEF TypeOK
    <2>3. app' \in Query
      BY <1>1, <2>1, <2>2 DEF QueryBegin, Query
    <2> QED
      BY <1>1, <2>3 DEF QueryBegin, TypeOK, tables
  <1>2. CASE QueryChunks
    <2>1. app \in Query
      BY <1>2, QueryShape DEF QueryChunks
    <2>2. UNION {c.points : c \in Overlapping} \in SUBSET Reading
      BY DEF Overlapping, TypeOK, Chunk
    <2>3. app' \in Query
      BY <1>2, <2>1, <2>2 DEF QueryChunks, Query
    <2> QED
      BY <1>2, <2>3 DEF QueryChunks, TypeOK, tables
  <1>3. CASE QuerySamples
    <2>1. app \in Query
      BY <1>3, QueryShape DEF QuerySamples
    <2>2. app' \in Query
      BY <1>3, <2>1 DEF QuerySamples, Query, Override, RawOf
    <2> QED
      BY <1>3, <2>2 DEF QuerySamples, TypeOK, tables
  <1>4. CASE QueryReturn
    BY <1>4 DEF QueryReturn, TypeOK, tables
  <1>5. CASE QueryFail
    BY <1>5 DEF QueryFail, TypeOK, tables
  <1> QED
    BY <1>1, <1>2, <1>3, <1>4, <1>5 DEF Ask

\* Maintenance.
LEMMA TypeMaintain == TypeOK /\ Maintain => TypeOK'
  <1> SUFFICES ASSUME TypeOK, Maintain PROVE TypeOK'
    OBVIOUS
  <1>1. CASE PassBegin
    <2>1. \A r \in samples : r.id \in Nat /\ r.ts \div Window \in Nat
      BY StorageAssumption, DivNat DEF TypeOK, Row, Time
    <2> DEFINE todo == {<<r.id, r.ts \div Window>> :
                          r \in {s \in samples : s.ts < OpenFrom(now)}}
    <2>2. todo \in SUBSET (Nat \X Nat)
      BY <2>1
    <2>3. maint' = [op |-> "pass", now |-> now, todo |-> todo]
      BY <1>1 DEF PassBegin
    <2>4. maint' \in Pass
      <3> HIDE DEF todo
      <3> QED BY <2>2, <2>3 DEF TypeOK, Pass
    <2> QED
      BY <1>1, <2>4 DEF PassBegin, TypeOK, tables
  <1>2. ASSUME NEW iw \in Todo, CompactRead(iw[1], iw[2])
        PROVE  TypeOK'
    <2>1. maint \in Pass
      BY <1>2, PassShape DEF CompactRead
    <2>2. iw \in Nat \X Nat
      BY <2>1 DEF Todo, Pass
    <2>3. Merged(iw[1], iw[2]) \in SUBSET Reading
      BY DEF Merged, Override, RawOf, RowsIn, ChunksIn, TypeOK, Chunk
    <2>4. maint' \in Merge
      BY <1>2, <2>1, <2>2, <2>3 DEF CompactRead, Pass, Merge
    <2> QED
      BY <1>2, <2>4 DEF CompactRead, TypeOK, tables
  <1>3. ASSUME NEW iw \in Todo, CompactSkip(iw[1], iw[2])
        PROVE  TypeOK'
    <2>1. maint \in Pass
      BY <1>3, PassShape DEF CompactSkip
    <2>2. maint' \in Pass
      BY <1>3, <2>1 DEF CompactSkip, Pass
    <2> QED
      BY <1>3, <2>2 DEF CompactSkip, TypeOK, tables
  <1>4. CASE CompactCommit
    <2>1. maint \in Merge
      BY <1>4, MergeShape DEF CompactCommit
    <2>2. maint' \in Pass
      BY <1>4, <2>1 DEF CompactCommit, Pass, Merge
    <2>3. chunks' \in SUBSET Chunk
      <3>1. PICK cuts \in SUBSET TsOf(maint.points) :
              chunks' = (chunks \ ChunksIn(maint.id, maint.w))
                          \cup {EncodeChunk(maint.id, b) :
                                  b \in Blocks(maint.points, cuts)}
        BY <1>4 DEF CompactCommit
      <3>2. ASSUME NEW b \in Blocks(maint.points, cuts)
            PROVE  EncodeChunk(maint.id, b) \in Chunk
        <4>1. b \in SUBSET Reading /\ b # {}
          BY <2>1 DEF Blocks, Merge
        <4> QED
          BY <2>1, <4>1, EncodeShape DEF Merge, Chunk, EncodeChunk
      <3> QED
        BY <3>1, <3>2 DEF TypeOK
    <2>4. samples' \in SUBSET Row
      BY <1>4 DEF CompactCommit, TypeOK
    <2>5. moved' \in SUBSET (Nat \X Nat)
      BY <1>4, <2>1 DEF CompactCommit, TypeOK, Merge
    <2> QED
      BY <1>4, <2>2, <2>3, <2>4, <2>5 DEF CompactCommit, TypeOK
  <1>5. CASE CompactAbort
    <2>1. maint' \in Pass
      BY <1>5, MergeShape DEF CompactAbort, Pass, Merge
    <2> QED
      BY <1>5, <2>1 DEF CompactAbort, TypeOK, tables
  <1>6. CASE Prune
    <2>1. Cutoff \in Int
      BY <1>6, PassShape, StorageAssumption DEF Prune, Pass, Cutoff, Time
    <2>2. horizon' \in Nat
      BY <1>6, <2>1 DEF Prune, TypeOK
    <2>3. chunks' \in SUBSET Chunk /\ samples' \in SUBSET Row
      BY <1>6 DEF Prune, TypeOK
    <2> QED
      BY <1>6, <2>2, <2>3 DEF Prune, TypeOK
  <1>7. CASE PruneFail
    BY <1>7 DEF PruneFail, TypeOK, tables
  <1> QED
    BY <1>1, <1>2, <1>3, <1>4, <1>5, <1>6, <1>7 DEF Maintain

\* The environment.
LEMMA TypeRest ==
  TypeOK /\ (Restart \/ Tick \/ \E c \in chunks : Rot(c)) => TypeOK'
  <1> SUFFICES ASSUME TypeOK, Restart \/ Tick \/ \E c \in chunks : Rot(c)
               PROVE  TypeOK'
    OBVIOUS
  <1>1. CASE Restart
    BY <1>1 DEF Restart, TypeOK, tables
  <1>2. CASE Tick
    BY <1>2 DEF Tick, TypeOK, tables
  <1>3. ASSUME NEW c \in chunks, Rot(c) PROVE TypeOK'
    <2>1. c \in Chunk
      BY DEF TypeOK
    <2>2. [c EXCEPT !.points = {}, !.ok = FALSE] \in Chunk
      BY <2>1 DEF Chunk
    <2>3. chunks' \in SUBSET Chunk
      BY <1>3, <2>2 DEF Rot, TypeOK
    <2>4. last' \in History
      BY <1>3 DEF Rot, TypeOK, History
    <2> QED
      BY <1>3, <2>3, <2>4 DEF Rot, TypeOK
  <1> QED
    BY <1>1, <1>2, <1>3

\* Every step of the engine keeps every variable in its type.
LEMMA TypeStep == TypeOK /\ [Next]_vars => TypeOK'
  <1> SUFFICES ASSUME TypeOK, [Next]_vars PROVE TypeOK'
    OBVIOUS
  <1>1. CASE UNCHANGED vars
    BY <1>1 DEF vars, tables, TypeOK
  <1> QED
    BY <1>1, TypeInsert, TypeAsk, TypeMaintain, TypeRest DEF Next

\* The tables, the two connections and the cache keep their types: every
\* chunk compact_window writes has bounds inside the time line, and every
\* id staged or cached is a number.
THEOREM TypeCorrect == Spec => []TypeOK
  <1>1. Init => TypeOK
    BY TypeInit
  <1>2. TypeOK /\ [Next]_vars => TypeOK'
    BY TypeStep
  <1> QED
    BY <1>1, <1>2, PTL DEF Spec

-----------------------------------------------------------------------------
(* The inductive invariant.  LastWriteVisible alone is not inductive: an   *)
(* insert works on a copy of the tables, a compaction on the points it     *)
(* read, and both rest on what an id and a chunk's bounds mean.            *)

\* What the tables answer for one second of one series id.
RowAt(rows, id, t) ==
    {v \in Value : [id |-> id, ts |-> t, value |-> v] \in rows}

PackAt(id, t) ==
    {v \in Value : \E c \in chunks : /\ c.id = id
                                     /\ [ts |-> t, value |-> v] \in c.points}

AnswerAt(rows, id, t) ==
    IF RowAt(rows, id, t) # {} THEN RowAt(rows, id, t) ELSE PackAt(id, t)

\* A series has one id, and rows and cache entries name ids that exist.
Resolves(srs, rows, entries) ==
    /\ \A i, j \in DOMAIN srs : srs[i] = srs[j] => i = j
    /\ \A r \in rows : r.id \in DOMAIN srs
    /\ \A e \in entries : e.id \in DOMAIN srs /\ srs[e.id] = e.key

\* Every id answers with the newest value written, and a series without an
\* id has never been written.
Faithful(srs, rows, lst) ==
    /\ \A id \in DOMAIN srs, t \in Time :
          t >= horizon => AnswerAt(rows, id, t) = Only(lst[<<srs[id], t>>])
    /\ \A k \in Key, t \in Time :
          (\A id \in DOMAIN srs : srs[id] # k) => lst[<<k, t>>] = NoValue

ChunkShape ==
    \A c \in chunks :
       /\ c.id \in DOMAIN series
       /\ c.lo <= c.hi
       /\ \A p \in c.points : c.lo <= p.ts /\ p.ts <= c.hi
       /\ \E w \in Time : InWindow(c.lo, w) /\ InWindow(c.hi, w)

Disjoint ==
    \A c, d \in chunks : c.id = d.id /\ c # d => c.hi < d.lo \/ d.hi < c.lo

Committed ==
    /\ Resolves(series, samples, cache)
    /\ Faithful(series, samples, last)
    /\ ChunkShape
    /\ Disjoint

\* The write lock, and what each of its two holders relies on.
InTx ==
    app.op = "insert" =>
       /\ maint.op # "merge"
       /\ Len(series) <= Len(app.series)
       /\ Resolves(app.series, app.samples, cache \cup app.pending)
       /\ Faithful(app.series, app.samples, app.last)

InMerge ==
    maint.op = "merge" => maint.points = Merged(maint.id, maint.w)

IInv == TypeOK /\ Committed /\ InTx /\ InMerge

-----------------------------------------------------------------------------
(* Steps that leave the tables alone.                                      *)

LEMMA InvInit == Init => IInv
  <1> SUFFICES ASSUME Init PROVE IInv
    OBVIOUS
  <1>1. TypeOK
    BY TypeInit
  <1>2. Committed
    BY DEF Init, Committed, Resolves, Faithful, ChunkShape, Disjoint
  <1>3. InTx /\ InMerge
    BY DEF Init, Idle, InTx, InMerge
  <1> QED
    BY <1>1, <1>2, <1>3 DEF IInv

\* The committed part rests on six variables only.
LEMMA FrameCommitted ==
  ASSUME Committed,
         UNCHANGED <<series, samples, chunks, cache, last, horizon>>
  PROVE  Committed'
  <1>1. \A rows, i, t : AnswerAt(rows, i, t)' = AnswerAt(rows, i, t)
    BY DEF AnswerAt, RowAt, PackAt
  <1>2. Faithful(series, samples, last)'
    BY <1>1 DEF Faithful, Committed
  <1>3. Resolves(series, samples, cache)'
    BY DEF Resolves, Committed
  <1>4. ChunkShape' /\ Disjoint'
    BY DEF ChunkShape, Disjoint, Committed
  <1> QED
    BY <1>2, <1>3, <1>4 DEF Committed

\* An open insert is not disturbed while its record, the chunks and the
\* horizon stay, unless a merge starts beside it.
LEMMA FrameTx ==
  ASSUME InTx, UNCHANGED <<series, chunks, cache, horizon, app>>,
         app.op = "insert" => maint'.op # "merge"
  PROVE  InTx'
  <1>1. \A rows, i, t : AnswerAt(rows, i, t)' = AnswerAt(rows, i, t)
    BY DEF AnswerAt, RowAt, PackAt
  <1>2. \A srs, rows, lst : Faithful(srs, rows, lst)' = Faithful(srs, rows, lst)
    BY <1>1 DEF Faithful
  <1>3. \A srs, rows, entries :
          Resolves(srs, rows, entries)' = Resolves(srs, rows, entries)
    BY DEF Resolves
  <1> QED
    BY <1>2, <1>3 DEF InTx

\* Nor is an open merge while the tables stay.
LEMMA FrameMerge ==
  ASSUME InMerge, UNCHANGED <<samples, chunks, maint>>
  PROVE  InMerge'
  <1>1. Merged(maint.id, maint.w)' = Merged(maint.id, maint.w)
    BY DEF Merged, ChunksIn, RowsIn
  <1> QED
    BY <1>1 DEF InMerge

\* Queries write nothing.
LEMMA InvAsk == IInv /\ Ask => IInv'
  <1> SUFFICES ASSUME IInv, Ask PROVE IInv'
    OBVIOUS
  <1>1. TypeOK'
    BY TypeAsk DEF IInv
  <1>2. UNCHANGED <<tables, cache, maint, last, horizon>> /\ app'.op # "insert"
    <2>1. ASSUME NEW k \in Key, NEW span \in Span, QueryBegin(k, span)
          PROVE  <1>2!1 /\ <1>2!2
      BY <2>1 DEF QueryBegin
    <2>2. CASE QueryChunks
      BY <2>2, QueryShape DEF QueryChunks, Query, IInv
    <2>3. CASE QuerySamples
      BY <2>3, QueryShape DEF QuerySamples, Query, IInv
    <2>4. CASE QueryReturn
      BY <2>4 DEF QueryReturn, Idle
    <2>5. CASE QueryFail
      BY <2>5 DEF QueryFail, Idle
    <2> QED
      BY <2>1, <2>2, <2>3, <2>4, <2>5 DEF Ask
  <1>3. Committed'
    BY <1>2, FrameCommitted DEF IInv, tables
  <1>4. InTx'
    BY <1>2 DEF InTx
  <1>5. InMerge'
    BY <1>2, FrameMerge DEF IInv, tables
  <1> QED
    BY <1>1, <1>3, <1>4, <1>5 DEF IInv

-----------------------------------------------------------------------------
(* Inserts.                                                                *)

\* One point staged under the id of its series keeps the copy faithful:
\* the new row answers for its own second, and no other key has that id.
LEMMA Staging ==
  ASSUME TypeOK, app.op = "insert", app.todo # <<>>,
         NEW srs \in Seq(Key), NEW id \in DOMAIN srs, srs[id] = PointKey,
         Resolves(srs, app.samples, {}),
         Faithful(srs, app.samples, app.last)
  PROVE  /\ \A r \in StagePoint(id).samples : r.id \in DOMAIN srs
         /\ Faithful(srs, StagePoint(id).samples, StagePoint(id).last)
  <1> DEFINE row == [id |-> id, ts |-> app.ts, value |-> Stored]
             rows == Upsert(app.samples, row)
             lst == [app.last EXCEPT ![<<PointKey, app.ts>>] = Stored]
  <1>1. /\ app \in InsertTx
        /\ app.ts \in Time
        /\ app.samples \in SUBSET Row
        /\ app.last \in History
    BY InsertShape DEF InsertTx
  <1>2. PointKey \in Key /\ Stored \in Value /\ Stored # NoValue
    BY StagedType, StorageAssumption, <1>1 DEF Resolves
  <1>3. StagePoint(id).samples = rows /\ StagePoint(id).last = lst
    BY <1>1 DEF StagePoint, InsertTx, Stored
  <1>4. \A r \in rows : r.id \in DOMAIN srs
    BY DEF Upsert, Resolves
  <1>5. \A k \in Key, t \in Time :
          lst[<<k, t>>] = IF k = PointKey /\ t = app.ts THEN Stored
                          ELSE app.last[<<k, t>>]
    BY <1>1, <1>2 DEF History
  <1>6. ASSUME NEW i \in DOMAIN srs, NEW t \in Time, t >= horizon
        PROVE  AnswerAt(rows, i, t) = Only(lst[<<srs[i], t>>])
    <2>1. srs[i] \in Key
      OBVIOUS
    <2>2. CASE i = id /\ t = app.ts
      <3>1. \A v : [id |-> id, ts |-> app.ts, value |-> v] \in rows
                    <=> v = Stored
        <4>1. [id |-> id, ts |-> app.ts, value |-> Stored] \in rows
          BY DEF Upsert
        <4>2. ASSUME NEW v, [id |-> id, ts |-> app.ts, value |-> v] \in rows
              PROVE  v = Stored
          BY <4>2 DEF Upsert
        <4> QED
          BY <4>1, <4>2
      <3>2. RowAt(rows, i, t) = {Stored}
        <4> HIDE DEF rows
        <4> QED BY <1>2, <2>2, <3>1 DEF RowAt
      <3>3. AnswerAt(rows, i, t) = {Stored}
        <4> HIDE DEF rows
        <4> QED BY <3>2 DEF AnswerAt
      <3>4. srs[i] = PointKey
        BY <2>2
      <3>5. lst[<<srs[i], t>>] = Stored
        BY <1>5, <2>1, <2>2, <3>4
      <3> QED
        BY <1>2, <3>3, <3>5 DEF Only
    <2>3. CASE ~(i = id /\ t = app.ts)
      <3>1. RowAt(rows, i, t) = RowAt(app.samples, i, t)
        BY <1>1, <2>3 DEF RowAt, Upsert
      <3>2. ~(srs[i] = PointKey /\ t = app.ts)
        BY <2>3 DEF Resolves
      <3> QED
        BY <1>5, <1>6, <2>1, <3>1, <3>2 DEF AnswerAt, Faithful
    <2> QED
      BY <2>2, <2>3
  <1>7. ASSUME NEW k \in Key, NEW t \in Time, \A i \in DOMAIN srs : srs[i] # k
        PROVE  lst[<<k, t>>] = NoValue
    BY <1>5, <1>7 DEF Faithful
  <1> QED
    BY <1>3, <1>4, <1>6, <1>7 DEF Faithful

\* A new series takes the next id, which no row and no chunk has.
LEMMA NewSeries ==
  ASSUME TypeOK, ChunkShape, NEW srs \in Seq(Key), NEW k \in Key,
         Len(series) <= Len(srs), \A i \in DOMAIN srs : srs[i] # k,
         NEW rows \in SUBSET Row, NEW lst \in History, NEW entries,
         Resolves(srs, rows, entries), Faithful(srs, rows, lst)
  PROVE  /\ Resolves(Append(srs, k), rows, entries)
         /\ Faithful(Append(srs, k), rows, lst)
  <1> DEFINE new == Append(srs, k)
             n == Len(srs) + 1
  <1>1. /\ new \in Seq(Key) /\ DOMAIN new = DOMAIN srs \cup {n}
        /\ n \notin DOMAIN srs /\ new[n] = k
        /\ \A i \in DOMAIN srs : new[i] = srs[i]
    OBVIOUS
  <1>2. Resolves(new, rows, entries)
    BY <1>1 DEF Resolves
  <1>3. \A t \in Time : AnswerAt(rows, n, t) = {}
    <2>1. n \notin DOMAIN series
      BY DEF TypeOK
    <2>2. \A t \in Time : RowAt(rows, n, t) = {}
      BY <1>1 DEF RowAt, Resolves
    <2>3. \A t \in Time : PackAt(n, t) = {}
      BY <2>1 DEF PackAt, ChunkShape
    <2> QED
      BY <2>2, <2>3 DEF AnswerAt
  <1>4. \A t \in Time : lst[<<k, t>>] = NoValue
    BY DEF Faithful
  <1>5. Faithful(new, rows, lst)
    <2> HIDE DEF new, n
    <2>1. ASSUME NEW id \in DOMAIN new, NEW t \in Time, t >= horizon
          PROVE  AnswerAt(rows, id, t) = Only(lst[<<new[id], t>>])
      <3>1. CASE id = n
        BY <1>1, <1>3, <1>4, <3>1 DEF Only
      <3>2. CASE id # n
        <4>1. id \in DOMAIN srs /\ new[id] = srs[id]
          BY <1>1, <3>2
        <4> QED BY <2>1, <4>1 DEF Faithful
      <3> QED BY <3>1, <3>2
    <2>2. ASSUME NEW key \in Key, NEW t \in Time, \A id \in DOMAIN new : new[id] # key
          PROVE  lst[<<key, t>>] = NoValue
      <3>1. \A id \in DOMAIN srs : srs[id] # key
        BY <1>1, <2>2
      <3> QED BY <3>1 DEF Faithful
    <2> QED BY <2>1, <2>2 DEF Faithful
  <1> QED
    BY <1>2, <1>5

\* What ids answer depends on the chunks and the horizon alone.
LEMMA FrameFaithful ==
  ASSUME UNCHANGED <<chunks, horizon>>
  PROVE  \A srs, rows, lst : Faithful(srs, rows, lst)' = Faithful(srs, rows, lst)
  <1>1. \A rows, i, t : AnswerAt(rows, i, t)' = AnswerAt(rows, i, t)
    BY DEF AnswerAt, RowAt, PackAt
  <1> QED
    BY <1>1 DEF Faithful

LEMMA FrameResolves ==
  \A srs, rows, entries :
     Resolves(srs, rows, entries)' = Resolves(srs, rows, entries)
  BY DEF Resolves

\* An insert commits whole: its copy of the tables was faithful at every
\* point, and a rollback leaves the tables and the cache as they were.
LEMMA InvInsert == IInv /\ Insert => IInv'
  <1> SUFFICES ASSUME IInv, Insert PROVE IInv'
    OBVIOUS
  <1>0. TypeOK /\ Committed /\ InTx /\ InMerge /\ TypeOK'
    BY TypeInsert DEF IInv
  <1> SUFFICES Committed' /\ InTx' /\ InMerge'
    BY <1>0 DEF IInv
  <1>1. ASSUME NEW h \in Host, NEW t \in Time, NEW batch \in Batch,
               InsertBegin(h, t, batch)
        PROVE  Committed' /\ InTx' /\ InMerge'
    <2>1. Committed' /\ InMerge'
      BY <1>0, <1>1, FrameCommitted, FrameMerge DEF InsertBegin, tables
    <2>2. /\ app'.series = series /\ app'.samples = samples
          /\ app'.pending = {} /\ app'.last = last
      BY <1>1 DEF InsertBegin
    <2>3. Faithful(series, samples, last)'
      BY <2>1 DEF Committed
    <2>4. UNCHANGED <<series, samples, chunks, cache, maint, last, horizon>>
      BY <1>1 DEF InsertBegin, tables
    <2>5. Faithful(app.series, app.samples, app.last)'
      BY <2>2, <2>3, <2>4
    <2>6. Resolves(app.series, app.samples, cache \cup app.pending)'
      BY <1>0, <2>2, <2>4 DEF Committed, Resolves
    <2>7. Len(series') <= Len(app'.series)
      BY <1>0, <2>2, <2>4 DEF TypeOK
    <2>8. maint'.op # "merge"
      BY <1>1 DEF InsertBegin
    <2> QED
      BY <2>1, <2>5, <2>6, <2>7, <2>8 DEF InTx
  <1>2. CASE InsertKnown
    <2>1. PICK e \in Known : app' = StagePoint(e.id)
      BY <1>2 DEF InsertKnown
    <2>2. /\ app.op = "insert" /\ app.todo # <<>> /\ app \in InsertTx
          /\ UNCHANGED <<series, samples, chunks, cache, maint, last, horizon>>
      BY <1>0, <1>2, InsertShape DEF InsertKnown, tables
    <2>3. Committed' /\ InMerge'
      BY <1>0, <2>2, FrameCommitted, FrameMerge
    <2>4. /\ maint.op # "merge" /\ Len(series) <= Len(app.series)
          /\ Resolves(app.series, app.samples, cache \cup app.pending)
          /\ Faithful(app.series, app.samples, app.last)
      BY <1>0, <2>2 DEF InTx
    <2>5. e.id \in DOMAIN app.series /\ app.series[e.id] = PointKey
      BY <2>4 DEF Known, Resolves
    <2>6. Resolves(app.series, app.samples, {})
      BY <2>4 DEF Resolves
    <2>7. app.series \in Seq(Key)
      BY <2>2 DEF InsertTx
    <2>8. /\ \A r \in app'.samples : r.id \in DOMAIN app.series
          /\ Faithful(app.series, app'.samples, app'.last)
      BY <1>0, <2>1, <2>2, <2>4, <2>5, <2>6, <2>7, Staging
    <2>9. app'.series = app.series /\ app'.pending = app.pending
      BY <2>1, <2>2 DEF StagePoint, InsertTx
    <2>10. Faithful(app.series, app.samples, app.last)'
      BY <2>2, <2>8, <2>9, FrameFaithful
    <2>11. Resolves(app.series, app.samples, cache \cup app.pending)'
      BY <2>2, <2>4, <2>8, <2>9 DEF Resolves
    <2> QED
      BY <2>2, <2>3, <2>4, <2>9, <2>10, <2>11 DEF InTx
  <1>3. CASE InsertUnknown
    <2> DEFINE srs == Resolved(app.series, PointKey)
    <2>1. PICK id \in DOMAIN srs :
             /\ srs[id] = PointKey
             /\ app' = [StagePoint(id) EXCEPT
                          !.series = srs,
                          !.pending = @ \cup {[key |-> PointKey, id |-> id]}]
      BY <1>3 DEF InsertUnknown
    <2>2. /\ app.op = "insert" /\ app.todo # <<>> /\ app \in InsertTx
          /\ UNCHANGED <<series, samples, chunks, cache, maint, last, horizon>>
      BY <1>0, <1>3, InsertShape DEF InsertUnknown, tables
    <2>3. Committed' /\ InMerge'
      BY <1>0, <2>2, FrameCommitted, FrameMerge
    <2>4. /\ maint.op # "merge" /\ Len(series) <= Len(app.series)
          /\ Resolves(app.series, app.samples, cache \cup app.pending)
          /\ Faithful(app.series, app.samples, app.last)
      BY <1>0, <2>2 DEF InTx
    <2>5. /\ app.series \in Seq(Key) /\ app.samples \in SUBSET Row
          /\ app.last \in History /\ PointKey \in Key
      BY <1>0, <2>2, StagedType DEF InsertTx
    <2>6. /\ srs \in Seq(Key) /\ Len(series) <= Len(srs)
          /\ Resolves(srs, app.samples, cache \cup app.pending)
          /\ Faithful(srs, app.samples, app.last)
      <3>1. CASE \E i \in DOMAIN app.series : app.series[i] = PointKey
        BY <2>4, <2>5, <3>1 DEF Resolved
      <3>2. CASE \A i \in DOMAIN app.series : app.series[i] # PointKey
        <4>1. srs = Append(app.series, PointKey)
          BY <3>2 DEF Resolved
        <4>2. /\ Resolves(srs, app.samples, cache \cup app.pending)
              /\ Faithful(srs, app.samples, app.last)
          BY <1>0, <2>4, <2>5, <3>2, <4>1, NewSeries DEF Committed
        <4>3. srs \in Seq(Key) /\ Len(srs) = Len(app.series) + 1
          BY <2>5, <4>1
        <4>4. Len(series) \in Nat /\ Len(app.series) \in Nat
          BY <1>0, <2>5 DEF TypeOK
        <4> HIDE DEF srs
        <4> QED
          BY <2>4, <4>2, <4>3, <4>4
      <3> QED
        BY <3>1, <3>2
    <2> HIDE DEF srs
    <2>7. Resolves(srs, app.samples, {})
      BY <2>6 DEF Resolves
    <2>8. /\ \A r \in StagePoint(id).samples : r.id \in DOMAIN srs
          /\ Faithful(srs, StagePoint(id).samples, StagePoint(id).last)
      BY <1>0, <2>1, <2>2, <2>6, <2>7, Staging
    <2>9. /\ app'.series = srs
          /\ app'.samples = StagePoint(id).samples
          /\ app'.last = StagePoint(id).last
          /\ app'.pending = app.pending \cup {[key |-> PointKey, id |-> id]}
      BY <2>1, <2>2 DEF StagePoint, InsertTx
    <2>10. Faithful(app.series, app.samples, app.last)'
      BY <2>2, <2>8, <2>9, FrameFaithful
    <2>11. Resolves(app.series, app.samples, cache \cup app.pending)'
      <3>1. Resolves(srs, app'.samples, cache \cup app'.pending)
        BY <2>1, <2>6, <2>8, <2>9 DEF Resolves
      <3> QED
        BY <2>2, <2>9, <3>1, FrameResolves
    <2> QED
      BY <2>2, <2>3, <2>4, <2>6, <2>9, <2>10, <2>11 DEF InTx
  <1>4. CASE InsertCommit
    <2>1. /\ app.op = "insert" /\ app' = Idle
          /\ series' = app.series /\ samples' = app.samples
          /\ last' = app.last /\ cache' = cache \cup app.pending
          /\ UNCHANGED <<chunks, maint, horizon>>
      BY <1>4 DEF InsertCommit
    <2>2. /\ maint.op # "merge" /\ Len(series) <= Len(app.series)
          /\ Resolves(app.series, app.samples, cache \cup app.pending)
          /\ Faithful(app.series, app.samples, app.last)
      BY <1>0, <2>1 DEF InTx
    <2>3. Resolves(series, samples, cache)'
      BY <2>1, <2>2, FrameResolves
    <2>4. Faithful(series, samples, last)'
      BY <2>1, <2>2, FrameFaithful
    <2>5. DOMAIN series \subseteq DOMAIN series'
      BY <1>0, <2>1, <2>2, InsertShape DEF TypeOK, InsertTx
    <2>6. ChunkShape' /\ Disjoint'
      BY <1>0, <2>1, <2>5 DEF Committed, ChunkShape, Disjoint
    <2>7. InTx' /\ InMerge'
      BY <2>1, <2>2 DEF InTx, InMerge, Idle
    <2> QED
      BY <2>3, <2>4, <2>6, <2>7 DEF Committed
  <1>5. CASE InsertFail
    <2>1. Committed' /\ InMerge'
      BY <1>0, <1>5, FrameCommitted, FrameMerge DEF InsertFail, tables
    <2>2. InTx'
      BY <1>5 DEF InTx, InsertFail, Idle
    <2> QED
      BY <2>1, <2>2
  <1> QED
    BY <1>0, <1>1, <1>2, <1>3, <1>4, <1>5 DEF Insert

-----------------------------------------------------------------------------
(* Compaction.                                                             *)

\* A second of an earlier window lies before any second of a later one.
LEMMA WindowOrder ==
  ASSUME NEW a \in Int, NEW b \in Int, NEW v \in Nat, NEW w \in Nat,
         InWindow(a, v), InWindow(b, w), v < w
  PROVE  a < b
  <1>1. (v + 1) * Window <= w * Window
    BY Mono, StorageAssumption
  <1>2. a < (v + 1) * Window /\ w * Window <= b
    BY DEF InWindow
  <1>3. (v + 1) * Window \in Int /\ w * Window \in Int
    BY StorageAssumption
  <1> QED
    BY <1>1, <1>2, <1>3

\* A second is in one window.
LEMMA WindowUnique ==
  ASSUME NEW a \in Int, NEW v \in Nat, NEW w \in Nat,
         InWindow(a, v), InWindow(a, w)
  PROVE  v = w
  BY WindowOrder

\* A chunk that has any of its points in window w is one of ChunksIn.
LEMMA ChunkWindow ==
  ASSUME TypeOK, ChunkShape, NEW c \in chunks, NEW w \in Nat
  PROVE  /\ InWindow(c.lo, w) => InWindow(c.hi, w)
         /\ \A p \in c.points : InWindow(p.ts, w) <=> InWindow(c.lo, w)
  <1>1. c \in Chunk
    BY DEF TypeOK
  <1>2. /\ c.lo \in Int /\ c.hi \in Int
        /\ \A p \in c.points : p.ts \in Int /\ c.lo <= p.ts /\ p.ts <= c.hi
    BY <1>1, StorageAssumption DEF Chunk, Reading, Time, ChunkShape
  <1>3. PICK v \in Time : InWindow(c.lo, v) /\ InWindow(c.hi, v)
    BY DEF ChunkShape
  <1>4. v \in Nat /\ v * Window \in Int /\ (v + 1) * Window \in Int
    BY StorageAssumption DEF Time
  <1>5. \A p \in c.points : InWindow(p.ts, v)
    BY <1>2, <1>3, <1>4 DEF InWindow
  <1>6. \A a \in Int : InWindow(a, v) /\ InWindow(a, w) => v = w
    BY <1>4, WindowUnique
  <1> QED
    BY <1>2, <1>3, <1>5, <1>6

\* The points a merge collects lie in its window.
LEMMA MergedWindow ==
  ASSUME TypeOK, ChunkShape, NEW id \in Nat, NEW w \in Nat
  PROVE  /\ Merged(id, w) \in SUBSET Reading
         /\ \A p \in Merged(id, w) : InWindow(p.ts, w)
  <1>1. ASSUME NEW p \in Merged(id, w)
        PROVE  p \in Reading /\ InWindow(p.ts, w)
    <2>1. CASE p \in RawOf(RowsIn(id, w), id)
      BY <2>1 DEF RawOf, RowsIn
    <2>2. CASE p \in UNION {c.points : c \in ChunksIn(id, w)}
      <3>1. PICK c \in ChunksIn(id, w) : p \in c.points
        BY <2>2
      <3>2. c \in chunks /\ c \in Chunk /\ InWindow(c.lo, w)
        BY DEF ChunksIn, TypeOK
      <3> QED
        BY <3>1, <3>2, ChunkWindow DEF Chunk
    <2> QED
      BY <2>1, <2>2 DEF Merged, Override
  <1> QED
    BY <1>1

\* They are what the store answers for the window.
LEMMA MergedAnswers ==
  ASSUME TypeOK, ChunkShape, NEW id \in Nat, NEW w \in Nat,
         NEW t \in Time, InWindow(t, w)
  PROVE  AnswerAt(samples, id, t) =
           {v \in Value : [ts |-> t, value |-> v] \in Merged(id, w)}
  <1> DEFINE raw == RawOf(RowsIn(id, w), id)
             packed == UNION {c.points : c \in ChunksIn(id, w)}
  <1>1. \A v \in Value :
          [ts |-> t, value |-> v] \in raw <=> v \in RowAt(samples, id, t)
    BY DEF RawOf, RowsIn, RowAt, Reading
  <1>2. \A v \in Value :
          [ts |-> t, value |-> v] \in packed <=> v \in PackAt(id, t)
    <2>1. ASSUME NEW v \in Value, v \in PackAt(id, t)
          PROVE  [ts |-> t, value |-> v] \in packed
      <3>1. PICK c \in chunks : c.id = id /\ [ts |-> t, value |-> v] \in c.points
        BY <2>1 DEF PackAt
      <3>2. InWindow(c.lo, w)
        BY <3>1, ChunkWindow
      <3> QED
        BY <3>1, <3>2 DEF ChunksIn
    <2>2. ASSUME NEW v \in Value, [ts |-> t, value |-> v] \in packed
          PROVE  v \in PackAt(id, t)
      BY <2>2 DEF PackAt, ChunksIn
    <2> QED
      BY <2>1, <2>2
  <1>3. \A r \in raw : r \in Reading /\ (r.ts = t => r.value \in RowAt(samples, id, t))
    BY DEF RawOf, RowsIn, RowAt, Reading
  <1>4. \A v \in Value :
          [ts |-> t, value |-> v] \in Merged(id, w) <=>
             \/ [ts |-> t, value |-> v] \in raw
             \/ /\ [ts |-> t, value |-> v] \in packed
                /\ \A r \in raw : r.ts # t
    BY DEF Merged, Override
  <1>5. RowAt(samples, id, t) \subseteq Value /\ PackAt(id, t) \subseteq Value
    BY DEF RowAt, PackAt
  <1>6. (\A r \in raw : r.ts # t) <=> RowAt(samples, id, t) = {}
    <2>1. ASSUME \A r \in raw : r.ts # t, NEW v \in RowAt(samples, id, t)
          PROVE  FALSE
      <3> HIDE DEF raw
      <3>1. [ts |-> t, value |-> v] \in raw
        BY <1>1, <1>5
      <3> QED BY <2>1, <3>1
    <2> QED
      <3> HIDE DEF raw
      <3> QED BY <1>3, <2>1
  <1> HIDE DEF raw, packed
  <1> QED
    BY <1>1, <1>2, <1>4, <1>5, <1>6 DEF AnswerAt

\* split_encode's pieces cover the points, and two of them never mix.
LEMMA BlocksCover ==
  ASSUME NEW points \in SUBSET Reading, NEW cuts
  PROVE  /\ \A b \in Blocks(points, cuts) : b \in SUBSET points /\ b # {}
         /\ \A p \in points : \E b \in Blocks(points, cuts) : p \in b
  <1> DEFINE Block(p) == {q \in points : Passed(q, cuts) = Passed(p, cuts)}
  <1>1. \A p \in points : Block(p) \in SUBSET points /\ p \in Block(p)
    OBVIOUS
  <1>2. Blocks(points, cuts) = {Block(p) : p \in points}
    BY DEF Blocks
  <1> HIDE DEF Block
  <1> QED
    BY <1>1, <1>2

LEMMA BlocksApart ==
  ASSUME NEW points \in SUBSET Reading, NEW cuts \in SUBSET Time,
         NEW b \in Blocks(points, cuts), NEW d \in Blocks(points, cuts), b # d
  PROVE  \/ \A p \in b, q \in d : p.ts < q.ts
         \/ \A p \in b, q \in d : q.ts < p.ts
  <1>1. PICK x \in points : b = {q \in points : Passed(q, cuts) = Passed(x, cuts)}
    BY DEF Blocks
  <1>2. PICK y \in points : d = {q \in points : Passed(q, cuts) = Passed(y, cuts)}
    BY DEF Blocks
  <1>3. Passed(x, cuts) # Passed(y, cuts)
    BY <1>1, <1>2
  <1>4. PICK c \in cuts : (c \in Passed(x, cuts)) # (c \in Passed(y, cuts))
    BY <1>3 DEF Passed
  <1>5. \A p \in b : c \in Passed(p, cuts) <=> c \in Passed(x, cuts)
    BY <1>1
  <1>6. \A q \in d : c \in Passed(q, cuts) <=> c \in Passed(y, cuts)
    BY <1>2
  <1>7. \A p \in points : c \in Passed(p, cuts) <=> c <= p.ts
    BY DEF Passed
  <1>8. c \in Int /\ \A p \in points : p.ts \in Int
    BY StorageAssumption DEF Time, Reading
  <1>9. b \subseteq points /\ d \subseteq points
    BY BlocksCover
  <1> QED
    BY <1>4, <1>5, <1>6, <1>7, <1>8, <1>9

\* What a chunk written for the block b of a window w of one series is.
Writes(c, id, w, b) ==
    /\ c.id = id /\ c.points = b
    /\ c.lo \in Time /\ c.hi \in Time /\ c.lo <= c.hi
    /\ InWindow(c.lo, w) /\ InWindow(c.hi, w)
    /\ \A p \in b : c.lo <= p.ts /\ p.ts <= c.hi
    /\ \E p \in b : p.ts = c.lo
    /\ \E p \in b : p.ts = c.hi

LEMMA NewChunk ==
  ASSUME NEW id \in Nat, NEW w \in Nat, NEW points \in SUBSET Reading,
         \A p \in points : InWindow(p.ts, w),
         NEW b \in SUBSET points, b # {}
  PROVE  Writes(EncodeChunk(id, b), id, w, b)
  <1> DEFINE c == EncodeChunk(id, b)
  <1>1. b \in SUBSET Reading
    OBVIOUS
  <1>2. c.id = id /\ c.points = b /\ c.lo = Min(TsOf(b)) /\ c.hi = Max(TsOf(b))
    BY DEF EncodeChunk
  <1> HIDE DEF c
  <1>3. /\ c.lo \in Time /\ c.hi \in Time
        /\ \A p \in b : c.lo <= p.ts /\ p.ts <= c.hi
        /\ \E p \in b : p.ts = c.lo
        /\ \E p \in b : p.ts = c.hi
    BY <1>1, <1>2, EncodeShape
  <1>4. InWindow(c.lo, w) /\ InWindow(c.hi, w)
    BY <1>3
  <1>5. c.lo <= c.hi
    BY <1>3
  <1> QED
    BY <1>2, <1>3, <1>4, <1>5 DEF c, Writes

\* What compact_window leaves alone: a second of another window or another
\* series has the chunk points it had.
LEMMA CommitElsewhere ==
  ASSUME IInv, CompactCommit, NEW i \in Nat, NEW t \in Time,
         ~(i = maint.id /\ InWindow(t, maint.w))
  PROVE  PackAt(i, t)' = PackAt(i, t)
  <1> DEFINE id == maint.id
             w == maint.w
             points == maint.points
  <1>0. TypeOK /\ ChunkShape
    BY DEF IInv, Committed
  <1>1. /\ maint.op = "merge" /\ id \in Nat /\ w \in Nat
        /\ points = Merged(id, w)
    BY MergeShape DEF CompactCommit, Merge, IInv, InMerge
  <1>2. points \in SUBSET Reading /\ \A p \in points : InWindow(p.ts, w)
    BY <1>0, <1>1, MergedWindow
  <1>3. PICK cuts \in SUBSET TsOf(points) :
          chunks' = (chunks \ ChunksIn(id, w))
                      \cup {EncodeChunk(id, b) : b \in Blocks(points, cuts)}
    BY DEF CompactCommit
  <1> HIDE DEF id, w, points
  <1>4. ~(i = id /\ InWindow(t, w))
    BY DEF id, w
  <1>5. ASSUME NEW c \in chunks', c.id = i, NEW v, [ts |-> t, value |-> v] \in c.points
        PROVE  c \in chunks
    <2>1. ASSUME NEW b \in Blocks(points, cuts), c = EncodeChunk(id, b)
          PROVE  FALSE
      <3>1. b \in SUBSET points /\ b # {}
        BY <1>2, BlocksCover
      <3>2. Writes(EncodeChunk(id, b), id, w, b)
        BY <1>1, <1>2, <3>1, NewChunk
      <3>3. i = id /\ [ts |-> t, value |-> v] \in points
        BY <1>5, <2>1, <3>1, <3>2 DEF Writes
      <3> QED
        BY <1>2, <1>4, <3>3
    <2> QED
      BY <1>3, <2>1
  <1>6. ASSUME NEW c \in chunks, c.id = i, NEW v, [ts |-> t, value |-> v] \in c.points
        PROVE  c \in chunks'
    <2>1. ~(c.id = id /\ InWindow(c.lo, w))
      BY <1>0, <1>1, <1>4, <1>6, ChunkWindow
    <2> QED
      BY <1>3, <2>1 DEF ChunksIn
  <1> QED
    BY <1>5, <1>6 DEF PackAt

\* compact_window's commit: the window's chunks and rows go, the blocks of
\* what was read come, and no second answers differently.
LEMMA InvCompactCommit ==
  ASSUME IInv, TypeOK', CompactCommit
  PROVE  IInv'
  <1> DEFINE id == maint.id
             w == maint.w
             points == maint.points
  <1>0. /\ TypeOK /\ Committed /\ ChunkShape /\ Disjoint
        /\ Resolves(series, samples, cache) /\ Faithful(series, samples, last)
    BY DEF IInv, Committed
  <1>1. /\ maint.op = "merge" /\ id \in Nat /\ w \in Nat
        /\ points = Merged(id, w) /\ app.op # "insert"
    BY MergeShape DEF CompactCommit, Merge, IInv, InMerge, InTx
  <1> HIDE DEF id, w, points
  <1>2. points \in SUBSET Reading /\ \A p \in points : InWindow(p.ts, w)
    BY <1>0, <1>1, MergedWindow
  <1>3. PICK cuts \in SUBSET TsOf(points) :
          chunks' = (chunks \ ChunksIn(id, w))
                      \cup {EncodeChunk(id, b) : b \in Blocks(points, cuts)}
    BY DEF CompactCommit, id, w, points
  <1>4. cuts \in SUBSET Time
    BY <1>2 DEF TsOf, Reading
  <1>5. /\ samples' = samples \ RowsIn(id, w)
        /\ maint'.op = "pass"
        /\ UNCHANGED <<series, cache, app, last, horizon>>
    BY DEF CompactCommit, id, w
  \* The two kinds of chunk after the commit.
  <1>6. \A c \in chunks' :
          \/ c \in chunks /\ ~(c.id = id /\ InWindow(c.lo, w))
          \/ \E b \in Blocks(points, cuts) : c = EncodeChunk(id, b)
    BY <1>3 DEF ChunksIn
  <1>7. ASSUME NEW b \in Blocks(points, cuts)
        PROVE  /\ b \in SUBSET points /\ b # {}
               /\ Writes(EncodeChunk(id, b), id, w, b)
    <2>1. b \in SUBSET points /\ b # {}
      BY <1>2, BlocksCover
    <2> QED
      BY <1>1, <1>2, <2>1, NewChunk
  <1>8. points # {} => id \in DOMAIN series
    <2>1. ASSUME NEW p \in points PROVE id \in DOMAIN series
      <3>1. CASE p \in RawOf(RowsIn(id, w), id)
        BY <1>0, <3>1 DEF RawOf, RowsIn, Resolves
      <3>2. CASE p \in UNION {c.points : c \in ChunksIn(id, w)}
        BY <1>0, <3>2 DEF ChunksIn, ChunkShape
      <3> QED
        BY <1>1, <3>1, <3>2 DEF Merged, Override
    <2> QED
      BY <2>1
  \* Shape and disjointness.
  <1>9. ChunkShape'
    <2> DEFINE Good(c) ==
            /\ c.id \in DOMAIN series
            /\ c.lo <= c.hi
            /\ \A p \in c.points : c.lo <= p.ts /\ p.ts <= c.hi
            /\ \E v \in Time : InWindow(c.lo, v) /\ InWindow(c.hi, v)
    <2>1. ASSUME NEW c \in chunks' PROVE Good(c)
      <3>1. CASE c \in chunks
        BY <1>0, <3>1 DEF ChunkShape
      <3>2. ASSUME NEW b \in Blocks(points, cuts), c = EncodeChunk(id, b)
            PROVE  Good(c)
        <4>1. w \in Time
          <5>1. c.lo \in Nat /\ c.lo <= MaxTime /\ w * Window <= c.lo
            BY <1>7, <3>2, StorageAssumption DEF Time, InWindow, Writes
          <5>2. w <= w * Window
            BY <1>1, StorageAssumption, SMT
          <5> QED
            BY <1>1, <5>1, <5>2, StorageAssumption DEF Time
        <4> QED
          BY <1>7, <1>8, <3>2, <4>1 DEF Writes
      <3> QED
        BY <1>6, <3>1, <3>2
    <2> QED
      BY <1>5, <2>1 DEF ChunkShape, InWindow
  <1>10. Disjoint'
    <2> DEFINE Apart(c, d) == c.id = d.id /\ c # d => c.hi < d.lo \/ d.hi < c.lo
    <2>1. \A c, d \in chunks : Apart(c, d)
      BY <1>0 DEF Disjoint
    \* A chunk that stays lies in another window than a new one.
    <2>2. ASSUME NEW c \in chunks, ~(c.id = id /\ InWindow(c.lo, w)),
                 NEW b \in Blocks(points, cuts)
          PROVE  Apart(c, EncodeChunk(id, b)) /\ Apart(EncodeChunk(id, b), c)
      <3> DEFINE e == EncodeChunk(id, b)
      <3>1. /\ e.id = id /\ e.lo \in Int /\ e.hi \in Int
            /\ InWindow(e.lo, w) /\ InWindow(e.hi, w)
        BY <1>7, StorageAssumption DEF Time, Writes
      <3> HIDE DEF e
      <3>2. SUFFICES ASSUME c.id = id PROVE c.hi < e.lo \/ e.hi < c.lo
        BY <3>1 DEF e
      <3>3. PICK v \in Time : InWindow(c.lo, v) /\ InWindow(c.hi, v)
        BY <1>0 DEF ChunkShape
      <3>4. c.lo \in Int /\ c.hi \in Int /\ v \in Nat
        BY <1>0, StorageAssumption DEF TypeOK, Chunk, Time
      <3>5. v # w
        BY <2>2, <3>2, <3>3
      <3>6. CASE v < w
        BY <1>1, <3>1, <3>3, <3>4, <3>6, WindowOrder
      <3>7. CASE w < v
        BY <1>1, <3>1, <3>3, <3>4, <3>7, WindowOrder
      <3> QED
        BY <1>1, <3>4, <3>5, <3>6, <3>7
    \* Two new ones are cut apart.
    <2>3. ASSUME NEW b \in Blocks(points, cuts), NEW d \in Blocks(points, cuts)
          PROVE  Apart(EncodeChunk(id, b), EncodeChunk(id, d))
      <3>1. CASE b = d
        BY <3>1
      <3>2. CASE b # d
        BY <1>2, <1>4, <1>7, <3>2, BlocksApart DEF Writes
      <3> QED
        BY <3>1, <3>2
    <2>4. \A c, d \in chunks' : Apart(c, d)
      <3> HIDE DEF Apart
      <3> QED BY <1>6, <2>1, <2>2, <2>3
    <2> QED
      BY <2>4 DEF Disjoint
  \* No second answers differently.
  <1>11. ASSUME NEW i \in Nat, NEW t \in Time
         PROVE  AnswerAt(samples, i, t)' = AnswerAt(samples, i, t)
    <2>1. CASE i = id /\ InWindow(t, w)
      <3>1. RowAt(samples', i, t) = {}
        BY <1>5, <2>1 DEF RowAt, RowsIn
      <3>2. ASSUME NEW v \in Value
            PROVE  (\E c \in chunks' : c.id = i /\ [ts |-> t, value |-> v] \in c.points)
                     <=> [ts |-> t, value |-> v] \in points
        <4>1. ASSUME NEW c \in chunks', c.id = i, [ts |-> t, value |-> v] \in c.points
              PROVE  [ts |-> t, value |-> v] \in points
          <5>1. CASE c \in chunks /\ ~(c.id = id /\ InWindow(c.lo, w))
            BY <1>0, <1>1, <2>1, <4>1, <5>1, ChunkWindow
          <5>2. ASSUME NEW b \in Blocks(points, cuts), c = EncodeChunk(id, b)
                PROVE  [ts |-> t, value |-> v] \in points
            BY <1>7, <4>1, <5>2 DEF Writes
          <5> QED
            BY <1>6, <5>1, <5>2
        <4>2. ASSUME [ts |-> t, value |-> v] \in points
              PROVE  \E c \in chunks' : c.id = i /\ [ts |-> t, value |-> v] \in c.points
          <5>1. PICK b \in Blocks(points, cuts) : [ts |-> t, value |-> v] \in b
            BY <1>2, <4>2, BlocksCover
          <5>2. EncodeChunk(id, b) \in chunks'
            BY <1>3
          <5> QED
            BY <1>7, <2>1, <5>1, <5>2 DEF Writes
        <4> QED
          BY <4>1, <4>2
      <3>3. AnswerAt(samples, i, t)' = {v \in Value : [ts |-> t, value |-> v] \in points}
        BY <3>1, <3>2 DEF AnswerAt, RowAt, PackAt
      <3> QED
        BY <1>0, <1>1, <2>1, <3>3, MergedAnswers
    <2>2. CASE ~(i = id /\ InWindow(t, w))
      <3>1. RowAt(samples, i, t)' = RowAt(samples, i, t)
        BY <1>5, <2>2 DEF RowAt, RowsIn
      <3>2. PackAt(i, t)' = PackAt(i, t)
        BY <2>2, CommitElsewhere DEF id, w
      <3> QED
        BY <3>1, <3>2 DEF AnswerAt
    <2> QED
      BY <2>1, <2>2
  <1>12. Faithful(series, samples, last)'
    <2>1. \A i \in DOMAIN series : i \in Nat
      BY <1>0 DEF TypeOK
    <2>2. \A i \in DOMAIN series, t \in Time :
            AnswerAt(samples, i, t)' = AnswerAt(samples, i, t)
      BY <1>11, <2>1
    <2> QED
      BY <1>0, <1>5, <2>2 DEF Faithful
  <1>13. Resolves(series, samples, cache)'
    BY <1>0, <1>5 DEF Resolves
  <1> QED
    BY <1>1, <1>5, <1>9, <1>10, <1>12, <1>13
       DEF IInv, Committed, InTx, InMerge

-----------------------------------------------------------------------------
(* Retention and the rest of a pass.                                       *)

\* What retention deletes lies before its cutoff.
LEMMA PruneElsewhere ==
  ASSUME IInv, Prune, NEW i \in Nat, NEW t \in Time, t >= Cutoff
  PROVE  PackAt(i, t)' = PackAt(i, t)
  <1>0. TypeOK /\ ChunkShape
    BY DEF IInv, Committed
  <1>1. Cutoff \in Int
    BY <1>0, PassShape, StorageAssumption DEF Prune, Pass, Cutoff, Time
  <1>2. chunks' = {c \in chunks : ~(c.hi < Cutoff)}
    BY DEF Prune, ExpiredChunk
  <1> HIDE DEF Cutoff
  <1>3. ASSUME NEW c \in chunks, NEW v, [ts |-> t, value |-> v] \in c.points
        PROVE  c \in chunks'
    <2>1. t <= c.hi /\ c.hi \in Int /\ t \in Int
      BY <1>0, <1>3, StorageAssumption DEF ChunkShape, TypeOK, Chunk, Time
    <2> QED
      BY <1>1, <1>2, <2>1
  <1> QED
    BY <1>2, <1>3 DEF PackAt

\* Retention deletes nothing that a second from its cutoff on answers with:
\* a chunk outlives its own last point.
LEMMA InvPrune ==
  ASSUME IInv, TypeOK', Prune
  PROVE  IInv'
  <1>0. /\ TypeOK /\ Committed /\ ChunkShape /\ Disjoint
        /\ Resolves(series, samples, cache) /\ Faithful(series, samples, last)
    BY DEF IInv, Committed
  <1>1. Cutoff \in Int /\ horizon \in Nat /\ horizon' \in Nat
    BY <1>0, PassShape, StorageAssumption
       DEF Prune, Pass, Cutoff, Time, TypeOK
  <1>2. /\ chunks' = {c \in chunks : c.hi >= Cutoff}
        /\ samples' = {r \in samples : r.ts >= Cutoff}
        /\ horizon' >= Cutoff /\ horizon' >= horizon
        /\ app.op # "insert" /\ maint' = Idle
        /\ UNCHANGED <<series, cache, app, last>>
    <2>1. \A c \in chunks : c.hi \in Int
      BY <1>0, StorageAssumption DEF TypeOK, Chunk, Time
    <2> QED
      BY <1>1, <2>1 DEF Prune, ExpiredChunk
  <1> HIDE DEF Cutoff
  <1>3. ASSUME NEW i \in Nat, NEW t \in Time, t >= horizon'
        PROVE  AnswerAt(samples, i, t)' = AnswerAt(samples, i, t)
    <2>1. t \in Int /\ t >= Cutoff
      BY <1>1, <1>2, <1>3, StorageAssumption DEF Time
    <2>2. RowAt(samples, i, t)' = RowAt(samples, i, t)
      BY <1>2, <2>1 DEF RowAt
    <2>3. PackAt(i, t)' = PackAt(i, t)
      BY <2>1, PruneElsewhere
    <2> QED
      BY <2>2, <2>3 DEF AnswerAt
  <1>4. Faithful(series, samples, last)'
    <2>1. \A i \in DOMAIN series : i \in Nat
      BY <1>0 DEF TypeOK
    <2>2. \A i \in DOMAIN series, t \in Time :
            t >= horizon' => /\ t >= horizon
                             /\ AnswerAt(samples, i, t)' = AnswerAt(samples, i, t)
      <3>1. \A t \in Time : t \in Int
        BY StorageAssumption DEF Time
      <3> QED
        BY <1>1, <1>2, <1>3, <2>1, <3>1
    <2> QED
      BY <1>0, <1>2, <2>2 DEF Faithful
  <1>5. Resolves(series, samples, cache)'
    BY <1>0, <1>2 DEF Resolves
  <1>6. ChunkShape' /\ Disjoint'
    BY <1>0, <1>2 DEF ChunkShape, Disjoint
  <1> QED
    BY <1>2, <1>4, <1>5, <1>6 DEF IInv, Committed, InTx, InMerge, Idle

LEMMA InvMaintain == IInv /\ Maintain => IInv'
  <1> SUFFICES ASSUME IInv, Maintain PROVE IInv'
    OBVIOUS
  <1>0. TypeOK /\ Committed /\ InTx /\ InMerge /\ TypeOK'
    BY TypeMaintain DEF IInv
  <1>1. CASE PassBegin
    BY <1>0, <1>1, FrameCommitted, FrameTx
       DEF PassBegin, tables, IInv, InMerge
  <1>2. ASSUME NEW iw \in Todo, CompactRead(iw[1], iw[2])
        PROVE  IInv'
    <2> DEFINE id == iw[1]
               w == iw[2]
    <2>1. /\ app.op # "insert" /\ maint'.id = id /\ maint'.w = w
          /\ maint'.points = Merged(id, w)
          /\ UNCHANGED <<series, samples, chunks, cache, app, last, horizon>>
      BY <1>2 DEF CompactRead, tables
    <2>2. Committed' /\ InTx'
      BY <1>0, <2>1, FrameCommitted DEF InTx
    <2>3. Merged(maint.id, maint.w)' = Merged(id, w)
      BY <2>1 DEF Merged, ChunksIn, RowsIn
    <2>4. InMerge'
      BY <2>1, <2>3 DEF InMerge
    <2> QED
      BY <1>0, <2>2, <2>4 DEF IInv
  <1>3. ASSUME NEW iw \in Todo, CompactSkip(iw[1], iw[2])
        PROVE  IInv'
    <2>1. /\ maint'.op = "pass"
          /\ UNCHANGED <<series, samples, chunks, cache, app, last, horizon>>
      BY <1>0, <1>3, PassShape DEF CompactSkip, tables, Pass
    <2> QED
      BY <1>0, <2>1, FrameCommitted, FrameTx DEF IInv, InMerge
  <1>4. CASE CompactCommit
    BY <1>0, <1>4, InvCompactCommit
  <1>5. CASE CompactAbort
    BY <1>0, <1>5, FrameCommitted, FrameTx
       DEF CompactAbort, tables, IInv, InMerge
  <1>6. CASE Prune
    BY <1>0, <1>6, InvPrune
  <1>7. CASE PruneFail
    BY <1>0, <1>7, FrameCommitted, FrameTx
       DEF PruneFail, tables, IInv, InMerge, Idle
  <1> QED
    BY <1>1, <1>2, <1>3, <1>4, <1>5, <1>6, <1>7 DEF Maintain

-----------------------------------------------------------------------------
(* The environment.                                                        *)

\* A damaged chunk answers for none of its seconds any more, and no other
\* chunk does; raw rows of those seconds still answer.
LEMMA InvRot ==
  ASSUME IInv, TypeOK', NEW c \in chunks, Rot(c)
  PROVE  IInv'
  <1> DEFINE e == [c EXCEPT !.points = {}, !.ok = FALSE]
  <1>0. /\ TypeOK /\ Committed /\ ChunkShape /\ Disjoint
        /\ Resolves(series, samples, cache) /\ Faithful(series, samples, last)
    BY DEF IInv, Committed
  <1>1. c \in Chunk /\ e.id = c.id /\ e.lo = c.lo /\ e.hi = c.hi /\ e.points = {}
    BY <1>0 DEF TypeOK, Chunk
  <1> HIDE DEF e
  <1>2. /\ chunks' = (chunks \ {c}) \cup {e}
        /\ maint.op # "merge" /\ app = Idle
        /\ UNCHANGED <<series, samples, cache, app, maint, horizon>>
    BY DEF Rot, e
  <1>3. \A k \in Key, t \in Time :
          last'[<<k, t>>] = IF /\ k = series[c.id] /\ t \in TsOf(c.points)
                               /\ t \notin TsOf(RawOf(samples, c.id))
                            THEN NoValue ELSE last[<<k, t>>]
    BY DEF Rot
  <1>4. c.id \in DOMAIN series /\ \A i \in DOMAIN series : i \in Nat /\ series[i] \in Key
    BY <1>0 DEF ChunkShape, TypeOK
  <1>5. \A t \in Time : t \in TsOf(RawOf(samples, c.id))
                           <=> RowAt(samples, c.id, t) # {}
    <2>1. ASSUME NEW t \in Time, t \in TsOf(RawOf(samples, c.id))
          PROVE  RowAt(samples, c.id, t) # {}
      BY <2>1 DEF TsOf, RawOf, RowAt, Reading
    <2>2. ASSUME NEW t \in Time, NEW v \in RowAt(samples, c.id, t)
          PROVE  t \in TsOf(RawOf(samples, c.id))
      <3>1. [ts |-> t, value |-> v] \in RawOf(samples, c.id)
        BY DEF RowAt, RawOf, Reading
      <3> QED
        BY <3>1 DEF TsOf
    <2> QED
      BY <2>1, <2>2
  <1>6. ASSUME NEW i \in DOMAIN series, NEW t \in Time, t >= horizon
        PROVE  AnswerAt(samples, i, t)' = Only(last'[<<series[i], t>>])
    <2>1. RowAt(samples, i, t)' = RowAt(samples, i, t)
      BY <1>2 DEF RowAt
    <2>2. AnswerAt(samples, i, t) = Only(last[<<series[i], t>>])
      BY <1>0, <1>6 DEF Faithful
    <2>3. CASE RowAt(samples, i, t) # {}
      <3>1. last'[<<series[i], t>>] = last[<<series[i], t>>]
        BY <1>0, <1>3, <1>4, <1>5, <2>3 DEF Resolves
      <3> QED
        BY <2>1, <2>2, <2>3, <3>1 DEF AnswerAt
    <2>4. CASE RowAt(samples, i, t) = {} /\ i = c.id /\ t \in TsOf(c.points)
      <3>1. ASSUME NEW d \in chunks', d.id = i,
                   NEW v, [ts |-> t, value |-> v] \in d.points
            PROVE  FALSE
        <4>1. d \in chunks /\ d # c
          BY <1>1, <1>2, <3>1
        <4>2. d.lo <= t /\ t <= d.hi
          BY <1>0, <3>1, <4>1 DEF ChunkShape
        <4>3. c.lo <= t /\ t <= c.hi
          BY <1>0, <2>4 DEF ChunkShape, TsOf
        <4>4. d.hi < c.lo \/ c.hi < d.lo
          BY <1>0, <2>4, <3>1, <4>1 DEF Disjoint
        <4>5. /\ d.lo \in Int /\ d.hi \in Int /\ c.lo \in Int /\ c.hi \in Int
              /\ t \in Int
          BY <1>0, <1>1, <4>1, StorageAssumption DEF TypeOK, Chunk, Time
        <4> QED
          BY <4>2, <4>3, <4>4, <4>5
      <3>2. PackAt(i, t)' = {}
        BY <3>1 DEF PackAt
      <3>3. last'[<<series[i], t>>] = NoValue
        BY <1>3, <1>4, <1>5, <2>4
      <3> QED
        BY <2>1, <2>4, <3>2, <3>3 DEF AnswerAt, Only
    <2>5. CASE RowAt(samples, i, t) = {} /\ ~(i = c.id /\ t \in TsOf(c.points))
      <3>1. \A v : i = c.id => [ts |-> t, value |-> v] \notin c.points
        BY <2>5 DEF TsOf
      <3>2. PackAt(i, t)' = PackAt(i, t)
        BY <1>1, <1>2, <3>1 DEF PackAt
      <3>3. last'[<<series[i], t>>] = last[<<series[i], t>>]
        BY <1>0, <1>3, <1>4, <2>5 DEF Resolves
      <3> QED
        BY <2>1, <2>2, <3>2, <3>3 DEF AnswerAt
    <2> QED
      BY <2>3, <2>4, <2>5
  <1>7. ASSUME NEW k \in Key, NEW t \in Time, \A i \in DOMAIN series : series[i] # k
        PROVE  last'[<<k, t>>] = NoValue
    BY <1>0, <1>3, <1>7 DEF Faithful
  <1>8. Faithful(series, samples, last)'
    BY <1>2, <1>6, <1>7 DEF Faithful
  <1>9. Resolves(series, samples, cache)'
    BY <1>0, <1>2 DEF Resolves
  <1>10. ChunkShape' /\ Disjoint'
    BY <1>0, <1>1, <1>2 DEF ChunkShape, Disjoint, InWindow
  <1> QED
    BY <1>2, <1>8, <1>9, <1>10 DEF IInv, Committed, InTx, InMerge, Idle

LEMMA InvRest ==
  IInv /\ (Restart \/ Tick \/ \E c \in chunks : Rot(c)) => IInv'
  <1> SUFFICES ASSUME IInv, Restart \/ Tick \/ \E c \in chunks : Rot(c)
               PROVE  IInv'
    OBVIOUS
  <1>0. TypeOK /\ Committed /\ InTx /\ InMerge /\ TypeOK'
    BY TypeRest DEF IInv
  <1>1. CASE Restart
    <2>1. /\ UNCHANGED <<series, samples, chunks, last, horizon>>
          /\ cache' = {} /\ app' = Idle /\ maint' = Idle
      BY <1>1 DEF Restart, tables
    <2>2. Faithful(series, samples, last)'
      BY <1>0, <2>1, FrameFaithful DEF Committed
    <2>3. Resolves(series, samples, cache)'
      BY <1>0, <2>1 DEF Committed, Resolves
    <2>4. ChunkShape' /\ Disjoint'
      BY <1>0, <2>1 DEF Committed, ChunkShape, Disjoint
    <2> QED
      BY <1>0, <2>1, <2>2, <2>3, <2>4
         DEF IInv, Committed, InTx, InMerge, Idle
  <1>2. CASE Tick
    <2>1. /\ UNCHANGED <<series, samples, chunks, cache, app, maint, last, horizon>>
      BY <1>2 DEF Tick, tables
    <2> QED
      BY <1>0, <2>1, FrameCommitted, FrameTx, FrameMerge DEF IInv, InTx
  <1>3. ASSUME NEW c \in chunks, Rot(c) PROVE IInv'
    BY <1>0, <1>3, InvRot
  <1> QED
    BY <1>1, <1>2, <1>3

-----------------------------------------------------------------------------
(* The theorems.                                                           *)

LEMMA InvStep == IInv /\ [Next]_vars => IInv'
  <1> SUFFICES ASSUME IInv, [Next]_vars PROVE IInv'
    OBVIOUS
  <1>1. CASE UNCHANGED vars
    <2>1. UNCHANGED <<series, samples, chunks, cache, app, maint, last, horizon>>
      BY <1>1 DEF vars, tables
    <2>2. TypeOK'
      BY <1>1, TypeStep DEF IInv
    <2> QED
      BY <2>1, <2>2, FrameCommitted, FrameTx, FrameMerge DEF IInv, InTx
  <1> QED
    BY <1>1, InvInsert, InvAsk, InvMaintain, InvRest DEF Next

\* In every state ids resolve to distinct keys, rows and chunks hold the
\* newest committed values, an open insert's copy holds those and its own, and
\* an open merge holds exactly its window (storage.rs:316-374, 521-584).
THEOREM Invariant == Spec => []IInv
  <1>1. Init => IInv
    BY InvInit
  <1>2. IInv /\ [Next]_vars => IInv'
    BY InvStep
  <1> QED
    BY <1>1, <1>2, PTL DEF Spec

\* The invariant speaks of ids; a query names a series.
LEMMA IInvVisible == IInv => LastWriteVisible
  <1> SUFFICES ASSUME IInv, NEW k \in Key, NEW t \in Time, t >= horizon
               PROVE  ValuesAt(series, samples, k, t) = Only(last[<<k, t>>])
    BY DEF LastWriteVisible
  <1>1. /\ Resolves(series, samples, cache) /\ Faithful(series, samples, last)
        /\ ChunkShape
    BY DEF IInv, Committed
  <1>2. CASE \E id \in DOMAIN series : series[id] = k
    <2>1. PICK id \in DOMAIN series : series[id] = k
      BY <1>2
    <2>2. \A i \in DOMAIN series : series[i] = k <=> i = id
      BY <1>1, <2>1 DEF Resolves
    <2>3. RawAt(series, samples, k, t) = RowAt(samples, id, t)
      BY <2>1, <2>2 DEF RawAt, RowAt
    <2>4. PackedAt(series, k, t) = PackAt(id, t)
      BY <1>1, <2>1, <2>2 DEF PackedAt, PackAt, ChunkShape
    <2> QED
      BY <1>1, <2>1, <2>3, <2>4 DEF ValuesAt, AnswerAt, Faithful
  <1>3. CASE \A id \in DOMAIN series : series[id] # k
    BY <1>1, <1>3 DEF ValuesAt, RawAt, PackedAt, Faithful, Only
  <1> QED
    BY <1>2, <1>3

\* No acknowledged sample is lost, doubled, altered or attributed to another
\* series before retention takes it, whatever inserts, failures, restarts,
\* late samples, compactions and passes interleave.
THEOREM NewestValueIsVisible == Spec => []LastWriteVisible
  BY Invariant, IInvVisible, PTL

\* The id cache never outlives a rollback: what it holds is committed.
THEOREM CacheIsSound == Spec => []CacheSound
  <1>1. IInv => CacheSound
    BY DEF IInv, Committed, Resolves, CacheSound
  <1> QED
    BY <1>1, Invariant, PTL

\* However a window is cut and rewritten, chunks of a series stay apart and
\* inside one window, which is what query merges on.
THEOREM ChunksStayDisjoint == Spec => []ChunksDisjoint
  <1>1. IInv => ChunksDisjoint
    BY DEF IInv, Committed, Disjoint, ChunkShape, ChunksDisjoint
  <1> QED
    BY <1>1, Invariant, PTL

-----------------------------------------------------------------------------
(* Queries.  QueryExact speaks of the end of a query; what a query has read *)
(* after its first SELECT must still be what the chunks hold, but where     *)
(* maintenance has been since.                                             *)

\* What a query holds for one second.
Held(t) == {p.value : p \in {q \in app.points : q.ts = t}}

\* The id it asks for is its series', and between its SELECTs it holds the
\* chunk points of the seconds that are still as they were.
Asking ==
    /\ app.op \in {"chunks", "samples"} =>
          app.id \in DOMAIN series /\ series[app.id] = app.key
    /\ app.op = "samples" =>
          /\ \A p \in app.points : InSpan(p.ts)
          /\ \A t \in Time :
                InSpan(t) /\ t >= horizon /\ ~Moved(app.id, t)
                   => Held(t) = PackAt(app.id, t)

QInv == IInv /\ Asking /\ QueryExact

\* A connection that is not in a query has nothing to show.
LEMMA NotAsking ==
  ASSUME app'.op \in {"idle", "insert"}
  PROVE  Asking' /\ QueryExact'
  BY DEF Asking, QueryExact

\* A query under way stays right while the values last written stay: the
\* horizon may rise, and a window may be moved, past a second it holds.
LEMMA QueryFrame ==
  ASSUME TypeOK, Asking, QueryExact, UNCHANGED <<app, series, last>>,
         horizon' \in Nat, horizon <= horizon', moved \subseteq moved',
         app.op = "samples" =>
            \A t \in Time : t >= horizon' /\ ~Moved(app.id, t)'
                              => PackAt(app.id, t)' = PackAt(app.id, t)
  PROVE  Asking' /\ QueryExact'
  <1>1. \A t \in Time : t >= horizon' => t >= horizon
    <2>1. horizon \in Int /\ horizon' \in Int /\ \A t \in Time : t \in Int
      BY StorageAssumption DEF TypeOK, Time
    <2> QED
      BY <2>1
  <1>2. \A t \in Time : ~Moved(app.id, t)' => ~Moved(app.id, t)
    BY DEF Moved, InWindow
  <1>3. \A t \in Time : Held(t)' = Held(t) /\ (InSpan(t)' <=> InSpan(t))
    BY DEF Held, InSpan
  <1>4. Asking'
    <2>1. app'.op \in {"chunks", "samples"} =>
             app'.id \in DOMAIN series' /\ series'[app'.id] = app'.key
      BY DEF Asking
    <2>2. ASSUME app.op = "samples"
          PROVE  /\ \A p \in app.points : InSpan(p.ts)
                 /\ \A t \in Time :
                       InSpan(t) /\ t >= horizon' /\ ~Moved(app.id, t)'
                          => Held(t) = PackAt(app.id, t)'
      BY <1>1, <1>2, <2>2 DEF Asking
    <2> QED
      BY <1>3, <2>1, <2>2 DEF Asking, InSpan
  <1>5. QueryExact'
    <2>1. ASSUME app.op = "done"
          PROVE  /\ \A p \in app.points : InSpan(p.ts)
                 /\ \A t \in Time :
                       InSpan(t) /\ t >= horizon' /\ ~Moved(app.id, t)'
                          => Held(t) = Only(last[<<app.key, t>>])
      BY <1>1, <1>2, <2>1 DEF QueryExact, Held
    <2> QED
      BY <1>3, <2>1 DEF QueryExact, InSpan, Held
  <1> QED
    BY <1>4, <1>5

\* A series without an id has never been written, so that its query is
\* answered at once.
LEMMA AskBegin ==
  ASSUME IInv, NEW k \in Key, NEW span \in Span, QueryBegin(k, span)
  PROVE  Asking' /\ QueryExact'
  <1>1. UNCHANGED <<series, last, horizon>>
    BY DEF QueryBegin, tables
  <1>2. CASE \E id \in DOMAIN series :
               /\ series[id] = k
               /\ app' = [op |-> "chunks", key |-> k, id |-> id, from |-> span[1],
                          to |-> span[2], points |-> {}]
    BY <1>1, <1>2 DEF Asking, QueryExact
  <1>3. CASE /\ \A id \in DOMAIN series : series[id] # k
             /\ app' = [op |-> "done", key |-> k, id |-> 0, from |-> span[1],
                        to |-> span[2], points |-> {}]
    <2>1. app'.op = "done" /\ app'.key = k /\ app'.points = {}
      BY <1>3
    <2>2. \A t \in Time : Only(last[<<k, t>>]) = {}
      BY <1>3 DEF IInv, Committed, Faithful, Only
    <2> QED
      BY <1>1, <2>1, <2>2 DEF Asking, QueryExact
  <1> QED
    BY <1>2, <1>3 DEF QueryBegin

\* The chunks its range condition picks out hold every chunk point of the
\* span, as a chunk's bounds are those of its points.
LEMMA AskChunks ==
  ASSUME IInv, Asking, QueryChunks
  PROVE  Asking' /\ QueryExact'
  <1>0. TypeOK /\ ChunkShape
    BY DEF IInv, Committed
  <1>1. /\ app \in Query /\ app.id \in DOMAIN series /\ series[app.id] = app.key
        /\ app.from \in Int /\ app.to \in Int
    BY <1>0, QueryShape, StorageAssumption DEF QueryChunks, Asking, Query, Time
  <1> DEFINE pts == {p \in UNION {c.points : c \in Overlapping} : InSpan(p.ts)}
  <1>2. /\ app'.op = "samples" /\ app'.id = app.id /\ app'.key = app.key
        /\ app'.from = app.from /\ app'.to = app.to /\ app'.points = pts
        /\ UNCHANGED <<series, chunks>>
    BY <1>1 DEF QueryChunks, Query, tables
  <1>3. ASSUME NEW t \in Time, InSpan(t)
        PROVE  {p.value : p \in {q \in pts : q.ts = t}} = PackAt(app.id, t)
    <2>1. ASSUME NEW p \in pts, p.ts = t
          PROVE  p.value \in PackAt(app.id, t)
      <3>1. PICK c \in Overlapping : p \in c.points
        OBVIOUS
      <3>2. c \in chunks /\ c.id = app.id /\ p \in Reading
        BY <1>0, <3>1 DEF Overlapping, TypeOK, Chunk
      <3>3. p = [ts |-> t, value |-> p.value] /\ p.value \in Value
        BY <2>1, <3>2 DEF Reading
      <3> QED
        BY <3>1, <3>2, <3>3 DEF PackAt
    <2>2. ASSUME NEW v \in PackAt(app.id, t)
          PROVE  [ts |-> t, value |-> v] \in pts
      <3>1. PICK c \in chunks : c.id = app.id /\ [ts |-> t, value |-> v] \in c.points
        BY DEF PackAt
      <3>2. c.lo <= t /\ t <= c.hi
        BY <1>0, <3>1 DEF ChunkShape
      <3>3. c.lo \in Int /\ c.hi \in Int /\ t \in Int
        BY <1>0, StorageAssumption DEF TypeOK, Chunk, Time
      <3>4. c \in Overlapping
        BY <1>1, <1>3, <3>1, <3>2, <3>3 DEF Overlapping, InSpan
      <3> QED
        BY <1>3, <3>1, <3>4
    <2>3. ASSUME NEW v \in PackAt(app.id, t)
          PROVE  \E p \in pts : p.ts = t /\ p.value = v
      <3> HIDE DEF pts
      <3> QED BY <2>2
    <2> HIDE DEF pts
    <2> QED
      BY <2>1, <2>3
  <1>4. \A p \in pts : InSpan(p.ts)
    OBVIOUS
  <1> HIDE DEF pts
  <1>5. \A t : InSpan(t)' <=> InSpan(t)
    BY <1>2 DEF InSpan
  <1>6. \A t : Held(t)' = {p.value : p \in {q \in pts : q.ts = t}}
    BY <1>2 DEF Held
  <1>7. \A t : PackAt(app.id, t)' = PackAt(app.id, t)
    BY <1>2 DEF PackAt
  <1> QED
    BY <1>1, <1>2, <1>3, <1>4, <1>5, <1>6, <1>7 DEF Asking, QueryExact

\* Raw rows over what the chunks held are what the store answers for every
\* second still in place, the newest values by Faithful.
LEMMA AskSamples ==
  ASSUME IInv, Asking, QuerySamples
  PROVE  Asking' /\ QueryExact'
  <1>0. TypeOK /\ Faithful(series, samples, last)
    BY DEF IInv, Committed
  <1>1. /\ app \in Query /\ app.id \in DOMAIN series /\ series[app.id] = app.key
        /\ app.op = "samples"
    BY <1>0, QueryShape DEF QuerySamples, Asking
  <1> DEFINE raw == {p \in RawOf(samples, app.id) : InSpan(p.ts)}
             pts == Override(raw, app.points)
  <1>2. /\ app'.op = "done" /\ app'.id = app.id /\ app'.key = app.key
        /\ app'.from = app.from /\ app'.to = app.to /\ app'.points = pts
        /\ UNCHANGED <<series, samples, last, horizon, moved>>
    BY <1>1 DEF QuerySamples, Query, tables
  <1>3. \A p \in pts : InSpan(p.ts)
    BY <1>1 DEF Override, Asking
  <1>4. ASSUME NEW t \in Time, InSpan(t), t >= horizon, ~Moved(app.id, t)
        PROVE  {p.value : p \in {q \in pts : q.ts = t}} = Only(last[<<app.key, t>>])
    <2> DEFINE at == {p.value : p \in {q \in raw : q.ts = t}}
    <2>1. at = RowAt(samples, app.id, t)
      <3>1. ASSUME NEW p \in raw, p.ts = t
            PROVE  p.value \in RowAt(samples, app.id, t)
        BY <3>1 DEF RawOf, RowAt, Reading
      <3>2. ASSUME NEW v \in RowAt(samples, app.id, t)
            PROVE  [ts |-> t, value |-> v] \in raw
        BY <1>4 DEF RawOf, RowAt, Reading
      <3>3. ASSUME NEW v \in RowAt(samples, app.id, t)
            PROVE  \E p \in raw : p.ts = t /\ p.value = v
        <4> HIDE DEF raw
        <4> QED BY <3>2
      <3> HIDE DEF raw
      <3> QED BY <3>1, <3>3
    <2>2. Held(t) = PackAt(app.id, t)
      BY <1>1, <1>4 DEF Asking
    <2>3. {p.value : p \in {q \in pts : q.ts = t}}
            = IF at # {} THEN at ELSE Held(t)
      <3> HIDE DEF raw
      <3>1. CASE \E r \in raw : r.ts = t
        <4>1. \A p : p \in pts /\ p.ts = t <=> p \in raw /\ p.ts = t
          BY <3>1 DEF Override
        <4>2. {q \in pts : q.ts = t} = {q \in raw : q.ts = t}
          <5> HIDE DEF pts
          <5> QED BY <4>1
        <4>3. at # {}
          BY <3>1
        <4> QED
          BY <4>2, <4>3
      <3>2. CASE \A r \in raw : r.ts # t
        <4>1. \A p : p \in pts /\ p.ts = t <=> p \in app.points /\ p.ts = t
          BY <3>2 DEF Override
        <4>2. {q \in pts : q.ts = t} = {q \in app.points : q.ts = t}
          <5> HIDE DEF pts
          <5> QED BY <4>1
        <4>3. at = {}
          BY <3>2
        <4> QED
          BY <4>2, <4>3 DEF Held
      <3> QED
        BY <3>1, <3>2
    <2> HIDE DEF at, pts
    <2> QED
      BY <1>0, <1>1, <1>4, <2>1, <2>2, <2>3 DEF AnswerAt, Faithful
  <1> HIDE DEF raw, pts
  <1>5. \A t : (InSpan(t)' <=> InSpan(t)) /\ (Moved(app.id, t)' <=> Moved(app.id, t))
    BY <1>2 DEF InSpan, Moved, InWindow
  <1> QED
    BY <1>2, <1>3, <1>4, <1>5 DEF Asking, QueryExact

\* Steps of the application connection.
LEMMA QueryAsk ==
  ASSUME QInv, Insert \/ Ask
  PROVE  Asking' /\ QueryExact'
  <1>0. IInv /\ TypeOK /\ Asking
    BY DEF QInv, IInv
  <1>1. CASE Insert
    <2>1. app'.op \in {"idle", "insert"}
      <3>1. ASSUME NEW h \in Host, NEW t \in Time, NEW batch \in Batch,
                   InsertBegin(h, t, batch)
            PROVE  app'.op \in {"idle", "insert"}
        BY <3>1 DEF InsertBegin
      <3>2. CASE InsertKnown \/ InsertUnknown
        <4>1. app \in InsertTx
          BY <1>0, <3>2, InsertShape DEF InsertKnown, InsertUnknown
        <4> QED
          BY <3>2, <4>1 DEF InsertKnown, InsertUnknown, StagePoint, InsertTx
      <3>3. CASE InsertCommit \/ InsertFail
        BY <3>3 DEF InsertCommit, InsertFail, Idle
      <3> QED
        BY <1>1, <3>1, <3>2, <3>3 DEF Insert
    <2> QED
      BY <2>1, NotAsking
  <1>2. ASSUME NEW k \in Key, NEW span \in Span, QueryBegin(k, span)
        PROVE  Asking' /\ QueryExact'
    BY <1>0, <1>2, AskBegin
  <1>3. CASE QueryChunks
    BY <1>0, <1>3, AskChunks
  <1>4. CASE QuerySamples
    BY <1>0, <1>4, AskSamples
  <1>5. CASE QueryReturn \/ QueryFail
    BY <1>5, NotAsking DEF QueryReturn, QueryFail, Idle
  <1> QED
    BY <1>1, <1>2, <1>3, <1>4, <1>5 DEF Ask

\* Beside a query, a compaction touches the window it then counts as moved,
\* and retention what the horizon has passed.
LEMMA QueryMaintain ==
  ASSUME QInv, TypeOK', Maintain
  PROVE  Asking' /\ QueryExact'
  <1>0. IInv /\ TypeOK /\ Asking /\ QueryExact
    BY DEF QInv, IInv
  <1>1. CASE CompactCommit
    <2>1. /\ UNCHANGED <<app, series, last, horizon>>
          /\ moved' = IF app.op = "samples"
                      THEN moved \cup {<<maint.id, maint.w>>} ELSE moved
      BY <1>1 DEF CompactCommit
    <2>2. ASSUME app.op = "samples", NEW t \in Time, ~Moved(app.id, t)'
          PROVE  PackAt(app.id, t)' = PackAt(app.id, t)
      <3>1. <<maint.id, maint.w>> \in moved'
        BY <2>1, <2>2
      <3>2. ~(maint.id = app.id /\ InWindow(t, maint.w))
        BY <2>1, <2>2, <3>1 DEF Moved, InWindow
      <3>3. app.id \in Nat
        BY <1>0, <2>2, QueryShape DEF Query
      <3> QED
        BY <1>0, <1>1, <2>1, <3>2, <3>3, CommitElsewhere DEF PackAt
    <2>3. horizon \in Nat /\ horizon <= horizon
      BY <1>0 DEF TypeOK
    <2> QED
      BY <1>0, <2>1, <2>2, <2>3, QueryFrame
  <1>2. CASE Prune
    <2>1. UNCHANGED <<app, series, last, moved>>
      BY <1>2 DEF Prune
    <2>2. /\ horizon \in Nat /\ horizon' \in Nat /\ Cutoff \in Int
          /\ horizon <= horizon' /\ Cutoff <= horizon'
      BY <1>0, <1>2, PassShape, StorageAssumption
         DEF Prune, Pass, Cutoff, Time, TypeOK
    <2>3. ASSUME app.op = "samples", NEW t \in Time, t >= horizon'
          PROVE  PackAt(app.id, t)' = PackAt(app.id, t)
      <3>1. app.id \in Nat
        BY <1>0, <2>3, QueryShape DEF Query
      <3>2. t >= Cutoff
        BY <2>2, <2>3, StorageAssumption DEF Time
      <3> QED
        BY <1>0, <1>2, <2>1, <3>1, <3>2, PruneElsewhere DEF PackAt
    <2> QED
      BY <1>0, <2>1, <2>2, <2>3, QueryFrame
  <1>3. CASE UNCHANGED <<tables, app, last, horizon, moved>>
    <2>1. UNCHANGED <<app, series, chunks, last, horizon, moved>>
      BY <1>3 DEF tables
    <2>2. horizon \in Nat /\ horizon <= horizon
      BY <1>0 DEF TypeOK
    <2> QED
      BY <1>0, <2>1, <2>2, QueryFrame DEF PackAt
  <1> QED
    BY <1>1, <1>2, <1>3
       DEF Maintain, PassBegin, CompactRead, CompactSkip, CompactAbort, PruneFail

\* Every step keeps the query's side of the invariant too.
LEMMA QueryStep == QInv /\ [Next]_vars => QInv'
  <1> SUFFICES ASSUME QInv, [Next]_vars PROVE QInv'
    OBVIOUS
  <1>0. IInv /\ TypeOK /\ Asking /\ QueryExact /\ IInv' /\ TypeOK'
    BY InvStep DEF QInv, IInv
  <1>1. CASE Insert \/ Ask
    BY <1>0, <1>1, QueryAsk DEF QInv
  <1>2. CASE Maintain
    BY <1>0, <1>2, QueryMaintain DEF QInv
  <1>3. CASE Restart
    BY <1>0, <1>3, NotAsking DEF QInv, Restart, Idle
  <1>4. CASE Tick \/ UNCHANGED vars
    <2>1. UNCHANGED <<app, series, chunks, last, horizon, moved>>
      BY <1>4 DEF Tick, vars, tables
    <2>2. horizon \in Nat /\ horizon <= horizon
      BY <1>0 DEF TypeOK
    <2> QED
      BY <1>0, <2>1, <2>2, QueryFrame DEF QInv, PackAt
  <1>5. ASSUME NEW c \in chunks, Rot(c)
        PROVE  QInv'
    BY <1>0, <1>5, NotAsking DEF QInv, Rot, Idle
  <1> QED
    BY <1>1, <1>2, <1>3, <1>4, <1>5 DEF Next

\* A query answers every second of its span that retention was not handed and
\* that lies in no window compacted between its statements with its newest
\* committed value, and no second outside its span, although each of its
\* SELECTs has a snapshot of its own (storage.rs:377-488).  In a window that
\* moves meanwhile points may be missing: CompactionInvisible's matter.
THEOREM QueriesAreExact == Spec => []QueryExact
  <1>1. Init => QInv
    <2> SUFFICES ASSUME Init PROVE QInv
      OBVIOUS
    <2> QED
      BY InvInit DEF QInv, Init, Idle, Asking, QueryExact
  <1>2. QInv /\ [Next]_vars => QInv'
    BY QueryStep
  <1>3. QInv => QueryExact
    BY DEF QInv
  <1> QED
    BY <1>1, <1>2, <1>3, PTL DEF Spec

-----------------------------------------------------------------------------
(* The engine implements the abstract store of TimeSeries.                  *)


\* An open insert has changed its own host's series at its own second, and
\* nothing else of what was last written.
Delta ==
    app.op = "insert" =>
       \A k \in Key, t \in Time :
          \/ app.last[<<k, t>>] = last[<<k, t>>]
          \/ /\ k.host = app.host /\ t = app.ts
             /\ app.last[<<k, t>>] \in Value

RInv == IInv /\ Delta

LEMMA DeltaStaged ==
  ASSUME TypeOK, Delta, app.op = "insert", app.todo # <<>>, NEW id \in Nat,
         app'.last = StagePoint(id).last, app'.host = app.host,
         app'.ts = app.ts, last' = last
  PROVE  Delta'
  <1>1. /\ app \in InsertTx /\ app.host \in Host /\ app.ts \in Time
        /\ app.last \in History
    BY InsertShape DEF InsertTx
  <1>2. PointKey \in Key /\ PointKey.host = app.host /\ Stored \in Value
    BY StagedType DEF PointKey
  <1>3. \A k \in Key, t \in Time :
          app'.last[<<k, t>>] = IF k = PointKey /\ t = app.ts THEN Stored
                                ELSE app.last[<<k, t>>]
    <2>1. app'.last = [app.last EXCEPT ![<<PointKey, app.ts>>] = Stored]
      BY <1>1 DEF StagePoint, InsertTx, Stored
    <2> QED
      BY <1>1, <1>2, <2>1 DEF History
  <1>4. ASSUME NEW k \in Key, NEW t \in Time
        PROVE  \/ app'.last[<<k, t>>] = last'[<<k, t>>]
               \/ /\ k.host = app'.host /\ t = app'.ts
                  /\ app'.last[<<k, t>>] \in Value
    <2>1. CASE k = PointKey /\ t = app.ts
      BY <1>2, <1>3, <2>1
    <2>2. CASE ~(k = PointKey /\ t = app.ts)
      <3>1. app'.last[<<k, t>>] = app.last[<<k, t>>]
        BY <1>3, <2>2
      <3> QED BY <3>1 DEF Delta
    <2> QED BY <2>1, <2>2
  <1> QED
    BY <1>4, Zenon DEF Delta

LEMMA DeltaStep == TypeOK /\ Delta /\ [Next]_vars => Delta'
  <1> SUFFICES ASSUME TypeOK, Delta, [Next]_vars PROVE Delta'
    OBVIOUS
  <1>1. CASE UNCHANGED vars
    BY <1>1 DEF vars, Delta
  <1>2. CASE Insert
    <2>1. ASSUME NEW h \in Host, NEW t \in Time, NEW batch \in Batch,
                 InsertBegin(h, t, batch)
          PROVE  Delta'
      BY <2>1 DEF InsertBegin, Delta
    <2>2. CASE InsertKnown
      <3>1. PICK e \in Known : app' = StagePoint(e.id)
        BY <2>2 DEF InsertKnown
      <3>2. app.op = "insert" /\ app.todo # <<>> /\ last' = last /\ app \in InsertTx
        BY <2>2, InsertShape DEF InsertKnown
      <3>3. e.id \in Nat
        BY <3>2 DEF Known, TypeOK, CacheEntry, InsertTx
      <3>4. app'.host = app.host /\ app'.ts = app.ts
        BY <3>1, <3>2 DEF StagePoint, InsertTx
      <3> QED
        BY <3>1, <3>2, <3>3, <3>4, DeltaStaged
    <2>3. CASE InsertUnknown
      <3> DEFINE srs == Resolved(app.series, PointKey)
      <3>1. PICK id \in DOMAIN srs :
               app' = [StagePoint(id) EXCEPT
                         !.series = srs,
                         !.pending = @ \cup {[key |-> PointKey, id |-> id]}]
        BY <2>3 DEF InsertUnknown
      <3>2. app.op = "insert" /\ app.todo # <<>> /\ last' = last /\ app \in InsertTx
        BY <2>3, InsertShape DEF InsertUnknown
      <3>3. id \in Nat
        <4>1. PointKey \in Key /\ app.series \in Seq(Key)
          BY <3>2, StagedType DEF InsertTx
        <4>2. srs \in Seq(Key)
          BY <4>1 DEF Resolved
        <4> HIDE DEF srs
        <4> QED BY <4>2
      <3>4. /\ app'.host = app.host /\ app'.ts = app.ts
            /\ app'.last = StagePoint(id).last
        <4> HIDE DEF srs
        <4> QED BY <3>1, <3>2 DEF StagePoint, InsertTx
      <3> QED
        BY <3>2, <3>3, <3>4, DeltaStaged
    <2>4. CASE InsertCommit
      BY <2>4 DEF InsertCommit, Idle, Delta
    <2>5. CASE InsertFail
      BY <2>5 DEF InsertFail, Idle, Delta
    <2> QED
      BY <1>2, <2>1, <2>2, <2>3, <2>4, <2>5 DEF Insert
  <1>3. CASE Ask
    <2>1. ASSUME NEW k \in Key, NEW span \in Span, QueryBegin(k, span)
          PROVE  Delta'
      <3>1. app'.op # "insert"
        BY <2>1 DEF QueryBegin
      <3> QED
        BY <3>1 DEF Delta
    <2>2. CASE QueryChunks
      BY <2>2, QueryShape DEF QueryChunks, Query, Delta
    <2>3. CASE QuerySamples
      BY <2>3, QueryShape DEF QuerySamples, Query, Delta
    <2>4. CASE QueryReturn
      BY <2>4 DEF QueryReturn, Idle, Delta
    <2>5. CASE QueryFail
      BY <2>5 DEF QueryFail, Idle, Delta
    <2> QED
      BY <1>3, <2>1, <2>2, <2>3, <2>4, <2>5 DEF Ask
  <1>4. CASE Maintain
    <2>1. UNCHANGED <<app, last>>
      BY <1>4 DEF Maintain, PassBegin, CompactRead, CompactSkip, CompactCommit,
                  CompactAbort, Prune, PruneFail
    <2> QED
      BY <2>1 DEF Delta
  <1>5. CASE Restart
    BY <1>5 DEF Restart, Idle, Delta
  <1>6. CASE Tick
    BY <1>6 DEF Tick, Delta
  <1>7. CASE \E c \in chunks : Rot(c)
    BY <1>7 DEF Rot, Idle, Delta
  <1> QED
    BY <1>1, <1>2, <1>3, <1>4, <1>5, <1>6, <1>7 DEF Next

LEMMA RInvariant == Spec => []RInv
  <1>1. Init => Delta
    BY DEF Init, Idle, Delta
  <1>2. IInv => TypeOK
    BY DEF IInv
  <1> QED
    BY <1>1, <1>2, InvInit, InvStep, DeltaStep, PTL DEF Spec, RInv

-----------------------------------------------------------------------------
(* The refinement mapping in terms of what was last written.               *)

LEMMA Mapped ==
  ASSUME TypeOK, LastWriteVisible
  PROVE  VisibleDb = [kt \in Key \X Time |->
                        IF kt[2] >= horizon THEN last[kt] ELSE NoValue]
  <1>1. ASSUME NEW kt \in Key \X Time
        PROVE  LET vs == ValuesAt(series, samples, kt[1], kt[2])
               IN  (IF kt[2] >= horizon /\ vs # {} THEN CHOOSE v \in vs : TRUE
                                                 ELSE NoValue)
                   = IF kt[2] >= horizon THEN last[kt] ELSE NoValue
    <2>1. PICK k \in Key, t \in Time : kt = <<k, t>>
      OBVIOUS
    <2>2. CASE t >= horizon
      <3> DEFINE vs == ValuesAt(series, samples, k, t)
      <3>1. vs = Only(last[<<k, t>>])
        BY <2>2 DEF LastWriteVisible
      <3>2. CASE last[<<k, t>>] = NoValue
        <4>1. vs = {}
          BY <3>1, <3>2 DEF Only
        <4> QED
          BY <2>1, <2>2, <3>2, <4>1
      <3>3. CASE last[<<k, t>>] # NoValue
        <4>1. vs = {last[<<k, t>>]}
          BY <3>1, <3>3 DEF Only
        <4> HIDE DEF vs
        <4>2. (CHOOSE v \in vs : TRUE) = last[<<k, t>>]
          BY <4>1
        <4> QED
          BY <2>1, <2>2, <4>1, <4>2 DEF vs
      <3> QED
        BY <3>2, <3>3
    <2>3. CASE ~(t >= horizon)
      BY <2>1, <2>3
    <2> QED
      BY <2>2, <2>3
  <1> QED
    BY <1>1 DEF VisibleDb

\* What was last written, from the horizon on.
View(lst, h) ==
    [kt \in Key \X Time |-> IF kt[2] >= h THEN lst[kt] ELSE NoValue]

MapOk == VisibleDb = View(last, horizon)

LEMMA RInvMaps == RInv => MapOk
  BY IInvVisible, Mapped DEF RInv, IInv, View, MapOk

-----------------------------------------------------------------------------
(* The initial states and each kind of step.                               *)

LEMMA RefinesInit == Init /\ MapOk => Abstract!Init
  <1> SUFFICES ASSUME Init, MapOk PROVE Abstract!Init
    OBVIOUS
  <1>1. \A kt \in Key \X Time : last[kt] = NoValue
    BY DEF Init
  <1>2. VisibleDb = [kt \in Key \X Time |-> NoValue]
    BY <1>1 DEF MapOk, View
  <1> QED
    BY <1>2 DEF Init, Abstract!Init, Abstract!Key, Abstract!Time, Key, Time

\* A step that writes nothing and expires nothing is invisible.
LEMMA RefinesSilent ==
  ASSUME MapOk, MapOk', UNCHANGED <<last, horizon>>
  PROVE  UNCHANGED Abstract!vars
  BY DEF MapOk, View, Abstract!vars

\* An insert's commit writes its batch at its second, all of it at once.
LEMMA RefinesCommit ==
  ASSUME RInv, MapOk, MapOk', InsertCommit
  PROVE  Abstract!Next
  <1> DEFINE h == app.host
             t == app.ts
             written == {l \in Label :
                last'[<<[host |-> h, label |-> l], t>>]
                  # last[<<[host |-> h, label |-> l], t>>]}
             val == [l \in written |-> last'[<<[host |-> h, label |-> l], t>>]]
  <1>1. /\ TypeOK /\ Delta /\ app.op = "insert" /\ last' = app.last
        /\ horizon' = horizon
    BY DEF RInv, IInv, InsertCommit
  <1>2. h \in Host /\ t \in Time
    BY <1>1, InsertShape DEF InsertTx
  <1>3. \A k \in Key, s \in Time :
          \/ last'[<<k, s>>] = last[<<k, s>>]
          \/ /\ k.host = h /\ s = t
             /\ last'[<<k, s>>] \in Value
    BY <1>1 DEF Delta
  <1> HIDE DEF h, t
  <1>4. \A l \in Label : [host |-> h, label |-> l] \in Key
    BY <1>2 DEF Key
  <1>5. written \in SUBSET Label /\ val \in [written -> Value]
    BY <1>2, <1>3, <1>4
  <1>6. ASSUME NEW k \in Key, NEW s \in Time
        PROVE  VisibleDb'[<<k, s>>] =
                 IF s = t /\ t >= horizon /\ k.host = h /\ k.label \in written
                 THEN val[k.label] ELSE VisibleDb[<<k, s>>]
    <2>1. k = [host |-> k.host, label |-> k.label] /\ k.label \in Label
      BY DEF Key
    <2>2. /\ VisibleDb'[<<k, s>>] = IF s >= horizon THEN last'[<<k, s>>] ELSE NoValue
          /\ VisibleDb[<<k, s>>] = IF s >= horizon THEN last[<<k, s>>] ELSE NoValue
      BY <1>1 DEF MapOk, View
    <2>3. k.host = h /\ s = t =>
            /\ k.label \in written <=> last'[<<k, s>>] # last[<<k, s>>]
            /\ k.label \in written => val[k.label] = last'[<<k, s>>]
      BY <2>1
    <2> HIDE DEF written, val
    <2> QED
      BY <1>3, <2>2, <2>3
  <1>7. VisibleDb' = [kt \in Key \X Time |->
                        IF /\ kt[2] = t /\ t >= horizon
                           /\ kt[1].host = h /\ kt[1].label \in written
                        THEN val[kt[1].label]
                        ELSE VisibleDb[kt]]
    <2>1. \A kt \in Key \X Time :
            VisibleDb'[kt] = IF /\ kt[2] = t /\ t >= horizon
                                /\ kt[1].host = h /\ kt[1].label \in written
                             THEN val[kt[1].label]
                             ELSE VisibleDb[kt]
      <3> HIDE DEF written, val
      <3> QED BY <1>6
    <2> HIDE DEF written, val
    <2> QED
      BY <2>1 DEF MapOk, View
  <1>8. Abstract!Write(h, t)
    <2> HIDE DEF written, val
    <2> QED
      BY <1>1, <1>5, <1>7
         DEF Abstract!Write, Abstract!Key, Abstract!Time, Key, Time
  <1> QED
    BY <1>2, <1>8 DEF Abstract!Next, Abstract!Time, Time

\* Retention's commit moves the horizon, or does nothing a caller can see.
LEMMA RefinesPrune ==
  ASSUME RInv, MapOk, MapOk', Prune
  PROVE  Abstract!Next \/ UNCHANGED Abstract!vars
  <1>1. TypeOK /\ last' = last
    BY DEF RInv, IInv, Prune
  <1>2. /\ maint.now \in Time /\ Cutoff = maint.now - Retention
        /\ horizon' = IF Cutoff > horizon THEN Cutoff ELSE horizon
    BY <1>1, PassShape DEF Prune, Pass, Cutoff
  <1>3. horizon \in Nat /\ Cutoff \in Int /\ Cutoff <= MaxTime
    BY <1>1, <1>2, StorageAssumption DEF TypeOK, Time
  <1>4. CASE Cutoff > horizon
    <2>1. Cutoff \in Time /\ horizon' = Cutoff
      BY <1>2, <1>3, <1>4, StorageAssumption DEF Time
    <2>2. \A kt \in Key \X Time : kt[2] \in Int
      BY StorageAssumption DEF Time
    <2>3. ASSUME NEW kt \in Key \X Time
          PROVE  VisibleDb'[kt] = IF kt[2] >= horizon' THEN VisibleDb[kt]
                                  ELSE NoValue
      <3>1. VisibleDb[kt] = IF kt[2] >= horizon THEN last[kt] ELSE NoValue
        BY DEF MapOk, View
      <3>2. VisibleDb'[kt] = IF kt[2] >= horizon' THEN last[kt] ELSE NoValue
        BY <1>1 DEF MapOk, View
      <3>3. kt[2] >= horizon' => kt[2] >= horizon
        BY <1>3, <1>4, <2>1, <2>2
      <3> QED
        BY <3>1, <3>2, <3>3
    <2>4. VisibleDb' = [kt \in Key \X Time |->
                          IF kt[2] >= horizon' THEN VisibleDb[kt] ELSE NoValue]
      BY <2>3 DEF MapOk, View
    <2>5. Abstract!Expire(Cutoff)
      BY <1>2, <2>4 DEF Abstract!Expire, Abstract!Key, Abstract!Time, Key, Time
    <2> QED
      BY <2>1, <2>5 DEF Abstract!Next, Abstract!Time, Time
  <1>5. CASE ~(Cutoff > horizon)
    BY <1>1, <1>2, <1>5, RefinesSilent
  <1> QED
    BY <1>4, <1>5

\* A damaged chunk loses points of its own series.
LEMMA RefinesRot ==
  ASSUME RInv, MapOk, MapOk', NEW c \in chunks, Rot(c)
  PROVE  Abstract!Next
  <1> DEFINE k == series[c.id]
             lost == {t \in Time : /\ t \in TsOf(c.points)
                                   /\ t \notin TsOf(RawOf(samples, c.id))}
  <1>1. /\ TypeOK /\ ChunkShape /\ CanRot /\ horizon' = horizon
    BY DEF RInv, IInv, Committed, Rot
  <1>2. k \in Key
    BY <1>1 DEF ChunkShape, TypeOK
  <1>3. \A kt \in Key \X Time :
          last'[kt] = IF kt[1] = k /\ kt[2] \in lost THEN NoValue ELSE last[kt]
    BY DEF Rot
  <1> HIDE DEF k, lost
  <1>4. \A kt \in Key \X Time :
          VisibleDb'[kt] = IF kt[1] = k /\ kt[2] \in lost THEN NoValue
                           ELSE VisibleDb[kt]
    BY <1>1, <1>3 DEF MapOk, View
  <1>5. VisibleDb' = [kt \in Key \X Time |->
                        IF kt[1] = k /\ kt[2] \in lost THEN NoValue
                        ELSE VisibleDb[kt]]
    BY <1>4 DEF MapOk, View
  <1>6. lost \in SUBSET Time
    BY DEF lost
  <1>7. Abstract!Rot(k)
    BY <1>1, <1>5, <1>6 DEF Abstract!Rot, Abstract!Key, Abstract!Time, Key, Time
  <1> QED
    BY <1>2, <1>7 DEF Abstract!Next, Abstract!Key, Key

LEMMA RefinesStep ==
  RInv /\ MapOk /\ MapOk' /\ [Next]_vars => [Abstract!Next]_Abstract!vars
  <1> SUFFICES ASSUME RInv, MapOk, MapOk', [Next]_vars
               PROVE  Abstract!Next \/ UNCHANGED Abstract!vars
    OBVIOUS
  <1>1. CASE UNCHANGED vars
    BY <1>1, RefinesSilent DEF vars
  <1>2. CASE InsertCommit
    BY <1>2, RefinesCommit
  <1>3. CASE Prune
    BY <1>3, RefinesPrune
  <1>4. CASE \E c \in chunks : Rot(c)
    BY <1>4, RefinesRot
  <1>5. CASE \/ \E h \in Host, t \in Time, batch \in Batch : InsertBegin(h, t, batch)
             \/ InsertKnown \/ InsertUnknown \/ InsertFail
    BY <1>5, RefinesSilent
       DEF InsertBegin, InsertKnown, InsertUnknown, InsertFail
  <1>6. CASE Ask
    BY <1>6, RefinesSilent
       DEF Ask, QueryBegin, QueryChunks, QuerySamples, QueryReturn, QueryFail
  <1>7. CASE \/ PassBegin
             \/ \E iw \in Todo : CompactRead(iw[1], iw[2])
             \/ \E iw \in Todo : CompactSkip(iw[1], iw[2])
             \/ CompactCommit \/ CompactAbort \/ PruneFail
    BY <1>7, RefinesSilent
       DEF PassBegin, CompactRead, CompactSkip, CompactCommit, CompactAbort,
           PruneFail
  <1>8. CASE Restart \/ Tick
    BY <1>8, RefinesSilent DEF Restart, Tick
  <1> QED
    BY <1>1, <1>2, <1>3, <1>4, <1>5, <1>6, <1>7, <1>8
       DEF Next, Insert, Maintain

\* The engine of three tables, two connections, a cache and a compactor
\* implements a map from series and seconds to the newest value written: an
\* insert lands whole or not at all, retention only moves a horizon, and
\* nothing else the engine does can be seen.
THEOREM StorageImplementsTimeSeries == Spec => ImplementsTimeSeries
  <1>1. RInv => MapOk
    BY RInvMaps
  <1>2. Init /\ MapOk => Abstract!Init
    BY RefinesInit
  <1>3. RInv /\ MapOk /\ MapOk' /\ [Next]_vars => [Abstract!Next]_Abstract!vars
    BY RefinesStep
  <1> QED
    BY <1>1, <1>2, <1>3, RInvariant, PTL
       DEF Spec, ImplementsTimeSeries, Abstract!Spec
=============================================================================
