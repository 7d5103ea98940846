------------------------------ MODULE Pipeline ------------------------------
(***************************************************************************)
(* What becomes of the readings of one series, from Store::insert to the   *)
(* answer of the query API: storage.rs rounds them, compaction splits a    *)
(* window into chunks that fit a page, a query merges chunks and raw rows  *)
(* into buckets, and api.rs places the buckets on the request's axis.      *)
(*                                                                         *)
(* Storage.tla has the concurrency of this; here compaction is one write   *)
(* transaction, whose split is seen step by step, and a query one read.    *)
(* tsz is lossless, so a blob is the run of points it encodes.  How well   *)
(* a run compresses depends on its values, so whether its blob fits is a   *)
(* free choice.  A bucket's average is the run of readings it is taken of. *)
(***************************************************************************)
EXTENDS Quantize, SequencesExt

CONSTANTS
    Scraped,       \* the readings, f64 patterns, each second's scrape can bring
    Request,       \* the requests that are made
    MaxTime,       \* bound: last second of the modelled time line
    Window,        \* CHUNK_WINDOW_S
    Ms,            \* milliseconds of a second
    MAX_BUCKETS,   \* MAX_BUCKETS
    MaxInserts     \* bound: inserts in one behaviour

ASSUME PipelineAssumption ==
    /\ Scraped \in [0 .. MaxTime -> SUBSET Bits]
    /\ Request \subseteq [start : Int, end : Int, step : Int]
    /\ MaxTime \in Nat /\ MaxInserts \in Nat
    /\ Window \in Nat \ {0} /\ Ms \in Nat \ {0}
    /\ MAX_BUCKETS \in Nat

VARIABLES
    raw,       \* table samples: the rows of the series
    chunks,    \* table chunks: its compacted runs
    window,    \* the window the open write transaction compacts
    stack,     \* split_encode's calls to come: the runs still to encode
    out,       \* the chunks it has pushed, in order
    reply,     \* the last answer of the query API
    inserts,   \* inserts made, for MaxInserts
    sent       \* history: the newest reading handed over for each second

vars == <<raw, chunks, window, stack, out, reply, inserts, sent>>

None     == -1                 \* no reading, no window, a null
Second   == 0 .. MaxTime
Reading  == [ts : Second, value : Bits]
WindowOf(s) == s \div Window

\* Readings in the order of their seconds, one of each second.
Run(readings) ==
    LET seconds == {r.ts : r \in readings}
    IN  [k \in 1 .. Cardinality(seconds) |->
           CHOOSE r \in readings : Cardinality({t \in seconds : t < r.ts}) = k - 1]

Nothing == [op |-> "nothing"]
Refused == [op |-> "refused"]

Init ==
    /\ raw = [s \in Second |-> None]
    /\ chunks = {}
    /\ window = None
    /\ stack = <<>>
    /\ out = <<>>
    /\ reply = Nothing
    /\ inserts = 0
    /\ sent = [s \in Second |-> None]

-----------------------------------------------------------------------------
(* Inserting and compacting                                                *)

\* Inner::insert: INSERT OR REPLACE of the rounded value.  It waits while a
\* compaction holds the write lock.  SQLite binds a NaN as NULL, which the
\* column refuses: the insert fails and leaves nothing.
Insert(s, v) ==
    /\ window = None
    /\ ~IsNaN(Quantize(v))
    /\ inserts < MaxInserts
    /\ raw' = [raw EXCEPT ![s] = Quantize(v)]
    /\ sent' = [sent EXCEPT ![s] = v]
    /\ inserts' = inserts + 1
    /\ reply' = Nothing
    /\ UNCHANGED <<chunks, window, stack, out>>

Blob(run) == [lo |-> Head(run).ts, hi |-> Last(run).ts, run |-> run]

WindowChunks(w) == {c \in chunks : WindowOf(c.lo) = w}
RawRows == {[ts |-> s, value |-> raw[s]] : s \in {t \in Second : raw[t] # None}}

\* compact_window's BTreeMap: the points of the window's chunks, each
\* overridden by a raw row of its second.
Merged(w) ==
    Run({r \in RawRows : WindowOf(r.ts) = w}
          \cup {r \in UNION {ToSet(c.run) : c \in WindowChunks(w)} :
                  raw[r.ts] = None})

CompactBegin(w) ==
    /\ window = None
    /\ \E r \in RawRows : WindowOf(r.ts) = w
    /\ window' = w
    /\ stack' = <<Merged(w)>>
    /\ out' = <<>>
    /\ reply' = Nothing
    /\ UNCHANGED <<raw, chunks, inserts, sent>>

\* A blob over budget is halved, unless it is of one point.  (Mutant first.)
HalvesAlways(fits, run) == ~fits
Halves(fits, run)       == ~fits /\ Len(run) > 1

\* split_at(len / 2).  (Mutant first: the halves share a point.)
SplitSharing(run) ==
    LET half == Len(run) \div 2
    IN  <<SubSeq(run, 1, half + 1), SubSeq(run, half + 1, Len(run))>>
Split(run) ==
    LET half == Len(run) \div 2
    IN  <<SubSeq(run, 1, half), SubSeq(run, half + 1, Len(run))>>

\* One call of split_encode, the next in order; an empty run returns at once.
Encode(fits) ==
    /\ stack # <<>>
    /\ LET run == Head(stack)
       IN  IF Halves(fits, run)
           THEN stack' = Split(run) \o Tail(stack) /\ UNCHANGED out
           ELSE /\ stack' = Tail(stack)
                /\ out' = IF run = <<>> THEN out ELSE Append(out, Blob(run))
    /\ reply' = Nothing
    /\ UNCHANGED <<raw, chunks, window, inserts, sent>>

\* The window's chunks are rewritten and the rows they cover dropped.
\* (Mutant first: chunks at old split points stay behind.)
RewriteOver(w) ==
    {c \in chunks : \A d \in ToSet(out) : c.lo # d.lo} \cup ToSet(out)
Rewrite(w)     == (chunks \ WindowChunks(w)) \cup ToSet(out)
CompactCommit ==
    /\ window # None
    /\ stack = <<>>
    /\ chunks' = Rewrite(window)
    /\ raw' = [s \in Second |-> IF WindowOf(s) = window THEN None ELSE raw[s]]
    /\ window' = None
    /\ out' = <<>>
    /\ reply' = Nothing
    /\ UNCHANGED <<stack, inserts, sent>>

\* A statement fails: the transaction rolls back.
CompactFail ==
    /\ window # None
    /\ window' = None
    /\ stack' = <<>>
    /\ out' = <<>>
    /\ reply' = Nothing
    /\ UNCHANGED <<raw, chunks, inserts, sent>>

-----------------------------------------------------------------------------
(* Inner::query                                                            *)

\* Rounded up, so that no second that began before the start is admitted.
FirstSecond(rq) == (rq.start + Ms - 1) \div Ms
LastSecond(rq)  == rq.end \div Ms
Asked(rq, s)    == FirstSecond(rq) <= s /\ s <= LastSecond(rq)

\* The points of the chunks that overlap, less those outside, by their seconds;
\* points of one second stay as they were read, by their chunks and places.
ChunkPoints(rq) ==
    LET read   == {c \in chunks : c.hi >= FirstSecond(rq) /\ c.lo <= LastSecond(rq)}
        At(p)  == p[1].run[p[2]]
        inside == {p \in UNION {{c} \X DOMAIN c.run : c \in read} : Asked(rq, At(p).ts)}
        Before(p, q) ==
          \/ At(p).ts < At(q).ts
          \/ At(p).ts = At(q).ts /\ \/ p[1].lo < q[1].lo
                                    \/ p[1].lo = q[1].lo /\ p[2] < q[2]
    IN  [k \in 1 .. Cardinality(inside) |->
           At(CHOOSE p \in inside : Cardinality({q \in inside : Before(q, p)}) = k - 1)]

Samples(rq) == Run({r \in RawRows : Asked(rq, r.ts)})

\* The two runs in one pass; a raw row overrides the chunk point of its second.
MergeRuns(points, samples) ==
    LET from[at \in (1 .. Len(points) + 1) \X (1 .. Len(samples) + 1)] ==
          LET i == at[1]
              j == at[2]
          IN  IF i > Len(points) THEN SubSeq(samples, j, Len(samples))
              ELSE IF j > Len(samples) THEN SubSeq(points, i, Len(points))
              ELSE IF points[i].ts < samples[j].ts
                   THEN <<points[i]>> \o from[<<i + 1, j>>]
              ELSE <<samples[j]>> \o from[<<IF points[i].ts = samples[j].ts THEN i + 1 ELSE i, j + 1>>]
    IN  from[<<1, 1>>]

\* Buckets are aligned to multiples of the step; each closes when the next
\* one opens.
BucketOf(rq, s) == ((s * Ms) \div rq.step) * rq.step

AddTo(rq, buckets, r) ==
    LET bucket == BucketOf(rq, r.ts)
    IN  IF buckets # <<>> /\ Last(buckets).ts = bucket
        THEN [buckets EXCEPT ![Len(buckets)].run = Append(@, r)]
        ELSE Append(buckets, [ts |-> bucket, run |-> <<r>>])

Buckets(rq) ==
    FoldLeft(LAMBDA buckets, r : AddTo(rq, buckets, r), <<>>,
             MergeRuns(ChunkPoints(rq), Samples(rq)))

-----------------------------------------------------------------------------
(* api.rs query, for the one series                                        *)

Valid(rq) ==
    /\ rq.step > 0
    /\ rq.end > rq.start
    /\ (rq.end - rq.start) \div rq.step <= MAX_BUCKETS

\* The times of the buckets all series of the answer share.  (Mutant first:
\* the axis starts where the request does.)
AxisStartRaw(rq) == rq.start
AxisStart(rq)    == rq.start - (rq.start % rq.step)
Axis(rq) ==
    [i \in 1 .. (rq.end - AxisStart(rq) + rq.step - 1) \div rq.step |->
       AxisStart(rq) + (i - 1) * rq.step]

\* A bucket off the axis is dropped; a time without a bucket is null.
Place(rq, values, bucket) ==
    LET index == (bucket.ts - AxisStart(rq)) \div rq.step + 1
    IN  IF index \in DOMAIN values THEN [values EXCEPT ![index] = bucket.run]
        ELSE values

Values(rq) ==
    FoldLeft(LAMBDA values, bucket : Place(rq, values, bucket),
             [i \in DOMAIN Axis(rq) |-> <<>>], Buckets(rq))

\* A series with no bucket at all is left out of the answer.
Answer(rq) ==
    [op |-> "ok", request |-> rq, t |-> Axis(rq),
     omitted |-> Buckets(rq) = <<>>, values |-> Values(rq)]

\* One request; its answer is forgotten at the next step of the store, so
\* that it is judged by the readings it could have seen.
Ask(rq) ==
    /\ reply = Nothing
    /\ reply' = IF Valid(rq) THEN Answer(rq) ELSE Refused
    /\ UNCHANGED <<raw, chunks, window, stack, out, inserts, sent>>

Next ==
    \/ \E s \in Second : \E v \in Scraped[s] : Insert(s, v)
    \/ \E w \in 0 .. WindowOf(MaxTime) : CompactBegin(w)
    \/ \E fits \in BOOLEAN : Encode(fits)
    \/ CompactCommit
    \/ CompactFail
    \/ \E rq \in Request : Ask(rq)

Spec == Init /\ [][Next]_vars

\* The compacting thread goes on; that it fails is never relied on.
Compacting == (\E fits \in BOOLEAN : Encode(fits)) \/ CompactCommit
FairSpec   == Spec /\ WF_vars(Compacting)

-----------------------------------------------------------------------------

TypeOK ==
    /\ raw \in [Second -> Bits \cup {None}]
    /\ \A c \in chunks \cup ToSet(out) :
          c.run # <<>> /\ \A i \in DOMAIN c.run : c.run[i] \in Reading
    /\ \A i \in DOMAIN stack : stack[i] # <<>>
    /\ window \in {None} \cup 0 .. WindowOf(MaxTime)
    /\ inserts \in 0 .. MaxInserts
    /\ sent \in [Second -> Bits \cup {None}]

\* A stored value is the rounding the comments promise of the newest reading
\* of its second, still after it has been compacted, and compacted again.
StoredRounded ==
    \A r \in RawRows \cup {p \in UNION {ToSet(c.run) : c \in chunks} : raw[p.ts] = None} :
       Rounds(sent[r.ts], r.value)

\* Splitting a window loses no point, repeats none and reorders none:
\* whatever the blobs' sizes, what is pushed followed by what is still to
\* encode is the window's merged run (storage.rs:578-607).
SplitKeepsRun ==
    window # None =>
       FlattenSeq([i \in DOMAIN out |-> out[i].run]) \o FlattenSeq(stack)
         = Merged(window)

\* An answer's value at a time is the average of exactly the newest readings
\* that fall in that bucket and in the request, each counted once, rounded
\* as on insert, whether they come from chunks, raw rows or both; the series
\* is left out only where the request has none (storage.rs:398-487, api.rs:213-247).
AnswerExact ==
    reply.op = "ok" =>
       LET rq  == reply.request
           Due == {s \in Second : /\ sent[s] # None
                                  /\ rq.start <= s * Ms /\ s * Ms <= rq.end}
           In(i) == {s \in Due : /\ reply.t[i] <= s * Ms
                                 /\ s * Ms < reply.t[i] + rq.step}
       IN  /\ reply.omitted <=> Due = {}
           /\ \A i \in DOMAIN reply.t :
                reply.values[i] =
                  Run({[ts |-> s, value |-> Quantize(sent[s])] : s \in In(i)})

\* The axis of an answer is regular, aligned to the epoch, holds every
\* millisecond of the request but perhaps its end in exactly one bucket, and
\* is at most two longer than MAX_BUCKETS (api.rs:172-174, 205-211).
AxisCovers ==
    reply.op = "ok" =>
       LET rq == reply.request
           n  == Len(reply.t)
       IN  /\ n \in 1 .. MAX_BUCKETS + 2
           /\ \A i \in 1 .. n : reply.t[i] % rq.step = 0
           /\ \A ms \in rq.start .. rq.end - 1 :
                \E i \in 1 .. n :
                   /\ reply.t[i] <= ms /\ ms < reply.t[i] + rq.step
                   /\ \A j \in 1 .. n \ {i} : ms < reply.t[j] \/ ms >= reply.t[j] + rq.step

\* Halving ends: a compaction is over at some time, although even a single
\* point may not fit the budget (storage.rs:598-600).
CompactionEnds == (window # None) ~> (window = None)
=============================================================================
