----------------------------- MODULE TimeSeries -----------------------------
(***************************************************************************)
(* What the embedded time-series store promises its callers, with nothing  *)
(* of how it keeps the promise: a map from a series and a second to the    *)
(* newest value written there.  A batch of one host lands whole or not at  *)
(* all, retention moves a horizon forward and the map says nothing of the  *)
(* seconds behind it, and a damaged block loses points but never invents   *)
(* or alters one.  Compaction, the series-id cache, failed transactions    *)
(* and process crashes have no action here: they must be invisible.        *)
(***************************************************************************)
EXTENDS Integers

CONSTANTS Host, Label, Value, NoValue, MaxTime, CanRot

Time == 0 .. MaxTime
Key  == [host : Host, label : Label]

VARIABLES
    db,       \* newest value per series and second; NoValue where none
    horizon   \* seconds before this one have been handed to retention

vars == <<db, horizon>>

TypeOK ==
    /\ db \in [Key \X Time -> Value \cup {NoValue}]
    /\ horizon \in Nat

Init ==
    /\ db = [kt \in Key \X Time |-> NoValue]
    /\ horizon = 0

(* One host's batch: every label written gets its value at second t.       *)
Write(h, t) ==
    /\ \E written \in SUBSET Label : \E val \in [written -> Value] :
          db' = [kt \in Key \X Time |->
                   IF /\ kt[2] = t /\ t >= horizon
                      /\ kt[1].host = h /\ kt[1].label \in written
                   THEN val[kt[1].label]
                   ELSE db[kt]]
    /\ UNCHANGED horizon

(* Retention: the horizon only moves forward, and nothing on its near side *)
(* is touched.                                                             *)
Expire(cutoff) ==
    /\ horizon' = IF cutoff > horizon THEN cutoff ELSE horizon
    /\ db' = [kt \in Key \X Time |->
                IF kt[2] >= horizon' THEN db[kt] ELSE NoValue]

(* A damaged block of one series loses points of that series.              *)
Rot(k) ==
    /\ CanRot
    /\ \E lost \in SUBSET Time :
          db' = [kt \in Key \X Time |->
                   IF kt[1] = k /\ kt[2] \in lost THEN NoValue ELSE db[kt]]
    /\ UNCHANGED horizon

Next ==
    \/ \E h \in Host, t \in Time : Write(h, t)
    \/ \E cutoff \in Time : Expire(cutoff)
    \/ \E k \in Key : Rot(k)

Spec == Init /\ [][Next]_vars
=============================================================================
