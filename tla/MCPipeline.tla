---------------------------- MODULE MCPipeline ------------------------------
(***************************************************************************)
(* Values for the constants of Pipeline.  A pattern has a sign, two bits   *)
(* of exponent and four of mantissa, of which two are kept: Coarse is 4,   *)
(* Infinity 48.                                                            *)
(***************************************************************************)
EXTENDS Pipeline

\* Zero; the subnormal ties 2 and 6; carries into the next exponent; ties to
\* either side; the largest finite value; infinity; a NaN; negative values.
Boundary == {0, 2, 6, 15, 18, 22, 31, Infinity - 1, Infinity, Infinity + 1,
             SignBit + 22, SignBit + Infinity - 1}

\* Two windows of three seconds: the first has a few readings a second, the
\* second only one second, with every kind of reading.
MCScraped ==
    [s \in 0 .. MaxTime |-> IF s < 3 THEN {17, 22} ELSE IF s = 4 THEN Boundary ELSE {}]

\* Whole and partial buckets, starts before the epoch and between seconds,
\* ends on a bucket's edge, and requests that are refused.
MCRequest ==
    [start : {-1, 1}, end : {4, 7, 8}, step : {1, 3, 4}]
      \cup [start : {4}, end : {4, 5, 8}, step : {0, 2}]
=============================================================================
