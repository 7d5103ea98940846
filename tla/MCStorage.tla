----------------------------- MODULE MCStorage ------------------------------
(***************************************************************************)
(* Values for the constants of Storage.  Sample values are small numbers;  *)
(* rounding 1 up to 2 stands for quantize, so that 1 is a reading storing  *)
(* alters and 2 and 4 are readings it leaves alone.                        *)
(***************************************************************************)
EXTENDS Storage, TLC

MCValue    == {1, 2, 4}
MCQuantize == [v \in MCValue |-> IF v = 1 THEN 2 ELSE v]

Pt(l, v) == [label |-> l, value |-> v]

\* One point of the only label, as the inserts of one series write.
SingleBatches == {<<Pt(l, v)>> : l \in Label, v \in {1, 4}}

\* One point, a pair in either order, and a label twice (two sensors of one
\* name).
MixedBatches ==
    {<<Pt(l, 1)>> : l \in Label}
      \cup {<<Pt(l, 1), Pt(m, 4)>> : l \in Label, m \in Label}

WholeSpan == {<<0, MaxTime>>}
SomeSpans == {<<0, MaxTime>>, <<1, 2>>}
=============================================================================
