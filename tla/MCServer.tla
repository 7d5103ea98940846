------------------------------ MODULE MCServer ------------------------------
(***************************************************************************)
(* Server over model values.  Nothing tells one host from another, so      *)
(* states that differ by a renaming are one.                               *)
(***************************************************************************)
EXTENDS Server, TLC

HostSymmetry == Permutations(Host)
=============================================================================
