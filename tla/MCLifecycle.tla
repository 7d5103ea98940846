---------------------------- MODULE MCLifecycle -----------------------------
(***************************************************************************)
(* Values for the constants of Lifecycle: two target lists that are        *)
(* accepted, one with a blank at the end of a name, and three that are     *)
(* not: a name twice, a blank one, and one with a comma.                   *)
(***************************************************************************)
EXTENDS Lifecycle

MCConfig ==
    { << <<"w">>, <<"x", "w">> >>, << <<"w", " ">> >>,
      << <<"w">>, <<"w">> >>, << <<" ">> >>, << <<"w", ",", "x">> >> }
=============================================================================
