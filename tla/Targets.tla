------------------------------- MODULE Targets -------------------------------
(***************************************************************************)
(* The names of targets: what silph-server accepts in its configuration    *)
(* (config.rs Config::validate), how a request names several of them in    *)
(* one parameter (assets/app.js joins them with commas) and how the query  *)
(* API takes that parameter apart (api.rs split_list).  A name is the      *)
(* sequence of its characters.                                             *)
(***************************************************************************)
EXTENDS Integers, SequencesExt

Blank == " "
Comma == ","

\* str::trim
Trim(name) ==
    LET kept == {i \in DOMAIN name : name[i] # Blank}
    IN  IF kept = {} THEN <<>> ELSE SubSeq(name, Min(kept), Max(kept))

\* Names are not blank, have no comma, and differ.  (Mutant first: commas
\* are not looked for.)
ValidAnyChar(config) ==
    /\ \A i \in DOMAIN config : Trim(config[i]) # <<>>
    /\ \A i, j \in DOMAIN config : config[i] = config[j] => i = j
Valid(config) ==
    /\ \A i \in DOMAIN config : /\ Trim(config[i]) # <<>>
                                /\ Comma \notin ToSet(config[i])
    /\ \A i, j \in DOMAIN config : config[i] = config[j] => i = j

\* The host parameter of a request for these names.
Joined(names) ==
    FoldLeft(LAMBDA all, name : IF all = <<>> THEN name ELSE all \o <<Comma>> \o name,
             <<>>, names)

\* split(',')
Pieces(raw) ==
    FoldLeft(LAMBDA pieces, char :
               IF char = Comma THEN Append(pieces, <<>>)
               ELSE [pieces EXCEPT ![Len(pieces)] = Append(@, char)],
             << <<>> >>, raw)

\* Each piece trimmed, without blanks and repeats, in the caller's order.
SplitList(raw) ==
    FoldLeft(LAMBDA names, piece :
               IF Trim(piece) = <<>> \/ Trim(piece) \in ToSet(names) THEN names
               ELSE Append(names, Trim(piece)),
             <<>>, Pieces(raw))
=============================================================================
