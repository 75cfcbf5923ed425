---------------------------- MODULE MCArguments ----------------------------
(* Small instances of Arguments for TLC.                                   *)
EXTENDS Arguments

CONSTANTS f1, f2

SomeFilters == {f1, f2}

\* Every list of up to three values, and every list of one to three behind
\* three filters, so that the limit of four is met and passed.
SomeArgs ==
    LET Short == UNION {[1 .. n -> Values] : n \in 0 .. 3}
        Long  == UNION {[1 .. n -> Values] : n \in 1 .. 3}
    IN  Short \union {<<f1, f2, f1>> \o s : s \in Long}
=============================================================================
