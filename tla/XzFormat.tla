------------------------------ MODULE XzFormat ------------------------------
(***************************************************************************)
(* A compressed stream, as far as the properties of the encoder tell it    *)
(* apart: a header HEAD, the plain bytes 1 .. n, a trailer TAIL.  For the  *)
(* raw encoder read HEAD and TAIL as the begin and the end of the stream.  *)
(***************************************************************************)
EXTENDS Naturals, Sequences

CONSTANTS HEAD, TAIL   \* what the compressor emits before and after the data

Token == Nat \union {HEAD, TAIL}

\* The stream of the first n bytes.
Frame(n) == [i \in 1 .. n + 2 |->
                CASE i = 1     -> HEAD
                  [] i = n + 2 -> TAIL
                  [] OTHER     -> i - 1]

\* s is an initial part of t.
IsInitialPart(s, t) ==
    Len(s) <= Len(t) /\ \A i \in 1 .. Len(s) : s[i] = t[i]

\* A header is only at the beginning of s, a trailer only at its end.
Orderly(s) ==
    \A i \in 1 .. Len(s) :
        /\ s[i] = HEAD => i = 1
        /\ s[i] = TAIL => i = Len(s)
=============================================================================
