------------------------------- MODULE Channel -------------------------------
(***************************************************************************)
(* What an LZMA::Encoder whose output an LZMA::Decoder reads amounts to: a *)
(* FIFO of bytes with an end.  Byte n is the n-th one that was written.    *)
(* Nothing is dropped, repeated or taken back, and the end is reported     *)
(* when the writer has shut the channel and everything has been got.       *)
(***************************************************************************)
EXTENDS Naturals, Sequences

VARIABLES
    sent,     \* how many bytes were written
    open,     \* the writer has not ended the channel
    got,      \* what the reader has
    atEnd     \* the last read was told that this is all

vars == <<sent, open, got, atEnd>>

Init == sent = 0 /\ open = TRUE /\ got = <<>> /\ atEnd = FALSE

Put ==
    /\ open /\ sent' \in Nat /\ sent' >= sent
    /\ UNCHANGED <<open, got, atEnd>>

Shut ==
    /\ open /\ open' = FALSE
    /\ UNCHANGED <<sent, got, atEnd>>

\* A read that returns n bytes, and whether it says that they were the last.
Get(n, last) ==
    /\ Len(got) + n <= sent
    /\ got' = got \o [i \in 1 .. n |-> Len(got) + i]
    /\ atEnd' = last
    /\ last => ~open /\ Len(got') = sent
    /\ UNCHANGED <<sent, open>>

\* The reader asks again.
Ask == atEnd' = FALSE /\ UNCHANGED <<sent, open, got>>

Next ==
    \/ Put \/ Shut \/ Ask
    \/ \E n \in 0 .. sent, last \in BOOLEAN : Get(n, last)

Spec == Init /\ [][Next]_vars
=============================================================================
