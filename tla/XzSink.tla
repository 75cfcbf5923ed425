------------------------------- MODULE XzSink -------------------------------
(***************************************************************************)
(* What an LZMA::Encoder promises to the object behind it (outport), in    *)
(* terms of what that object can see: it only ever gets more, what it gets *)
(* is an initial part of the stream of the data offered so far, and when   *)
(* the encoder is closed it has the whole stream.  Once an exception cut a *)
(* call short the promise is weaker: what is added is still in order.      *)
(* Module Encoder implements this one.                                     *)
(***************************************************************************)
EXTENDS XzFormat

VARIABLES
    sink,      \* what the receiver holds
    offered,   \* number of bytes the program gave to write
    open,      \* the encoder is not closed
    broken     \* an exception cut a call short

sinkVars == <<sink, offered, open, broken>>

Init == sink = <<>> /\ offered = 0 /\ open = TRUE /\ broken = FALSE

\* The program writes.  It cannot do so behind a trailer.
Offer ==
    /\ open /\ ~broken
    /\ Len(sink) <= offered + 1
    /\ offered' \in Nat /\ offered' > offered
    /\ UNCHANGED <<sink, open, broken>>

\* A part of the stream reaches the receiver.
Deliver ==
    /\ open /\ ~broken
    /\ IsInitialPart(sink, sink') /\ IsInitialPart(sink', Frame(offered))
    /\ UNCHANGED <<offered, open, broken>>

\* The encoder is closed, which it can only be once.
Finish ==
    /\ open /\ ~broken
    /\ sink = Frame(offered)
    /\ open' = FALSE
    /\ UNCHANGED <<sink, offered, broken>>

\* An exception cuts a call short, or did so before.
Break ==
    /\ broken' = TRUE
    /\ IsInitialPart(sink, sink') /\ Orderly(sink')
    /\ offered' \in Nat
    /\ open' \in BOOLEAN /\ (open' => open)

Next == Offer \/ Deliver \/ Finish \/ Break

Spec == Init /\ [][Next]_sinkVars
=============================================================================
