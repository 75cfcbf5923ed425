----------------------------- MODULE EncoderInv -----------------------------
(***************************************************************************)
(* The inductive strengthening of the safety properties of Encoder: where  *)
(* every byte is between two steps.  MCEncoder checks it on small          *)
(* instances, EncoderProofs proves it for every value of the constants.    *)
(***************************************************************************)
EXTENDS Encoder

\* Everything the compressor has put out or owes, in order.
Whole == (outport \o Undelivered) \o held

\* Bytes the compressor has consumed, when no call was cut short.
Fed == (accepted + batch) - (Len(writebuf) - taken)

\* The xz stream of the first n bytes before the compressor was told to
\* FINISH: all but the trailer.
Opened(n) == [i \in 1 .. n + 1 |-> IF i = 1 THEN HEAD ELSE i - 1]

\* What control flow guarantees about the stream, whatever raised before.
Control ==
    /\ (op = "none") = (pc = "idle")
    /\ op = "write" => pc # "finish" /\ pc # "mark" /\ reach = "held"
    /\ op = "close" => pc # "run" /\ reach = "held" /\ status
    /\ op = "finalize" => reach = "dropped" /\ status
    /\ op # "write" => batch = 0
    /\ finalFailed => reach = "gone"
    /\ pc # "coding" => taken = 0 /\ made = <<>>
    /\ pc \in {"coding", "emit"} /\ act = "RUN" =>
           op \in {"write", "finalize"}
    /\ pc \in {"coding", "emit"} /\ act = "RUN" => seq = "run"
    /\ pc = "coding" /\ act = "FINISH" => seq = "finish" /\ taken = 0
    /\ pc \in {"coding", "emit"} /\ act = "FINISH" =>
           op \in {"close", "finalize"} /\ seq # "run"
    /\ pc = "mark" => seq = "end" /\ op \in {"close", "finalize"}
    /\ pc = "emit" /\ act = "FINISH" /\ ret = "STREAM_END" => seq = "end"
    /\ pc = "emit" /\ act = "FINISH" /\ ret = "OK" => seq = "finish"
    /\ seq = "end" => held = <<>>
    /\ ~status => seq = "end"
    /\ ~status /\ op = "write" => Len(writebuf) = batch

\* The order of the tokens on their way to the receiver survives every loss:
\* a header can only be first, a trailer only last, and there is no trailer
\* before FINISH.
InOrder ==
    \A i \in 1 .. Len(Whole) :
        /\ Whole[i] = HEAD => i = 1
        /\ Whole[i] = TAIL => i = Len(Whole) /\ seq # "run"

\* As long as the stream is open and nothing cut a call short, the receiver,
\* the output buffer and the compressor together hold exactly the stream of
\* the bytes consumed, and the input buffer holds the bytes that follow.
Conservation ==
    faults = 0 /\ ~finalFailed /\ status =>
        /\ Len(writebuf) <= batch
        /\ op # "write" => writebuf = <<>>
        /\ \A i \in 1 .. Len(writebuf) :
               writebuf[i] = accepted + batch - Len(writebuf) + i
        /\ Whole = IF seq = "run" THEN Opened(Fed) ELSE Frame(Fed)
        /\ pc \in {"idle", "run"} => seq = "run" \/ reach = "gone"
        /\ pc = "finish" => seq \in {"run", "finish"}
        /\ pc = "emit" /\ op = "close" => ret \in {"OK", "STREAM_END"}

\* A finalizer that failed left an initial part of the stream behind.
AfterFailure ==
    faults = 0 /\ finalFailed =>
        /\ op = "none" /\ reach = "gone" /\ status
        /\ IsInitialPart(outport, Frame(accepted))

IInv == /\ TypeOK /\ Control /\ InOrder
        /\ Conservation /\ ClosedIsComplete /\ AfterFailure
=============================================================================
