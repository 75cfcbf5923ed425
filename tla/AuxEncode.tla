------------------------------ MODULE AuxEncode ------------------------------
(***************************************************************************)
(* LZMA.encode with a block: Aux.encode of lib/extlzma.rb makes an         *)
(* LZMA::Encoder, yields it, and closes it in an ensure clause, whichever  *)
(* way the block is left.  The block is any program: it writes, closes,    *)
(* rescues the exceptions of both, and may keep the encoder for later.     *)
(***************************************************************************)
EXTENDS Encoder

VARIABLES
    at,      \* "block", "ensure", "closing" or "end"
    block,   \* how the block was left: "", "value" or "exception"
    answer   \* what the caller gets: "", "value", "exception", or "close",
             \* the exception of the close in the ensure clause

auxVars == <<at, block, answer>>
encodeVars == <<vars, auxVars>>

AuxInit == Init /\ at = "block" /\ block = "" /\ answer = ""

\* What a block can do with its encoder, and what happens inside the calls.
InBlock ==
    /\ at = "block"
    /\ Step \/ Event \/ (\E k \in 0 .. MaxUnits : Write(k)) \/ Close
    /\ UNCHANGED auxVars

\* The block is left: at its end, or by an exception, which may be its own
\* or come from a call of the encoder.
BlockLeft ==
    /\ at = "block" /\ pc = "idle"
    /\ block' \in {"value", "exception"} /\ at' = "ensure"
    /\ UNCHANGED <<vars, answer>>

\* Mutant: the close only at the end of the block, without ensure.
EnsureSkipped ==
    /\ at = "ensure"
    /\ IF block = "value" THEN Close /\ at' = "closing" /\ UNCHANGED <<block, answer>>
       ELSE at' = "end" /\ answer' = block /\ UNCHANGED <<vars, block>>

\* Mutant: no close at all.
EnsureNothing ==
    /\ at = "ensure" /\ at' = "closing"
    /\ UNCHANGED <<vars, block, answer>>

\* s.close
Ensure ==
    /\ at = "ensure" /\ at' = "closing"
    /\ Close
    /\ UNCHANGED <<block, answer>>

Closing ==
    /\ at = "closing" /\ pc # "idle"
    /\ Step \/ Event
    /\ UNCHANGED auxVars

\* Mutant: a close that raised is tried again.
AuxReturnRetries ==
    /\ at = "closing" /\ pc = "idle"
    /\ IF result = "raised" THEN at' = "ensure" /\ UNCHANGED answer
                            ELSE at' = "end" /\ answer' = block
    /\ UNCHANGED <<vars, block>>

\* An exception of close takes the place of the value and of the exception.
AuxReturn ==
    /\ at = "closing" /\ pc = "idle" /\ at' = "end"
    /\ answer' = IF result = "raised" THEN "close" ELSE block
    /\ UNCHANGED <<vars, block>>

\* Nobody refers to the encoder any more, or the block has kept it.
Afterwards ==
    /\ at = "end"
    /\ Drop \/ Finalize \/ (op = "finalize" /\ (Step \/ Event))
    /\ UNCHANGED auxVars

AuxNext == InBlock \/ BlockLeft \/ Ensure \/ Closing \/ AuxReturn \/ Afterwards

AuxSpec == AuxInit /\ [][AuxNext]_encodeVars

\* A call that was entered goes on, and so does Aux.encode once the block is
\* left.  The block may do anything.
AuxFairSpec ==
    AuxSpec /\ WF_encodeVars((InBlock \/ Closing) /\ (Step \/ Event))
            /\ WF_encodeVars(Ensure \/ Closing \/ AuxReturn)

-----------------------------------------------------------------------------
(* Properties.                                                             *)

\* LZMA.encode with a block returns only when the receiver has the complete
\* stream of what the block wrote, unless an exception has told the block of
\* something that went wrong.
ValueMeansComplete ==
    answer = "value" /\ faults = 0 => outport = Frame(accepted)

\* A block that raises does not leave the stream unfinished: what it wrote
\* before can be read by any xz, if nothing else went wrong.
ExceptionFinishesToo ==
    answer = "exception" /\ faults = 0 => outport = Frame(accepted)

\* Once the block is left, the caller gets an answer.
EncodeAnswers == (at = "ensure") ~> (at = "end")

\* lib:21: with a block, the value of the block is returned.
BlockValueReturned ==
    answer # "" /\ block = "value" /\ faults = 0 => answer = "value"
=============================================================================
