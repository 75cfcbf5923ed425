------------------------------- MODULE Encoder -------------------------------
(***************************************************************************)
(* LZMA::Encoder (lib/extlzma.rb) driving one compressor through           *)
(* LZMA::Stream#code (ext/stream.c): write, close, the finalizer that      *)
(* finishes the stream of an encoder nobody closed, and the events that    *)
(* cut a call short -- the receiver (outport) raising, an asynchronous     *)
(* exception (Timeout, Thread#raise, a signal) delivered when the          *)
(* interpreter checks for interrupts, an allocation failure in liblzma.    *)
(*                                                                         *)
(* Data.  A plain byte is its position 1, 2, ... in what the program wants *)
(* to compress, so a program that repeats a failed write offers the same   *)
(* positions again.  The compressor is abstracted to what the properties   *)
(* tell apart: it emits a header HEAD, then the bytes it consumed in       *)
(* order, as late as it likes, then a trailer TAIL once it is told to      *)
(* FINISH.  An xz stream of n bytes is therefore Frame(n).                 *)
(*                                                                         *)
(* One thread uses the encoder at a time: neither Encoder nor Stream#code  *)
(* holds a lock.                                                           *)
(***************************************************************************)
EXTENDS LzmaCode, XzFormat

CONSTANTS
    BLOCKSIZE,    \* output space of one call (Encoder::BLOCKSIZE)
    MaxUnits,     \* bound: bytes the program ever writes
    MaxFaults     \* bound: calls of the program cut short by an event

ASSUME EncoderAssumption ==
    /\ BLOCKSIZE \in Nat \ {0}
    /\ MaxUnits \in Nat
    /\ MaxFaults \in Nat
    /\ HEAD \notin Nat /\ TAIL \notin Nat /\ HEAD # TAIL

VARIABLES
    \* members of the Struct
    status,       \* status[0]: TRUE until the stream is closed
    writebuf,     \* writebuf.string: input not yet taken by the compressor
    workbuf,      \* output of the last call to code
    outport,      \* everything the receiver holds
    \* the lzma_stream
    seq,          \* its sequence (module LzmaCode)
    held,         \* output the compressor owes but has not produced yet
    \* the call in progress
    op,           \* "none", "write", "close" or "finalize"
    pc,           \* where it stands
    act,          \* the action passed to lzma_code
    ret,          \* what lzma_code returned
    taken, made,  \* input consumed and output produced since it was entered
    \* the program that owns the encoder
    reach,        \* "held", "dropped" (or exiting), "gone" once finalized
    batch,        \* number of bytes given to the write in progress
    result,       \* how the last call ended
    \* history, read by the properties only
    accepted,     \* bytes of the writes that returned normally
    faults,       \* events that cut a call of the program short
    finalFailed   \* an exception ended the finalizer (Ruby discards it)

rubyVars == <<status, writebuf, workbuf, outport>>
lzmaVars == <<seq, held>>
callVars == <<op, pc, act, ret, taken, made>>
userVars == <<reach, batch, result>>
histVars == <<accepted, faults, finalFailed>>
vars == <<rubyVars, lzmaVars, callVars, userVars, histVars>>

TypeOK ==
    /\ status \in BOOLEAN
    /\ writebuf \in Seq(Nat)
    /\ workbuf \in Seq(Token) /\ made \in Seq(Token)
    /\ held \in Seq(Token) /\ outport \in Seq(Token)
    /\ seq \in Phases
    /\ op \in {"none", "write", "close", "finalize"}
    /\ pc \in {"idle", "run", "finish", "coding", "emit", "mark"}
    /\ act \in {"RUN", "FINISH"}
    /\ ret \in Statuses
    /\ taken \in 0 .. Len(writebuf) /\ Len(made) <= BLOCKSIZE
    /\ reach \in {"held", "dropped", "gone"}
    /\ batch \in Nat /\ accepted \in Nat
    /\ result \in {"none", "ok", "raised"}
    /\ faults \in 0 .. MaxFaults
    /\ finalFailed \in BOOLEAN

-----------------------------------------------------------------------------
\* Encoder#initialize: empty buffers, status [1], a compressor that has
\* produced nothing yet.
Init ==
    /\ status = TRUE /\ writebuf = <<>> /\ workbuf = <<>> /\ outport = <<>>
    /\ seq = "run" /\ held = <<HEAD>>
    /\ op = "none" /\ pc = "idle" /\ act = "RUN" /\ ret = "OK"
    /\ taken = 0 /\ made = <<>>
    /\ reach = "held" /\ batch = 0 /\ result = "none"
    /\ accepted = 0 /\ faults = 0 /\ finalFailed = FALSE

\* The call in progress ends.  The exception of a finalizer reaches nobody,
\* and the finalizer runs once.
EndCall(outcome) ==
    /\ op' = "none" /\ pc' = "idle" /\ result' = outcome /\ batch' = 0
    /\ accepted' = IF op = "write" /\ outcome = "ok" THEN accepted + batch
                                                     ELSE accepted
    /\ finalFailed' = (finalFailed \/ (op = "finalize" /\ outcome = "raised"))
    /\ reach' = IF op = "finalize" THEN "gone" ELSE reach

\* An event outside the encoder is about to raise in the middle of a call.
Fault ==
    IF op = "finalize" THEN UNCHANGED faults
    ELSE faults < MaxFaults /\ faults' = faults + 1

-----------------------------------------------------------------------------
(* Calls of the program.                                                   *)

\* write(buf) with k bytes.  Whatever an earlier write left is forgotten.
Write(k) ==
    /\ pc = "idle" /\ reach = "held"
    /\ accepted + k <= MaxUnits
    /\ writebuf' = [i \in 1 .. k |-> accepted + i]
    /\ batch' = k
    /\ op' = "write" /\ pc' = "run" /\ result' = "none"
    /\ UNCHANGED <<status, workbuf, outport, lzmaVars, act, ret, taken, made,
                   reach, histVars>>

Close ==
    /\ pc = "idle" /\ reach = "held"
    /\ IF status THEN op' = "close" /\ pc' = "finish" /\ result' = "none"
                 ELSE result' = "raised" /\ UNCHANGED <<op, pc>>
    /\ UNCHANGED <<rubyVars, lzmaVars, act, ret, taken, made, reach, batch,
                   histVars>>

\* The last reference goes away, or the process exits.
Drop ==
    /\ pc = "idle" /\ reach = "held"
    /\ reach' = "dropped"
    /\ UNCHANGED <<rubyVars, lzmaVars, callVars, batch, result, histVars>>

\* The collector runs the proc of finalizer_make.
Finalize ==
    /\ pc = "idle" /\ reach = "dropped"
    /\ IF status THEN op' = "finalize" /\ pc' = "run" /\ UNCHANGED reach
                 ELSE reach' = "gone" /\ UNCHANGED <<op, pc>>
    /\ UNCHANGED <<rubyVars, lzmaVars, act, ret, taken, made, batch, result,
                   histVars>>

-----------------------------------------------------------------------------
(* The loops of write, of the finalizer and of finalizer_close.            *)

\* until writebuf.string.empty? is over: write returns self ...
WriteDone ==
    /\ pc = "run" /\ op = "write" /\ writebuf = <<>>
    /\ EndCall("ok")
    /\ UNCHANGED <<rubyVars, lzmaVars, act, ret, taken, made, faults>>

\* Mutant: the finalizer that forgets finalizer_close.
DrainDoneUnfinished ==
    /\ pc = "run" /\ op = "finalize" /\ writebuf = <<>>
    /\ pc' = "mark"
    /\ UNCHANGED <<rubyVars, lzmaVars, op, act, ret, taken, made, userVars,
                   histVars>>

\* ... and the finalizer goes on to finalizer_close.
DrainDone ==
    /\ pc = "run" /\ op = "finalize" /\ writebuf = <<>>
    /\ pc' = "finish"
    /\ UNCHANGED <<rubyVars, lzmaVars, op, act, ret, taken, made, userVars,
                   histVars>>

\* context.code(writebuf.string, workbuf, BLOCKSIZE, 0).
CodeRun ==
    /\ pc = "run" /\ writebuf # <<>> /\ Admits(seq, "RUN")
    /\ pc' = "coding" /\ act' = "RUN" /\ seq' = Entered(seq, "RUN")
    /\ UNCHANGED <<rubyVars, held, op, ret, taken, made, userVars, histVars>>

\* Mutants: a status nobody looks at, in a write that returns and in one
\* that tries again.
CodeRunRefusedIgnored ==
    /\ pc = "run" /\ writebuf # <<>> /\ ~Admits(seq, "RUN")
    /\ ret' = Refusal(seq) /\ workbuf' = <<>>
    /\ EndCall("ok")
    /\ UNCHANGED <<status, writebuf, outport, lzmaVars, act, taken, made,
                   faults>>

CodeRunRefusedAgain ==
    /\ pc = "run" /\ writebuf # <<>> /\ ~Admits(seq, "RUN")
    /\ ret' = Refusal(seq) /\ workbuf' = <<>>
    /\ UNCHANGED <<status, writebuf, outport, lzmaVars, op, pc, act, taken,
                   made, userVars, histVars>>

\* The same call when liblzma refuses it: nothing moves, raise_err raises.
CodeRunRefused ==
    /\ pc = "run" /\ writebuf # <<>> /\ ~Admits(seq, "RUN")
    /\ ret' = Refusal(seq) /\ workbuf' = <<>>
    /\ EndCall("raised")
    /\ UNCHANGED <<status, writebuf, outport, lzmaVars, act, taken, made,
                   faults>>

\* Mutant: no workbuf.clear, and a refused call that leaves dest alone.
CodeFinishStale ==
    /\ pc = "finish"
    /\ act' = "FINISH"
    /\ IF Admits(seq, "FINISH")
       THEN /\ pc' = "coding" /\ seq' = Entered(seq, "FINISH")
            /\ held' = IF seq = "run" THEN Append(held, TAIL) ELSE held
            /\ UNCHANGED ret
       ELSE /\ pc' = "emit" /\ ret' = Refusal(seq)
            /\ UNCHANGED lzmaVars
    /\ UNCHANGED <<rubyVars, op, taken, made, userVars, histVars>>

\* workbuf.clear; context.code(nil, workbuf, BLOCKSIZE, LZMA::FINISH).  The
\* first FINISH makes the compressor owe the trailer.
CodeFinish ==
    /\ pc = "finish"
    /\ act' = "FINISH" /\ workbuf' = <<>>
    /\ IF Admits(seq, "FINISH")
       THEN /\ pc' = "coding" /\ seq' = Entered(seq, "FINISH")
            /\ held' = IF seq = "run" THEN Append(held, TAIL) ELSE held
            /\ UNCHANGED ret
       ELSE /\ pc' = "emit" /\ ret' = Refusal(seq)
            /\ UNCHANGED lzmaVars
    /\ UNCHANGED <<status, writebuf, outport, op, taken, made, userVars,
                   histVars>>

\* Mutant: the receiver's content replaced instead of extended.
EmitOverwrites ==
    /\ pc = "emit"
    /\ outport' = workbuf
    /\ workbuf' = IF act = "RUN" THEN <<>> ELSE workbuf
    /\ \/ /\ act = "RUN" \/ ret \in {"OK", "STREAM_END"}
          /\ pc' = IF act = "RUN" THEN "run"
                   ELSE IF ret = "STREAM_END" THEN "mark" ELSE "finish"
          /\ UNCHANGED <<op, userVars, accepted, finalFailed>>
       \/ /\ act = "FINISH" /\ ret \notin {"OK", "STREAM_END"}
          /\ EndCall("raised")
    /\ UNCHANGED <<status, writebuf, lzmaVars, act, ret, taken, made, faults>>

\* outport << workbuf succeeds.  In finalizer_close it precedes the look at
\* the status, so the output of a failed call is delivered too.
Emit ==
    /\ pc = "emit"
    /\ outport' = outport \o workbuf
    /\ workbuf' = IF act = "RUN" THEN <<>> ELSE workbuf
    /\ \/ /\ act = "RUN" \/ ret \in {"OK", "STREAM_END"}
          /\ pc' = IF act = "RUN" THEN "run"
                   ELSE IF ret = "STREAM_END" THEN "mark" ELSE "finish"
          /\ UNCHANGED <<op, userVars, accepted, finalFailed>>
       \/ /\ act = "FINISH" /\ ret \notin {"OK", "STREAM_END"}
          /\ EndCall("raised")
    /\ UNCHANGED <<status, writebuf, lzmaVars, act, ret, taken, made, faults>>

\* status[0] = nil, and close (or the finalizer) returns.
Mark ==
    /\ pc = "mark"
    /\ status' = FALSE
    /\ EndCall("ok")
    /\ UNCHANGED <<writebuf, workbuf, outport, lzmaVars, act, ret, taken, made,
                   faults>>

-----------------------------------------------------------------------------
(* Inside lzma_code, with the interpreter lock released.                   *)

Consume ==
    /\ pc = "coding" /\ act = "RUN" /\ taken < Len(writebuf)
    /\ held' = Append(held, writebuf[taken + 1])
    /\ taken' = taken + 1
    /\ UNCHANGED <<rubyVars, seq, op, pc, act, ret, made, userVars, histVars>>

Produce ==
    /\ pc = "coding" /\ held # <<>> /\ Len(made) < BLOCKSIZE
    /\ made' = Append(made, Head(held)) /\ held' = Tail(held)
    /\ UNCHANGED <<rubyVars, seq, op, pc, act, ret, taken, userVars, histVars>>

\* The coder comes back once the input is used up or the output is full, and
\* has finished when it owes nothing.
CoderDone(s) ==
    \/ s = "OK" /\ act = "RUN" /\ taken = Len(writebuf)
    \/ s = "OK" /\ Len(made) = BLOCKSIZE
    \/ s = "STREAM_END" /\ act = "FINISH" /\ held = <<>>

\* Mutants: consumed input that stays in src, and input that is cut off one
\* call too late.
CodeReturnUncut ==
    /\ pc = "coding"
    /\ \E s \in {"OK", "STREAM_END"} : CoderDone(s) /\ ret' = s
    /\ seq' = Left(seq, ret')
    /\ workbuf' = made
    /\ taken' = 0 /\ made' = <<>>
    /\ pc' = "emit"
    /\ UNCHANGED <<status, writebuf, outport, held, op, act, userVars, histVars>>

CodeReturnStaleCount ==
    /\ pc = "coding"
    /\ \E s \in {"OK", "STREAM_END"} : CoderDone(s) /\ ret' = s
    /\ seq' = Left(seq, ret')
    /\ writebuf' = SubSeq(writebuf, taken + 1, Len(writebuf))
    /\ workbuf' = made
    /\ taken' = taken /\ made' = <<>>
    /\ pc' = "emit"
    /\ UNCHANGED <<status, outport, held, op, act, userVars, histVars>>

\* stream_code after lzma_code: the consumed input is cut off src and dest
\* gets the length of the output.
CodeReturn ==
    /\ pc = "coding"
    /\ \E s \in {"OK", "STREAM_END"} : CoderDone(s) /\ ret' = s
    /\ seq' = Left(seq, ret')
    /\ writebuf' = SubSeq(writebuf, taken + 1, Len(writebuf))
    /\ workbuf' = made
    /\ taken' = 0 /\ made' = <<>>
    /\ pc' = "emit"
    /\ UNCHANGED <<status, outport, held, op, act, userVars, histVars>>

\* The same return with a fatal status.  write raises before the output of
\* the call is delivered, finalizer_close afterwards.
CodeFails ==
    /\ pc = "coding"
    /\ Fault
    /\ ret' = "MEM_ERROR" /\ seq' = Left(seq, "MEM_ERROR")
    /\ writebuf' = SubSeq(writebuf, taken + 1, Len(writebuf))
    /\ workbuf' = made
    /\ taken' = 0 /\ made' = <<>>
    /\ IF act = "RUN" THEN EndCall("raised")
       ELSE pc' = "emit" /\ UNCHANGED <<op, userVars, accepted, finalFailed>>
    /\ UNCHANGED <<status, outport, held, act>>

\* lzma_code has run, but an interrupt is pending when the interpreter lock
\* is taken again: the exception leaves stream_code before src is cut and
\* before dest gets its length.
CodeAborted ==
    /\ pc = "coding"
    /\ Fault
    /\ \E s \in {"OK", "STREAM_END"} : CoderDone(s) /\ seq' = Left(seq, s)
    /\ taken' = 0 /\ made' = <<>>
    /\ EndCall("raised")
    /\ UNCHANGED <<rubyVars, held, act, ret>>

-----------------------------------------------------------------------------
(* Other events that raise in the middle of a call.                        *)

\* outport << workbuf raises after the receiver stored part of the chunk.
EmitFails ==
    /\ pc = "emit"
    /\ Fault
    /\ \E j \in 0 .. Len(workbuf) : outport' = outport \o SubSeq(workbuf, 1, j)
    /\ EndCall("raised")
    /\ UNCHANGED <<status, writebuf, workbuf, lzmaVars, act, ret, taken, made>>

\* An asynchronous exception between two steps of the Ruby code.
Interrupted ==
    /\ pc \in {"run", "finish", "mark"}
    /\ Fault
    /\ EndCall("raised")
    /\ UNCHANGED <<rubyVars, lzmaVars, act, ret, taken, made>>

-----------------------------------------------------------------------------
Step ==
    \/ WriteDone \/ DrainDone \/ CodeRun \/ CodeRunRefused \/ CodeFinish
    \/ Emit \/ Mark \/ Consume \/ Produce \/ CodeReturn

Event == CodeFails \/ CodeAborted \/ EmitFails \/ Interrupted

User == (\E k \in 0 .. MaxUnits : Write(k)) \/ Close \/ Drop

Next == Step \/ Event \/ User \/ Finalize

\* A call that was entered keeps running, and the collector (at the latest
\* the exit of the process) runs the finalizer of a dropped encoder.  The
\* program is not obliged to call anything.
Fairness == WF_vars(Step) /\ WF_vars(Finalize)

Spec == Init /\ [][Next]_vars
FairSpec == Spec /\ Fairness

-----------------------------------------------------------------------------
(* Properties.                                                             *)

\* The finished output is at hand but not at the receiver yet.
Undelivered == CASE pc = "coding" -> made
                 [] pc = "emit"   -> workbuf
                 [] OTHER         -> <<>>

\* The data the program has given to write: a write after close is refused.
Offered == IF status THEN accepted + batch ELSE accepted

\* As long as no exception cut a call of the program short, what the
\* receiver holds is an initial part of the xz stream of the data given to
\* write: no loss, no repetition, no reordering across the buffers of write,
\* close and the finalizer, refused calls (write after close, second close)
\* and failing finalizers included.
ReceiverHasPrefix ==
    faults = 0 => IsInitialPart(outport, Frame(Offered))

\* An encoder that is closed, by close or by its finalizer, has delivered
\* the whole xz stream of all data whose write returned normally, unless an
\* exception was raised to the program before.
ClosedIsComplete ==
    ~status /\ faults = 0 => outport = Frame(accepted)

\* Whatever goes wrong, and however often calls are repeated afterwards, the
\* receiver never gets a second header, a second trailer, or anything after
\* a trailer.
OneHeaderOneTrailer == Orderly(outport)

\* The encoder keeps the promises of XzSink to its receiver, step by step:
\* what was delivered is never taken back, closing happens once and only with
\* the whole stream delivered, and after an exception the order is kept.
Sink == INSTANCE XzSink
        WITH sink <- outport, offered <- Offered, open <- status,
             broken <- (faults > 0 \/ finalFailed)
ImplementsSink == Sink!Spec

\* Every call ends: the until and while loops of write, close and the
\* finalizer terminate.
CallsEnd == (op # "none") ~> (op = "none")

\* An encoder dropped without close, after calls that all ended normally,
\* gets its stream finished by the finalizer, unless the finalizer fails.
DroppedIsFinished ==
    (reach = "dropped" /\ faults = 0)
        ~> (outport = Frame(accepted) \/ finalFailed)

\* The documentation of LZMA.encode: the compressed data is in the xz file
\* format.  An encoder that counts as closed has delivered the trailer.
ClosedIsXzFormat ==
    ~status => outport # <<>> /\ outport[Len(outport)] = TAIL
=============================================================================
