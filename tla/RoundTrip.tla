------------------------------ MODULE RoundTrip ------------------------------
(***************************************************************************)
(* LZMA::Encoder and LZMA::Decoder (lib/extlzma.rb) at the two ends of a   *)
(* pipe, in two threads or processes: the receiver of the encoder is the   *)
(* inport of the decoder.  Encoder is the writer; the reader's variables   *)
(* are those of Decoder with an r.  A read of the pipe waits for data, and *)
(* finds the end once the writer has closed the encoder and then the pipe. *)
(*                                                                         *)
(* The exceptions and failures of the two are left to their own modules.   *)
(***************************************************************************)
EXTENDS Encoder

CONSTANTS
    BAD, NoSize,
    MaxSize       \* bound: the largest size given to read

ASSUME RoundTripAssumption ==
    /\ {BAD, NoSize} \cap Nat = {} /\ HEAD # BAD /\ TAIL # BAD
    /\ MaxSize \in Nat

VARIABLES
    rxz, rcat, rtell,
    rstatus, rreadbuf, rwork, rinpos,
    rseq, ridle, rphase, rfed, rdecoded, rheld,
    rpc, ract, rtaken, rmade, rwant, rbuf,
    rresult, rdelivered,
    rgap, rclosed, ragain, rfaults

readerVars == <<rxz, rcat, rtell, rstatus, rreadbuf, rwork, rinpos, rseq,
                ridle, rphase, rfed, rdecoded, rheld, rpc, ract, rtaken, rmade,
                rwant, rbuf, rresult, rdelivered, rgap, rclosed, ragain, rfaults>>
allVars == <<vars, readerVars>>

R == INSTANCE Decoder WITH
    Files <- {}, MaxFaults <- 0,
    file <- outport, xz <- rxz, arrived <- Len(outport), cat <- rcat,
    tell <- rtell,
    status <- rstatus, readbuf <- rreadbuf, work <- rwork, inpos <- rinpos,
    seq <- rseq, idle <- ridle, phase <- rphase, fed <- rfed,
    decoded <- rdecoded, held <- rheld,
    pc <- rpc, act <- ract, taken <- rtaken, made <- rmade, want <- rwant,
    buf <- rbuf, result <- rresult, delivered <- rdelivered,
    gap <- rgap, closed <- rclosed, again <- ragain, faults <- rfaults

\* Decoder#initialize
ReaderInit ==
    /\ rxz = TRUE /\ rcat \in BOOLEAN /\ rtell = FALSE
    /\ rstatus = "ready" /\ rreadbuf = <<>> /\ rwork = <<>> /\ rinpos = 0
    /\ rseq = "run" /\ ridle = FALSE /\ rphase = "head"
    /\ rfed = 0 /\ rdecoded = 0 /\ rheld = <<>>
    /\ rpc = "idle" /\ ract = "RUN" /\ rtaken = 0 /\ rmade = <<>>
    /\ rwant = NoSize /\ rbuf = <<>>
    /\ rresult = "none" /\ rdelivered = <<>>
    /\ rgap = FALSE /\ rclosed = FALSE /\ ragain = FALSE /\ rfaults = 0

Writer == (Step \/ User \/ Finalize) /\ UNCHANGED readerVars

\* The pipe: a read with no data waits unless the other end is closed.
ReaderStep ==
    /\ R!Step
    /\ rpc = "inread" => rinpos' > rinpos \/ ~status
    /\ UNCHANGED vars

ReaderRead(size) == R!Read(size) /\ UNCHANGED vars

RTNext ==
    \/ Writer \/ ReaderStep
    \/ \E size \in 0 .. MaxSize \union {NoSize} : ReaderRead(size)

RTInit == Init /\ ReaderInit

RTSpec == RTInit /\ [][RTNext]_allVars
RTFairSpec == RTSpec /\ WF_allVars(Writer /\ (Step \/ Finalize)) /\ WF_allVars(ReaderStep)

-----------------------------------------------------------------------------
(* Properties.                                                             *)

\* Encoder, pipe and Decoder together are a channel: the reader gets the
\* bytes given to write, each once and in order, however the two sides are
\* interleaved and blocks are filled, and the end of the file only when the
\* writer has ended the stream and everything was read.
C == INSTANCE Channel WITH
    sent <- Offered, open <- (status /\ op \notin {"close", "finalize"}),
    got <- rdelivered, atEnd <- (rresult = "short")
ImplementsChannel == C!Spec

\* A reader that waits for a slow writer never gets an exception: neither the
\* status of a call without progress nor a FINISH that comes too early.
WaitingIsNoError == rresult # "raised"

\* A reader that reads on gets everything once the writer is closed, dropped
\* writers included.
ReaderGetsAll ==
    []<><<\E size \in (1 .. MaxSize) \union {NoSize} : ReaderRead(size)>>_allVars
        => ((~status) ~> Len(rdelivered) = accepted)

\* lib:60, lib:70-71: LZMA.decode returns the decoded data, a String, also of
\* what LZMA.encode makes of an empty one (the sample "empty" of the tests).
\* read without a size returns nil instead of an empty String.
DecodeIsString ==
    rresult = "short" /\ rwant = NoSize => rdelivered # <<>>
=============================================================================
