------------------------------- MODULE Decoder -------------------------------
(***************************************************************************)
(* LZMA::Decoder (lib/extlzma.rb) driving one decompressor through         *)
(* LZMA::Stream#code (ext/stream.c): the loop of read, the loop of fetch,  *)
(* close, and the events that cut a read short.                            *)
(*                                                                         *)
(* Data.  A compressed file is a sequence of tokens: HEAD and TAIL begin   *)
(* and end a stream, BAD is anything a decoder rejects, a number t is a    *)
(* piece of data from which the plain data up to its t-th byte can be      *)
(* decoded.  Compressed data on its way is a sequence of positions in the  *)
(* file, plain data a sequence of byte numbers.                            *)
(*                                                                         *)
(* A decompressor cannot see that a piece is fed to it a second time: it   *)
(* decodes it as the continuation and goes astray.  An .xz file has sizes  *)
(* and an integrity check that it has to meet before its end; an .lzma     *)
(* file and a raw stream have none.                                        *)
(*                                                                         *)
(* The input may be a file that is still being written: only the first     *)
(* `arrived` tokens can be read so far, and a read beyond them sees an end *)
(* of file that more data may follow.                                      *)
(***************************************************************************)
EXTENDS LzmaCode, Naturals, Sequences

CONSTANTS
    HEAD, TAIL, BAD,
    NoSize,       \* the size of read(nil)
    Files,        \* the compressed files that are considered
    BLOCKSIZE,    \* what one call reads or produces (Decoder::BLOCKSIZE)
    MaxSize,      \* bound: the largest size given to read
    MaxFaults     \* bound: reads cut short by an event

ASSUME DecoderAssumption ==
    /\ BLOCKSIZE \in Nat \ {0} /\ MaxSize \in Nat /\ MaxFaults \in Nat
    /\ {HEAD, TAIL, BAD, NoSize} \cap Nat = {}
    /\ HEAD # TAIL /\ HEAD # BAD /\ TAIL # BAD
    /\ Files \subseteq Seq(Nat \union {HEAD, TAIL, BAD})
    /\ \A f \in Files : \A i, j \in 1 .. Len(f) :
           i < j /\ f[i] \in Nat /\ f[j] \in Nat => f[i] <= f[j]

VARIABLES
    \* what is decoded, how
    file,         \* the file behind inport
    xz,           \* it is an .xz file
    cat, tell,    \* flags of the stream: CONCATENATED, TELL_ANY_CHECK
    arrived,      \* number of tokens of the file that exist so far
    \* members of the Struct
    status,       \* "ready", "finished" or "nil"
    readbuf,      \* input not yet taken by the decompressor
    work,         \* workbuf from its read position on
    inpos,        \* how far inport has been read
    \* the lzma_stream
    seq, idle,    \* its sequence and allow_buf_error (module LzmaCode)
    phase,        \* what the decompressor expects or has found
    fed,          \* the last position it was fed
    decoded,      \* the last byte it has decoded
    held,         \* bytes decoded but not produced yet
    \* the call in progress
    pc, act, taken, made,
    want,         \* what is left of size
    buf,          \* the result so far
    \* the program
    result,       \* how the last call ended
    delivered,    \* all bytes that were returned
    \* history, read by the properties only
    gap,          \* bytes were thrown away by an exception or by close
    closed,       \* close was called
    again,        \* a position was fed a second time
    faults

fileVars == <<file, xz, cat, tell>>
rubyVars == <<status, readbuf, work, inpos>>
lzmaVars == <<seq, idle, phase, fed, decoded, held>>
callVars == <<pc, act, taken, made, want, buf>>
userVars == <<result, delivered>>
histVars == <<gap, closed, again, faults>>
vars == <<fileVars, arrived, rubyVars, lzmaVars, callVars, userVars, histVars>>

\* Consecutive bytes or positions.
Span(m, n) == [i \in 1 .. n - m |-> m + i]

TypeOK ==
    /\ file \in Files /\ xz \in BOOLEAN /\ cat \in BOOLEAN /\ tell \in BOOLEAN
    /\ arrived \in 0 .. Len(file) /\ inpos \in 0 .. arrived
    /\ status \in {"ready", "finished", "nil"}
    /\ readbuf \in Seq(1 .. Len(file)) /\ Len(readbuf) <= BLOCKSIZE
    /\ work \in Seq(Nat) /\ made \in Seq(Nat) /\ Len(made) <= BLOCKSIZE
    /\ buf \in Seq(Nat) /\ held \in Seq(Nat) /\ delivered \in Seq(Nat)
    /\ seq \in Phases /\ idle \in BOOLEAN
    /\ phase \in {"head", "body", "checked", "next", "done", "bad", "astray"}
    /\ fed \in 0 .. Len(file) /\ decoded \in Nat
    /\ pc \in {"idle", "loop", "fetch", "inread", "code", "coding"}
    /\ act \in {"RUN", "FINISH"} /\ taken \in 0 .. Len(readbuf)
    /\ want \in Nat \union {NoSize}
    /\ result \in {"none", "full", "short", "raised"}
    /\ gap \in BOOLEAN /\ closed \in BOOLEAN /\ again \in BOOLEAN
    /\ faults \in 0 .. MaxFaults

-----------------------------------------------------------------------------
\* Decoder#initialize: nothing read, :ready, a fresh decompressor.
Init ==
    /\ file \in Files /\ xz \in BOOLEAN /\ cat \in BOOLEAN /\ tell \in BOOLEAN
    /\ arrived \in 0 .. Len(file)
    /\ status = "ready" /\ readbuf = <<>> /\ work = <<>> /\ inpos = 0
    /\ seq = "run" /\ idle = FALSE /\ phase = "head"
    /\ fed = 0 /\ decoded = 0 /\ held = <<>>
    /\ pc = "idle" /\ act = "RUN" /\ taken = 0 /\ made = <<>>
    /\ want = NoSize /\ buf = <<>>
    /\ result = "none" /\ delivered = <<>>
    /\ gap = FALSE /\ closed = FALSE /\ again = FALSE /\ faults = 0

\* read returns what it has collected: all it was asked for, or less.
Return ==
    /\ pc' = "idle" /\ buf' = <<>>
    /\ delivered' = delivered \o buf
    /\ result' = IF want = 0 THEN "full" ELSE "short"
    /\ UNCHANGED <<act, want, gap>>

\* read raises: what it has collected is gone, and so is `more`.
Raise(more) ==
    /\ pc' = "idle" /\ buf' = <<>> /\ result' = "raised"
    /\ gap' = (gap \/ buf # <<>> \/ more # <<>>)
    /\ UNCHANGED <<act, want, delivered>>

\* An event outside the decoder is about to cut a read short.
Fault == faults < MaxFaults /\ faults' = faults + 1

-----------------------------------------------------------------------------
(* The program, and the writer of the file.                                *)

Read(size) ==
    /\ pc = "idle"
    /\ IF size = 0 THEN result' = "full" /\ UNCHANGED <<pc, want>>
       ELSE result' = "none" /\ pc' = "loop" /\ want' = size
    /\ UNCHANGED <<fileVars, arrived, rubyVars, lzmaVars, act, taken, made, buf,
                   delivered, histVars>>

\* close, between two reads or, from another thread, while a read waits for
\* inport.
Close ==
    /\ pc \in {"idle", "inread"}
    /\ status' = "nil" /\ work' = <<>>
    /\ closed' = TRUE /\ gap' = (gap \/ work # <<>>)
    /\ UNCHANGED <<fileVars, arrived, readbuf, inpos, lzmaVars, callVars,
                   userVars, again, faults>>

Grow ==
    /\ arrived < Len(file)
    /\ arrived' \in arrived + 1 .. Len(file)
    /\ UNCHANGED <<fileVars, rubyVars, lzmaVars, callVars, userVars, histVars>>

-----------------------------------------------------------------------------
(* The loop of read.                                                       *)

Eof == status = "nil" /\ work = <<>>

\* The loop ends at eof, when size is used up, or when fetch returns nil.
ReadDone ==
    /\ pc = "loop"
    /\ Eof \/ want = 0 \/ (work = <<>> /\ status # "ready")
    /\ Return
    /\ UNCHANGED <<fileVars, arrived, rubyVars, lzmaVars, taken, made, closed,
                   again, faults>>

\* How much workbuf.read(size) gives.
Portion == IF want = NoSize \/ want > Len(work) THEN Len(work) ELSE want

\* Mutants: a read that empties workbuf, and one that leaves its position.
TakeAll ==
    /\ pc = "loop" /\ want # 0 /\ work # <<>>
    /\ buf' = buf \o SubSeq(work, 1, Portion)
    /\ work' = <<>>
    /\ want' = IF want = NoSize THEN NoSize ELSE want - Portion
    /\ UNCHANGED <<fileVars, arrived, status, readbuf, inpos, lzmaVars, pc, act,
                   taken, made, userVars, histVars>>

TakeAndKeep ==
    /\ pc = "loop" /\ want # 0 /\ work # <<>>
    /\ buf' = buf \o SubSeq(work, 1, Portion)
    /\ work' = IF want = NoSize THEN <<>> ELSE work
    /\ want' = IF want = NoSize THEN NoSize ELSE want - Portion
    /\ UNCHANGED <<fileVars, arrived, status, readbuf, inpos, lzmaVars, pc, act,
                   taken, made, userVars, histVars>>

Take ==
    /\ pc = "loop" /\ want # 0 /\ work # <<>>
    /\ buf' = buf \o SubSeq(work, 1, Portion)
    /\ work' = SubSeq(work, Portion + 1, Len(work))
    /\ want' = IF want = NoSize THEN NoSize ELSE want - Portion
    /\ UNCHANGED <<fileVars, arrived, status, readbuf, inpos, lzmaVars, pc, act,
                   taken, made, userVars, histVars>>

Fetch ==
    /\ pc = "loop" /\ want # 0 /\ work = <<>> /\ status = "ready"
    /\ pc' = "fetch"
    /\ UNCHANGED <<fileVars, arrived, rubyVars, lzmaVars, act, taken, made,
                   want, buf, userVars, histVars>>

-----------------------------------------------------------------------------
(* The loop of fetch.                                                      *)

FetchInput ==
    /\ pc = "fetch"
    /\ pc' = IF readbuf = <<>> THEN "inread" ELSE "code"
    /\ UNCHANGED <<fileVars, arrived, rubyVars, lzmaVars, act, taken, made,
                   want, buf, userVars, histVars>>

\* Mutant: an off-by-one in the size that is asked for.
InportReadMore ==
    /\ pc = "inread"
    /\ \E n \in inpos .. arrived :
          /\ n - inpos <= BLOCKSIZE + 1 /\ (n = inpos => inpos = arrived)
          /\ readbuf' = Span(inpos, n) /\ inpos' = n
    /\ pc' = "code"
    /\ UNCHANGED <<fileVars, arrived, status, work, lzmaVars, act, taken, made,
                   want, buf, userVars, histVars>>

\* inport.read(BLOCKSIZE, readbuf) returns at most BLOCKSIZE, and nothing at
\* what is now the end of the file.
InportRead ==
    /\ pc = "inread"
    /\ \E n \in inpos .. arrived :
          /\ n - inpos <= BLOCKSIZE /\ (n = inpos => inpos = arrived)
          /\ readbuf' = Span(inpos, n) /\ inpos' = n
    /\ pc' = "code"
    /\ UNCHANGED <<fileVars, arrived, status, work, lzmaVars, act, taken, made,
                   want, buf, userVars, histVars>>

\* Mutants: a lack of input taken for the end, or for a reason to try again.
LookEndsEarly(r) ==
    \/ /\ r = "OK"
       /\ pc' = IF made = <<>> THEN "fetch" ELSE "loop"
       /\ UNCHANGED <<status, act, want, buf, userVars, gap>>
    \/ /\ r \in {"STREAM_END", "BUF_ERROR"}
       /\ status' = "finished" /\ pc' = "loop"
       /\ UNCHANGED <<act, want, buf, userVars, gap>>
    \/ /\ r \notin {"OK", "STREAM_END", "BUF_ERROR"}
       /\ Raise(<<>>) /\ UNCHANGED status

LookAgain(r) ==
    \/ /\ r \in {"OK", "BUF_ERROR"}
       /\ pc' = IF made = <<>> THEN "fetch" ELSE "loop"
       /\ UNCHANGED <<status, act, want, buf, userVars, gap>>
    \/ /\ r = "STREAM_END"
       /\ status' = "finished" /\ pc' = "loop"
       /\ UNCHANGED <<act, want, buf, userVars, gap>>
    \/ /\ r \notin {"OK", "STREAM_END", "BUF_ERROR"}
       /\ Raise(<<>>) /\ UNCHANGED status

\* fetch looks at the status: it returns with what was produced, or goes
\* round again; the end of the stream is remembered; anything else is raised.
Look(r) ==
    \/ /\ r = "OK"
       /\ pc' = IF made = <<>> THEN "fetch" ELSE "loop"
       /\ UNCHANGED <<status, act, want, buf, userVars, gap>>
    \/ /\ r = "STREAM_END"
       /\ status' = "finished" /\ pc' = "loop"
       /\ UNCHANGED <<act, want, buf, userVars, gap>>
    \/ /\ r \notin {"OK", "STREAM_END"}
       /\ Raise(<<>>) /\ UNCHANGED status

\* context.code(readbuf, workbuf.string, BLOCKSIZE, 0), or with nil and
\* LZMA::FINISH when there is no input left.
CodeBegin ==
    /\ pc = "code"
    /\ act' = IF readbuf = <<>> THEN "FINISH" ELSE "RUN"
    /\ Admits(seq, act')
    /\ seq' = Entered(seq, act')
    /\ pc' = "coding"
    /\ UNCHANGED <<fileVars, arrived, rubyVars, idle, phase, fed, decoded, held,
                   taken, made, want, buf, userVars, histVars>>

\* The same call when liblzma refuses it.  A stream that has ended says so
\* again; any other refusal is raised.
CodeRefused ==
    /\ pc = "code"
    /\ ~Admits(seq, IF readbuf = <<>> THEN "FINISH" ELSE "RUN")
    /\ Look(Refusal(seq))
    /\ UNCHANGED <<fileVars, arrived, readbuf, work, inpos, lzmaVars, taken,
                   made, closed, again, faults>>

-----------------------------------------------------------------------------
(* Inside lzma_code, with the interpreter lock released.                   *)

\* What the decompressor is at after a stream.
Ended == IF cat THEN "next" ELSE "done"

\* What the decompressor makes of the token at position p when it is due.  A
\* header is one in and out of turn.
Accepted(p) ==
    CASE (phase = "head" \/ (phase = "next" /\ xz)) /\ file[p] = HEAD ->
             IF tell THEN "checked" ELSE "body"
      [] phase = "body" /\ file[p] \in Nat -> "body"
      [] phase = "body" /\ file[p] = TAIL -> Ended
      [] OTHER -> "bad"

\* Inside a stream another token than the one that is due leads it astray, and
\* it may be long before it notices: in an .xz file before the end, in another
\* perhaps never, and what it reads may look like the end.
Lost(p) == phase = "astray" \/ (phase = "body" /\ p # fed + 1)
Parsed(p) ==
    IF ~Lost(p) THEN {Accepted(p)}
    ELSE {"astray", "bad"} \union (IF xz THEN {} ELSE {Ended})

\* The tokens before position p decode to the bytes up to the n-th.
DecodedBefore(p, n) ==
    /\ n = 0 \/ \E i \in 1 .. p - 1 : file[i] = n
    /\ \A i \in 1 .. p - 1 : file[i] \in Nat => file[i] <= n

\* In turn a piece gives the bytes that follow.  Astray it gives nothing or the
\* same bytes again; behind a header that is fed again a stream is decoded anew.
Consume ==
    /\ pc = "coding" /\ taken < Len(readbuf) /\ held = <<>>
    /\ phase \in {"head", "body", "next", "astray"}
    /\ LET p == readbuf[taken + 1]
       IN  /\ phase' \in Parsed(p)
           /\ fed' = p /\ again' = (again \/ p # fed + 1)
           /\ \/ /\ phase' = "body" /\ file[p] \in Nat
                 /\ held' = Span(decoded, file[p]) /\ decoded' = file[p]
              \/ /\ phase' = "astray" /\ file[p] \in Nat
                 /\ \E n \in 0 .. file[p] :
                       DecodedBefore(p, n) /\ held' \in {<<>>, Span(n, file[p])}
                 /\ UNCHANGED decoded
              \/ /\ phase' \in {"body", "checked"} /\ file[p] = HEAD
                 /\ decoded' \in 0 .. decoded /\ DecodedBefore(p, decoded')
                 /\ UNCHANGED held
              \/ phase' \notin {"body", "checked"} /\ UNCHANGED <<held, decoded>>
    /\ taken' = taken + 1
    /\ UNCHANGED <<fileVars, arrived, rubyVars, seq, idle, pc, act, made, want,
                   buf, userVars, gap, closed, faults>>

Produce ==
    /\ pc = "coding" /\ held # <<>> /\ Len(made) < BLOCKSIZE
    /\ made' = Append(made, Head(held)) /\ held' = Tail(held)
    /\ UNCHANGED <<fileVars, arrived, rubyVars, seq, idle, phase, fed, decoded,
                   pc, act, taken, want, buf, userVars, histVars>>

\* The status the decoder comes back with.  Without an end, a check to tell
\* or an error it goes on until the input is used up or the output is full.
Verdict(s) ==
    \/ s = "OK" /\ phase \in {"head", "body", "next", "astray"}
           /\ ~(phase = "next" /\ act = "FINISH")
           /\ held = <<>> /\ taken = Len(readbuf)
    \/ s = "OK" /\ Len(made) = BLOCKSIZE
    \/ s = "STREAM_END" /\ phase = "done"
    \/ s = "STREAM_END" /\ phase = "next" /\ act = "FINISH" /\ held = <<>>
    \/ s = "GET_CHECK" /\ phase = "checked"
    \/ s = "DATA_ERROR" /\ phase = "bad"

Moved == taken > 0 \/ made # <<>>

\* What lzma_code has left in the stream when it returns.
Settle(s) ==
    /\ seq' = Left(seq, s) /\ idle' = IdleAfter(s, Moved)
    /\ phase' = IF s = "GET_CHECK" THEN "body" ELSE phase
    /\ taken' = 0 /\ made' = <<>>
    /\ UNCHANGED <<fed, decoded, held>>

\* stream_code cuts the consumed input off src and gives dest its length.
CodeReturn ==
    /\ pc = "coding"
    /\ \E s \in Statuses :
          Verdict(s) /\ Settle(s) /\ Look(Reported(s, Moved, idle))
    /\ readbuf' = SubSeq(readbuf, taken + 1, Len(readbuf))
    /\ work' = made
    /\ UNCHANGED <<fileVars, arrived, inpos, closed, again, faults>>

-----------------------------------------------------------------------------
(* Events that cut a read short.                                           *)

\* liblzma cannot allocate memory.
CodeFails ==
    /\ pc = "coding"
    /\ Fault /\ Settle("MEM_ERROR") /\ Raise(<<>>)
    /\ readbuf' = SubSeq(readbuf, taken + 1, Len(readbuf))
    /\ work' = made
    /\ UNCHANGED <<fileVars, arrived, status, inpos, closed, again>>

\* An asynchronous exception is pending when the interpreter lock is taken
\* again after lzma_code: src is not cut, and dest keeps its old length (0).
\* The next read feeds what was consumed a second time.
CodeAborted ==
    /\ pc = "coding"
    /\ Fault
    /\ \E s \in Statuses : Verdict(s) /\ Settle(s)
    /\ Raise(made)
    /\ UNCHANGED <<fileVars, arrived, rubyVars, closed, again>>

\* inport.read raises.
InportFails ==
    /\ pc = "inread"
    /\ Fault /\ Raise(<<>>)
    /\ UNCHANGED <<fileVars, arrived, rubyVars, lzmaVars, taken, made, closed,
                   again>>

\* An asynchronous exception between two steps of the Ruby code, possibly
\* after workbuf.read and before buf << tmp.
Interrupted ==
    /\ pc \in {"loop", "fetch", "code"}
    /\ Fault
    /\ \/ Raise(<<>>) /\ UNCHANGED work
       \/ /\ pc = "loop" /\ want # 0 /\ work # <<>>
          /\ Raise(work) /\ work' = SubSeq(work, Portion + 1, Len(work))
    /\ UNCHANGED <<fileVars, arrived, status, readbuf, inpos, lzmaVars, taken,
                   made, closed, again>>

-----------------------------------------------------------------------------
Step ==
    \/ ReadDone \/ Take \/ Fetch \/ FetchInput \/ InportRead
    \/ CodeBegin \/ CodeRefused \/ Consume \/ Produce \/ CodeReturn

Event == CodeFails \/ CodeAborted \/ InportFails \/ Interrupted

User == (\E size \in 0 .. MaxSize \union {NoSize} : Read(size)) \/ Close

Next == Step \/ Event \/ User \/ Grow

\* A read that was entered keeps running; inport answers.
Fairness == WF_vars(Step)

Spec == Init /\ [][Next]_vars
FairSpec == Spec /\ Fairness

-----------------------------------------------------------------------------
(* Properties.                                                             *)

\* Plain bytes between the decompressor and the program, in order.
UnderWay == ((buf \o work) \o (IF pc = "coding" THEN made ELSE <<>>)) \o held

\* As long as no exception and no close threw bytes away and no input was fed
\* twice, what was returned and what is under way are exactly the bytes decoded
\* so far, in order, across the buffers of read, fetch and the decompressor.
BytesInOrder == ~gap /\ ~again => delivered \o UnderWay = Span(0, decoded)

\* Whatever was thrown away, no byte is returned twice or out of order.  Not
\* so, and exempted by name, once input was fed a second time after an
\* exception that came when lzma_code had taken it and src was not cut.
NoByteTwice ==
    ~again =>
        \A i, j \in 1 .. Len(delivered) : i < j => delivered[i] < delivered[j]

\* The first n tokens are a complete file (one stream, or several with
\* CONCATENATED).
Complete(n) ==
    /\ n >= 2 /\ file[1] = HEAD /\ file[n] = TAIL
    /\ \A i \in 1 .. n - 1 :
          /\ file[i] # BAD
          /\ (file[i] = TAIL) = (file[i + 1] = HEAD)
          /\ file[i] = TAIL => cat

\* A read that returns nil, or less than it was asked for, is the end of the
\* file: the input was complete, and every byte of it has been returned unless
\* an exception threw some away or had input fed twice.  A truncated or damaged
\* file, or one that is still being written, never looks like the end, not even
\* to a program that goes on reading after errors.  An .xz file that was fed
\* twice does not either; a file without an integrity check may.
\* With CONCATENATED all input that was there has been looked at, unless the
\* read that found the end was cut short.
EndMeansComplete ==
    result = "short" /\ ~closed /\ (xz \/ ~again) =>
        /\ Complete(fed)
        /\ ~gap /\ ~again =>
               \A i \in 1 .. fed : file[i] \in Nat => file[i] <= Len(delivered)
        /\ cat /\ faults = 0 => fed = inpos

\* Every read ends, on truncated input too: the loops of read and fetch
\* terminate.
ReadsEnd == (pc # "idle") ~> (pc = "idle")
=============================================================================
