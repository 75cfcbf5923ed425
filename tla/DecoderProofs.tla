---------------------------- MODULE DecoderProofs ----------------------------
(***************************************************************************)
(* Proofs about Decoder for every set of files, BLOCKSIZE, size of a read  *)
(* and number of faults.  The inductive invariant IInv says where every    *)
(* byte is, in the file and on its way to the program.                     *)
(***************************************************************************)
EXTENDS Decoder, SequenceTheorems, TLAPS

-----------------------------------------------------------------------------
(* Parts of sequences.                                                     *)

\* The rest of a sequence from an index on, in the form the proofs need it.
LEMMA SubSeqSuffix ==
    ASSUME NEW S, NEW s \in Seq(S), NEW k \in 0 .. Len(s)
    PROVE  /\ SubSeq(s, k + 1, Len(s)) \in Seq(S)
           /\ Len(SubSeq(s, k + 1, Len(s))) = Len(s) - k
           /\ \A i \in 1 .. Len(s) - k :
                 SubSeq(s, k + 1, Len(s))[i] = s[k + i]
<1>1. Len(s) \in Nat /\ k + 1 \in Int /\ Len(s) \in Int
    BY LenProperties
<1>2. \A i \in k + 1 .. Len(s) : s[i] \in S
    BY <1>1, ElementOfSeq
<1>. DEFINE u == SubSeq(s, k + 1, Len(s))
<1>3. /\ u \in Seq(S)
      /\ Len(u) = IF k + 1 <= Len(s) THEN Len(s) - (k + 1) + 1 ELSE 0
      /\ \A i \in 1 .. Len(s) - (k + 1) + 1 : u[i] = s[(k + 1) + i - 1]
    BY <1>1, <1>2, SubSeqProperties
<1>. QED  BY <1>1, <1>3

\* The first elements of a sequence.
LEMMA SubSeqPrefix ==
    ASSUME NEW S, NEW s \in Seq(S), NEW k \in 0 .. Len(s)
    PROVE  /\ SubSeq(s, 1, k) \in Seq(S)
           /\ Len(SubSeq(s, 1, k)) = k
           /\ \A i \in 1 .. k : SubSeq(s, 1, k)[i] = s[i]
<1>1. Len(s) \in Nat /\ k \in Int
    BY LenProperties
<1>2. \A i \in 1 .. k : s[i] \in S
    BY <1>1, ElementOfSeq
<1>. DEFINE u == SubSeq(s, 1, k)
<1>3. /\ u \in Seq(S)
      /\ Len(u) = IF 1 <= k THEN k - 1 + 1 ELSE 0
      /\ \A i \in 1 .. k - 1 + 1 : u[i] = s[1 + i - 1]
    BY <1>1, <1>2, SubSeqProperties
<1>. QED  BY <1>1, <1>3

\* Which members go together, whatever raised before.
Control ==
    /\ pc # "coding" => taken = 0 /\ made = <<>>
    /\ pc \in {"fetch", "inread", "code", "coding"} => work = <<>>
    /\ pc = "idle" => buf = <<>>
    /\ pc = "inread" => readbuf = <<>>
    /\ pc = "coding" => seq \in {"run", "finish"}
    /\ pc = "coding" /\ act = "FINISH" => readbuf = <<>>
    /\ held # <<>> => phase \in {"body", "astray"}
    /\ phase = "astray" => again
    /\ seq = "end" => phase \in {"done", "next"}
    /\ status = "finished" => seq = "end"
    /\ status = "nil" => closed
    /\ result = "short" =>
           pc = "idle" /\ (closed \/ (status = "finished" /\ work = <<>>))

\* What the decompressor has seen, as long as it is not astray and would have
\* noticed if it had been: the first fed tokens of the file begin like a
\* complete file, and the last number among them is decoded.
Parse ==
    phase \notin {"bad", "astray"} /\ (xz \/ ~again) =>
        /\ (fed = 0) = (phase = "head")
        /\ fed >= 1 => file[1] = HEAD
        /\ phase \in {"body", "checked"} => file[fed] # TAIL
        /\ phase \in {"next", "done"} => file[fed] = TAIL
        /\ phase = "next" => cat
        /\ phase = "done" => ~cat
        /\ \A i \in 1 .. fed : file[i] # BAD
        /\ \A i \in 1 .. fed - 1 :
               /\ (file[i] = TAIL) = (file[i + 1] = HEAD)
               /\ file[i] = TAIL => cat
        /\ \A i \in 1 .. fed : file[i] \in Nat => file[i] <= decoded
        /\ decoded = 0 \/ \E i \in 1 .. fed : file[i] = decoded

\* readbuf holds what was read last of the file, and no position is skipped.
\* As long as no event cut a read short none is fed twice either, and nothing
\* is read after the end was found.
Input ==
    /\ \A i \in 1 .. Len(readbuf) : readbuf[i] = inpos - Len(readbuf) + i
    /\ inpos - Len(readbuf) + taken <= fed
    /\ faults = 0 =>
           /\ ~again /\ fed = inpos - Len(readbuf) + taken
           /\ seq = "end" => /\ status # "ready" /\ pc \in {"idle", "loop"}
                             /\ cat => readbuf = <<>>

\* The bytes of s are those behind byte n of the plain data.
Placed(s, n) == \A i \in 1 .. Len(s) : s[i] = n + i

\* As long as nothing was thrown away or fed twice, every byte has its place.
Places ==
    ~gap /\ ~again =>
        /\ Placed(delivered, 0)
        /\ Placed(buf, Len(delivered))
        /\ Placed(work, Len(delivered) + Len(buf))
        /\ Placed(made, Len(delivered) + Len(buf) + Len(work))
        /\ Placed(held, Len(delivered) + Len(buf) + Len(work) + Len(made))
        /\ decoded = Len(delivered) + Len(buf) + Len(work) + Len(made)
                     + Len(held)

Rising(s) == \A i, j \in 1 .. Len(s) : i < j => s[i] < s[j]
Precedes(s, t) == \A i \in 1 .. Len(s), j \in 1 .. Len(t) : s[i] < t[j]
UpTo(s, n) == \A i \in 1 .. Len(s) : s[i] <= n

\* Whatever was thrown away, the bytes that are left are in order as long as
\* nothing was fed twice.
Ordered ==
    ~again =>
        /\ Rising(delivered) /\ Rising(buf) /\ Rising(work) /\ Rising(made)
        /\ Rising(held)
        /\ Precedes(delivered, buf) /\ Precedes(delivered, work)
        /\ Precedes(delivered, made) /\ Precedes(delivered, held)
        /\ Precedes(buf, work) /\ Precedes(buf, made) /\ Precedes(buf, held)
        /\ Precedes(work, made) /\ Precedes(work, held)
        /\ Precedes(made, held)
        /\ UpTo(delivered, decoded) /\ UpTo(buf, decoded)
        /\ UpTo(work, decoded) /\ UpTo(made, decoded) /\ UpTo(held, decoded)

IInv == TypeOK /\ Control /\ Parse /\ Input /\ Places /\ Ordered

-----------------------------------------------------------------------------
(* The data of the model.                                                  *)

\* Consecutive numbers.
LEMMA SpanFacts ==
    ASSUME NEW m \in Nat, NEW n \in Nat, m <= n
    PROVE  /\ Span(m, n) \in Seq(m + 1 .. n) /\ Len(Span(m, n)) = n - m
           /\ \A i \in 1 .. n - m : Span(m, n)[i] = m + i
<1>1. n - m \in Nat /\ \A i \in 1 .. n - m : m + i \in m + 1 .. n
    OBVIOUS
<1>2. Span(m, n) \in Seq(m + 1 .. n)
    BY <1>1, IsASeq DEF Span
<1>. QED  BY <1>1, <1>2 DEF Span

\* Bytes have numbers.
LEMMA SpanSeq ==
    ASSUME NEW m \in Nat, NEW n \in Nat
    PROVE  Span(m, n) \in Seq(Nat)
<1>1. CASE m <= n
    <2>1. n - m \in Nat /\ \A i \in 1 .. n - m : m + i \in Nat
        BY <1>1
    <2>. QED  BY <2>1, IsASeq DEF Span
<1>2. CASE ~(m <= n)
    <2>1. 1 .. n - m = 1 .. 0 /\ \A i \in 1 .. 0 : m + i \in Nat
        BY <1>2
    <2>2. [i \in 1 .. 0 |-> m + i] \in Seq(Nat)
        BY <2>1, IsASeq
    <2>. QED  BY <2>1, <2>2 DEF Span
<1>. QED  BY <1>1, <1>2

\* They are positions in a file that is long enough.
LEMMA SpanWithin ==
    ASSUME NEW m \in Nat, NEW n \in Nat, NEW k \in Nat, m <= n, n <= k
    PROVE  Span(m, n) \in Seq(1 .. k)
<1>1. n - m \in Nat /\ \A i \in 1 .. n - m : m + i \in 1 .. k
    OBVIOUS
<1>. QED  BY <1>1, IsASeq DEF Span

\* What is left of readbuf when the consumed part is cut off.
LEMMA ReadbufCut ==
    ASSUME TypeOK
    PROVE  /\ SubSeq(readbuf, taken + 1, Len(readbuf)) \in Seq(1 .. Len(file))
           /\ Len(SubSeq(readbuf, taken + 1, Len(readbuf))) = Len(readbuf) - taken
           /\ Len(SubSeq(readbuf, taken + 1, Len(readbuf))) <= BLOCKSIZE
           /\ \A i \in 1 .. Len(readbuf) - taken :
                 SubSeq(readbuf, taken + 1, Len(readbuf))[i] = readbuf[taken + i]
<1>1. /\ readbuf \in Seq(1 .. Len(file)) /\ taken \in 0 .. Len(readbuf)
      /\ Len(readbuf) \in Nat /\ Len(readbuf) <= BLOCKSIZE
    BY LenProperties DEF TypeOK
<1>2. Len(readbuf) - taken <= BLOCKSIZE
    BY <1>1, DecoderAssumption
<1>. QED  BY <1>1, <1>2, SubSeqSuffix

\* workbuf is read from the front.
LEMMA WorkSplit ==
    ASSUME TypeOK
    PROVE  /\ Portion \in 0 .. Len(work)
           /\ SubSeq(work, 1, Portion) \in Seq(Nat)
           /\ Len(SubSeq(work, 1, Portion)) = Portion
           /\ \A i \in 1 .. Portion : SubSeq(work, 1, Portion)[i] = work[i]
           /\ SubSeq(work, Portion + 1, Len(work)) \in Seq(Nat)
           /\ Len(SubSeq(work, Portion + 1, Len(work))) = Len(work) - Portion
           /\ \A i \in 1 .. Len(work) - Portion :
                 SubSeq(work, Portion + 1, Len(work))[i] = work[Portion + i]
<1>1. Portion \in 0 .. Len(work) /\ work \in Seq(Nat)
    BY LenProperties, DecoderAssumption DEF Portion, TypeOK
<1>2. /\ SubSeq(work, 1, Portion) \in Seq(Nat)
      /\ Len(SubSeq(work, 1, Portion)) = Portion
      /\ \A i \in 1 .. Portion : SubSeq(work, 1, Portion)[i] = work[i]
    BY <1>1, SubSeqPrefix
<1>3. /\ SubSeq(work, Portion + 1, Len(work)) \in Seq(Nat)
      /\ Len(SubSeq(work, Portion + 1, Len(work))) = Len(work) - Portion
      /\ \A i \in 1 .. Len(work) - Portion :
            SubSeq(work, Portion + 1, Len(work))[i] = work[Portion + i]
    BY <1>1, SubSeqSuffix
<1>. QED  BY <1>1, <1>2, <1>3

\* The next position is at most one behind the last that was fed.
LEMMA NextPosition ==
    ASSUME TypeOK, Input, taken < Len(readbuf)
    PROVE  /\ readbuf[taken + 1] \in 1 .. Len(file)
           /\ readbuf[taken + 1] <= fed + 1
           /\ faults = 0 => readbuf[taken + 1] = fed + 1
<1>1. /\ Len(readbuf) \in Nat /\ taken \in Nat /\ inpos \in Nat /\ fed \in Nat
      /\ taken + 1 \in 1 .. Len(readbuf)
    BY LenProperties DEF TypeOK
<1>2. readbuf[taken + 1] \in 1 .. Len(file)
    BY <1>1, ElementOfSeq DEF TypeOK
<1>3. readbuf[taken + 1] = inpos - Len(readbuf) + (taken + 1)
    BY <1>1 DEF Input
<1>4. inpos - Len(readbuf) + taken <= fed
    BY DEF Input
<1>5. faults = 0 => fed = inpos - Len(readbuf) + taken
    BY DEF Input
<1>. QED  BY <1>1, <1>2, <1>3, <1>4, <1>5

\* A decompressor takes one token.  In turn it accepts the one that is due and
\* only if the stream may go on with it; from a number it decodes what lies
\* between it and the number before.  Out of turn it starts a stream anew or
\* goes astray.
LEMMA ConsumeFacts ==
    ASSUME TypeOK, Parse, Input, Control, Consume
    PROVE  LET p == readbuf[taken + 1]
           IN  /\ p \in 1 .. Len(file) /\ p <= fed + 1 /\ fed' = p
               /\ again' = (again \/ p # fed + 1) /\ held = <<>>
               /\ faults = 0 => p = fed + 1
               /\ \/ /\ phase = "body" /\ phase' = "body" /\ p = fed + 1
                     /\ file[p] \in Nat
                     /\ xz \/ ~again => decoded <= file[p]
                     /\ held' = Span(decoded, file[p]) /\ decoded' = file[p]
                  \/ /\ phase' \in {"checked", "body"}
                     /\ phase \in {"head", "next"} /\ file[p] = HEAD
                     /\ decoded' \in 0 .. decoded /\ DecodedBefore(p, decoded')
                     /\ UNCHANGED held
                  \/ /\ phase' = Ended /\ p = fed + 1
                     /\ phase = "body" /\ file[p] = TAIL
                     /\ UNCHANGED <<held, decoded>>
                  \/ /\ phase' = Ended /\ again' /\ ~xz
                     /\ UNCHANGED <<held, decoded>>
                  \/ /\ phase' = "astray" /\ again' /\ UNCHANGED decoded
                     /\ \/ UNCHANGED held
                        \/ /\ file[p] \in Nat
                           /\ \E n \in 0 .. file[p] :
                                 held' \in {<<>>, Span(n, file[p])}
                  \/ phase' = "bad" /\ UNCHANGED <<held, decoded>>
<1>. DEFINE p == readbuf[taken + 1]
<1>. USE DecoderAssumption
<1>1. /\ p \in 1 .. Len(file) /\ p <= fed + 1 /\ fed' = p /\ held = <<>>
      /\ again' = (again \/ p # fed + 1) /\ (faults = 0 => p = fed + 1)
      /\ phase' \in Parsed(p)
    BY NextPosition DEF Consume
<1>2. \/ phase' = "body" /\ file[p] \in Nat
            /\ held' = Span(decoded, file[p]) /\ decoded' = file[p]
      \/ /\ phase' = "astray" /\ file[p] \in Nat
         /\ \E n \in 0 .. file[p] : held' \in {<<>>, Span(n, file[p])}
         /\ UNCHANGED decoded
      \/ /\ phase' \in {"body", "checked"} /\ file[p] = HEAD
         /\ decoded' \in 0 .. decoded /\ DecodedBefore(p, decoded')
         /\ UNCHANGED held
      \/ phase' \notin {"body", "checked"} /\ UNCHANGED <<held, decoded>>
    BY DEF Consume
<1>3. phase = "astray" => again
    BY DEF Control
<1>4. HEAD \notin Nat /\ TAIL \notin Nat /\ HEAD # TAIL
    OBVIOUS
<1>5. Ended \notin {"body", "checked", "astray", "bad"}
    BY DEF Ended
<1>. HIDE DEF p
<1>6. CASE Lost(p)
    <2>1. /\ phase' \in {"astray", "bad", Ended}
          /\ phase' = Ended => ~xz
          /\ again'
        BY <1>1, <1>3, <1>5, <1>6 DEF Parsed, Lost
    <2>. QED  BY <1>1, <1>2, <1>5, <2>1 DEF p
<1>7. CASE /\ ~Lost(p)
           /\ (phase = "head" \/ (phase = "next" /\ xz)) /\ file[p] = HEAD
    <2>1. phase' \in {"body", "checked"}
        BY <1>1, <1>7 DEF Parsed, Accepted
    <2>. QED  BY <1>1, <1>2, <1>4, <1>7, <2>1 DEF p
<1>8. CASE phase = "body" /\ p = fed + 1 /\ file[p] \in Nat
    <2>1. phase' = "body"
        BY <1>1, <1>8 DEF Parsed, Accepted, Lost
    <2>2. held' = Span(decoded, file[p]) /\ decoded' = file[p]
        BY <1>2, <1>4, <1>8, <2>1
    <2>3. ASSUME xz \/ ~again
          PROVE  decoded <= file[p]
        <3>1. CASE decoded = 0
            BY <1>8, <3>1
        <3>2. CASE \E i \in 1 .. fed : file[i] = decoded
            <4>1. PICK i \in 1 .. fed : file[i] = decoded
                BY <3>2
            <4>2. /\ i \in 1 .. Len(file) /\ i < p /\ file[i] \in Nat
                  /\ file \in Files
                BY <1>1, <1>8, <4>1 DEF TypeOK
            <4>. QED  BY <1>1, <1>8, <4>1, <4>2
        <3>. QED  BY <1>8, <2>3, <3>1, <3>2 DEF Parse
    <2>. QED  BY <1>1, <1>8, <2>1, <2>2, <2>3 DEF p
<1>9. CASE phase = "body" /\ p = fed + 1 /\ file[p] = TAIL
    <2>1. phase' = Ended
        BY <1>1, <1>4, <1>9 DEF Parsed, Accepted, Lost
    <2>. QED  BY <1>1, <1>2, <1>4, <1>5, <1>9, <2>1 DEF p
<1>10. CASE phase' = "bad"
    BY <1>1, <1>2, <1>10 DEF p
<1>11. \/ Lost(p)
       \/ /\ ~Lost(p)
          /\ (phase = "head" \/ (phase = "next" /\ xz)) /\ file[p] = HEAD
       \/ phase = "body" /\ p = fed + 1 /\ file[p] \in Nat
       \/ phase = "body" /\ p = fed + 1 /\ file[p] = TAIL
       \/ phase' = "bad"
    BY <1>1 DEF Parsed, Accepted, Lost
<1>. QED  BY <1>6, <1>7, <1>8, <1>9, <1>10, <1>11 DEF p

\* Behind a header in turn the decoded bytes are those up to it.
LEMMA HeadInTurn ==
    ASSUME TypeOK, Parse, xz \/ ~again, phase \in {"head", "next"},
           NEW n \in 0 .. decoded, DecodedBefore(fed + 1, n)
    PROVE  n = decoded
<1>1. fed \in Nat /\ decoded \in Nat /\ (fed + 1) - 1 = fed
    BY DEF TypeOK
<1>2. \A i \in 1 .. fed : file[i] \in Nat => file[i] <= n
    BY <1>1 DEF DecodedBefore
<1>3. decoded = 0 \/ \E i \in 1 .. fed : file[i] = decoded
    BY DEF Parse
<1>4. decoded <= n
    BY <1>1, <1>2, <1>3
<1>. QED  BY <1>1, <1>4

-----------------------------------------------------------------------------
(* Bytes that move from one buffer to the end of the one before it.        *)

\* s and t become s2 and t2: the front of t is now behind s.
Shifted(s, t, s2, t2) ==
    /\ Len(s2) >= Len(s) /\ Len(s2) + Len(t2) = Len(s) + Len(t)
    /\ \A i \in 1 .. Len(s) : s2[i] = s[i]
    /\ \A i \in 1 .. Len(s2) - Len(s) : s2[Len(s) + i] = t[i]
    /\ \A i \in 1 .. Len(t2) : t2[i] = t[(Len(s2) - Len(s)) + i]

\* Such a move leaves every byte in its place.
LEMMA ShiftPlaces ==
    ASSUME NEW s \in Seq(Nat), NEW t \in Seq(Nat), NEW s2 \in Seq(Nat),
           NEW t2 \in Seq(Nat), NEW n \in Nat, Shifted(s, t, s2, t2),
           Placed(s, n), Placed(t, n + Len(s))
    PROVE  Placed(s2, n) /\ Placed(t2, n + Len(s2))
<1>1. Len(s) \in Nat /\ Len(t) \in Nat /\ Len(s2) \in Nat /\ Len(t2) \in Nat
    BY LenProperties
<1>2. ASSUME NEW i \in 1 .. Len(s2)
      PROVE  s2[i] = n + i
    <2>1. CASE i \in 1 .. Len(s)
        BY <2>1 DEF Shifted, Placed
    <2>2. CASE i \notin 1 .. Len(s)
        <3>. DEFINE j == i - Len(s)
        <3>1. j \in 1 .. Len(s2) - Len(s) /\ j \in 1 .. Len(t) /\ i = Len(s) + j
            BY <1>1, <2>2 DEF Shifted
        <3>2. s2[i] = t[j] /\ t[j] = n + Len(s) + j
            BY <3>1 DEF Shifted, Placed
        <3>. QED  BY <1>1, <3>1, <3>2
    <2>. QED  BY <2>1, <2>2
<1>3. ASSUME NEW i \in 1 .. Len(t2)
      PROVE  t2[i] = n + Len(s2) + i
    <2>. DEFINE j == (Len(s2) - Len(s)) + i
    <2>1. j \in 1 .. Len(t) /\ Len(s) + j = Len(s2) + i
        BY <1>1 DEF Shifted
    <2>2. t2[i] = t[j] /\ t[j] = n + Len(s) + j
        BY <2>1 DEF Shifted, Placed
    <2>. QED  BY <1>1, <2>1, <2>2
<1>. QED  BY <1>2, <1>3 DEF Placed

\* Every byte of the new buffers is one of the old ones, and two bytes that
\* were in the same order before still are.
LEMMA ShiftOrder ==
    ASSUME NEW s \in Seq(Nat), NEW t \in Seq(Nat), NEW s2 \in Seq(Nat),
           NEW t2 \in Seq(Nat), Shifted(s, t, s2, t2),
           Rising(s), Rising(t), Precedes(s, t)
    PROVE  /\ Rising(s2) /\ Rising(t2) /\ Precedes(s2, t2)
           /\ \A u : /\ Precedes(u, s) /\ Precedes(u, t) =>
                            Precedes(u, s2) /\ Precedes(u, t2)
                     /\ Precedes(s, u) /\ Precedes(t, u) =>
                            Precedes(s2, u) /\ Precedes(t2, u)
           /\ \A n : UpTo(s, n) /\ UpTo(t, n) => UpTo(s2, n) /\ UpTo(t2, n)
<1>1. Len(s) \in Nat /\ Len(t) \in Nat /\ Len(s2) \in Nat /\ Len(t2) \in Nat
    BY LenProperties
<1>. DEFINE k == Len(s2) - Len(s)
<1>2. k \in 0 .. Len(t) /\ Len(t2) = Len(t) - k /\ Len(s2) = Len(s) + k
    BY <1>1 DEF Shifted
<1>3. \A i \in 1 .. Len(s2) :
          \/ i \in 1 .. Len(s) /\ s2[i] = s[i]
          \/ i - Len(s) \in 1 .. k /\ s2[i] = t[i - Len(s)]
    <2>1. ASSUME NEW i \in 1 .. Len(s2), i \notin 1 .. Len(s)
          PROVE  i - Len(s) \in 1 .. k /\ s2[i] = t[i - Len(s)]
        <3>1. i - Len(s) \in 1 .. k /\ Len(s) + (i - Len(s)) = i
            BY <1>1, <1>2, <2>1
        <3>. QED  BY <3>1 DEF Shifted
    <2>. QED  BY <2>1 DEF Shifted
<1>4. \A i \in 1 .. Len(t2) : k + i \in k + 1 .. Len(t) /\ t2[i] = t[k + i]
    BY <1>1, <1>2 DEF Shifted
<1>. HIDE DEF k
<1>5. \A i \in 1 .. k : i \in 1 .. Len(t)
    BY <1>1, <1>2
<1>6. \A i \in k + 1 .. Len(t) : i \in 1 .. Len(t) /\ \A j \in 1 .. k : j < i
    BY <1>1, <1>2
<1>7. Rising(s2)
    <2>. SUFFICES ASSUME NEW i \in 1 .. Len(s2), NEW j \in 1 .. Len(s2), i < j
                  PROVE  s2[i] < s2[j]
        BY DEF Rising
    <2>1. CASE j \in 1 .. Len(s) /\ s2[j] = s[j]
        <3>1. i \in 1 .. Len(s) /\ s2[i] = s[i]
            BY <1>1, <1>3, <2>1
        <3>. QED  BY <2>1, <3>1 DEF Rising
    <2>2. CASE j - Len(s) \in 1 .. k /\ s2[j] = t[j - Len(s)]
        <3>1. CASE i \in 1 .. Len(s) /\ s2[i] = s[i]
            BY <1>5, <2>2, <3>1 DEF Precedes
        <3>2. CASE i - Len(s) \in 1 .. k /\ s2[i] = t[i - Len(s)]
            <4>1. i - Len(s) < j - Len(s)
                BY <1>1
            <4>. QED  BY <1>5, <2>2, <3>2, <4>1 DEF Rising
        <3>. QED  BY <1>3, <3>1, <3>2
    <2>. QED  BY <1>3, <2>1, <2>2
<1>8. Rising(t2)
    <2>. SUFFICES ASSUME NEW i \in 1 .. Len(t2), NEW j \in 1 .. Len(t2), i < j
                  PROVE  t2[i] < t2[j]
        BY DEF Rising
    <2>1. k + i < k + j
        BY <1>2
    <2>. QED  BY <1>4, <1>6, <2>1 DEF Rising
<1>9. Precedes(s2, t2)
    <2>. SUFFICES ASSUME NEW i \in 1 .. Len(s2), NEW j \in 1 .. Len(t2)
                  PROVE  s2[i] < t2[j]
        BY DEF Precedes
    <2>1. k + j \in k + 1 .. Len(t) /\ k + j \in 1 .. Len(t) /\ t2[j] = t[k + j]
        BY <1>4, <1>6
    <2>2. CASE i \in 1 .. Len(s) /\ s2[i] = s[i]
        BY <2>1, <2>2 DEF Precedes
    <2>3. CASE i - Len(s) \in 1 .. k /\ s2[i] = t[i - Len(s)]
        <3>1. i - Len(s) < k + j
            BY <1>6, <2>1, <2>3
        <3>. QED  BY <1>5, <2>1, <2>3, <3>1 DEF Rising
    <2>. QED  BY <1>3, <2>2, <2>3
<1>10. ASSUME NEW u, Precedes(u, s), Precedes(u, t)
       PROVE  Precedes(u, s2) /\ Precedes(u, t2)
    BY <1>3, <1>4, <1>5, <1>6, <1>10 DEF Precedes
<1>11. ASSUME NEW u, Precedes(s, u), Precedes(t, u)
       PROVE  Precedes(s2, u) /\ Precedes(t2, u)
    BY <1>3, <1>4, <1>5, <1>6, <1>11 DEF Precedes
<1>12. ASSUME NEW n, UpTo(s, n), UpTo(t, n)
       PROVE  UpTo(s2, n) /\ UpTo(t2, n)
    BY <1>3, <1>4, <1>5, <1>6, <1>12 DEF UpTo
<1>. QED  BY <1>7, <1>8, <1>9, <1>10, <1>11, <1>12

\* ReadDone hands the whole result out.
LEMMA ReturnShifts ==
    ASSUME TypeOK, Return
    PROVE  /\ Shifted(delivered, buf, delivered', buf') /\ buf' = <<>>
           /\ Len(delivered') = Len(delivered) + Len(buf)
<1>1. /\ delivered' = delivered \o buf /\ buf' = <<>>
      /\ delivered \in Seq(Nat) /\ buf \in Seq(Nat)
    BY DEF Return, TypeOK
<1>2. Len(delivered) \in Nat /\ Len(buf) \in Nat /\ Len(buf') = 0
    BY <1>1, LenProperties, EmptySeq
<1>3. /\ Len(delivered') = Len(delivered) + Len(buf)
      /\ \A i \in 1 .. Len(delivered) + Len(buf) :
            delivered'[i] = IF i <= Len(delivered) THEN delivered[i]
                            ELSE buf[i - Len(delivered)]
    BY <1>1, ConcatProperties
<1>4. \A i \in 1 .. Len(delivered) : delivered'[i] = delivered[i]
    BY <1>2, <1>3
<1>5. ASSUME NEW i \in 1 .. Len(buf)
      PROVE  delivered'[Len(delivered) + i] = buf[i]
    <2>1. /\ Len(delivered) + i \in 1 .. Len(delivered) + Len(buf)
          /\ ~(Len(delivered) + i <= Len(delivered))
          /\ (Len(delivered) + i) - Len(delivered) = i
        BY <1>2
    <2>. QED  BY <1>3, <2>1
<1>. QED  BY <1>1, <1>2, <1>3, <1>4, <1>5 DEF Shifted

\* Take moves the front of workbuf to the end of the result.
LEMMA TakeShifts ==
    ASSUME TypeOK, Take
    PROVE  /\ Shifted(buf, work, buf', work')
           /\ Len(buf') + Len(work') = Len(buf) + Len(work)
<1>. DEFINE front == SubSeq(work, 1, Portion)
<1>1. /\ Portion \in 0 .. Len(work) /\ front \in Seq(Nat)
      /\ Len(front) = Portion
      /\ \A i \in 1 .. Portion : front[i] = work[i]
    BY WorkSplit
<1>2. buf' = buf \o front /\ work' = SubSeq(work, Portion + 1, Len(work))
    BY DEF Take
<1>3. /\ Len(work') = Len(work) - Portion
      /\ \A i \in 1 .. Len(work') : work'[i] = work[Portion + i]
    BY <1>2, WorkSplit
<1>. HIDE DEF front
<1>4. buf \in Seq(Nat) /\ Len(buf) \in Nat /\ Len(work) \in Nat
    BY LenProperties DEF TypeOK
<1>5. /\ Len(buf') = Len(buf) + Portion
      /\ \A i \in 1 .. Len(buf) + Portion :
            buf'[i] = IF i <= Len(buf) THEN buf[i] ELSE front[i - Len(buf)]
    <2>1. /\ Len(buf \o front) = Len(buf) + Len(front)
          /\ \A i \in 1 .. Len(buf) + Len(front) :
                (buf \o front)[i] = IF i <= Len(buf) THEN buf[i]
                                    ELSE front[i - Len(buf)]
        BY <1>1, <1>4, ConcatProperties
    <2>. QED  BY <1>1, <1>2, <2>1
<1>6. \A i \in 1 .. Len(buf) : buf'[i] = buf[i]
    BY <1>1, <1>4, <1>5
<1>7. ASSUME NEW i \in 1 .. Portion
      PROVE  buf'[Len(buf) + i] = work[i]
    <2>1. /\ Len(buf) + i \in 1 .. Len(buf) + Portion
          /\ ~(Len(buf) + i <= Len(buf)) /\ (Len(buf) + i) - Len(buf) = i
        BY <1>1, <1>4
    <2>. QED  BY <1>1, <1>5, <2>1
<1>8. Len(buf') - Len(buf) = Portion
    BY <1>1, <1>4, <1>5
<1>9. /\ Len(buf') >= Len(buf)
      /\ Len(buf') + Len(work') = Len(buf) + Len(work)
    BY <1>1, <1>3, <1>4, <1>5
<1>. QED  BY <1>3, <1>6, <1>7, <1>8, <1>9 DEF Shifted

\* Produce moves the first byte that is held to the end of the output.
LEMMA ProduceShifts ==
    ASSUME TypeOK, Produce
    PROVE  /\ Shifted(made, held, made', held')
           /\ Len(made') + Len(held') = Len(made) + Len(held)
<1>1. /\ made' = Append(made, Head(held)) /\ held' = Tail(held) /\ held # <<>>
      /\ made \in Seq(Nat) /\ held \in Seq(Nat)
    BY DEF Produce, TypeOK
<1>2. /\ Head(held) = held[1] /\ Head(held) \in Nat
      /\ Len(Tail(held)) = Len(held) - 1
      /\ \A i \in 1 .. Len(Tail(held)) : Tail(held)[i] = held[i + 1]
    BY <1>1, HeadTailProperties
<1>3. Len(held) \in Nat /\ Len(made) \in Nat
    BY <1>1, LenProperties
<1>4. /\ Len(made') = Len(made) + 1
      /\ \A i \in 1 .. Len(made) : made'[i] = made[i]
      /\ made'[Len(made) + 1] = held[1]
    BY <1>1, <1>2, AppendProperties
<1>5. Len(made') - Len(made) = 1 /\ \A i \in 1 .. 1 : i = 1
    BY <1>3, <1>4
<1>6. \A i \in 1 .. Len(held') : held'[i] = held[1 + i]
    BY <1>1, <1>2, <1>3
<1>. QED  BY <1>1, <1>2, <1>3, <1>4, <1>5, <1>6 DEF Shifted

\* A new number extends what is decoded.
LEMMA HeldFacts ==
    ASSUME TypeOK, Parse, Input, Control, Consume, ~again'
    PROVE  /\ ~again /\ held = <<>> /\ decoded' \in Nat /\ decoded <= decoded'
           /\ Len(held') = decoded' - decoded /\ Placed(held', decoded)
<1>1. held = <<>> /\ Len(<<>>) = 0 /\ decoded \in Nat
    BY EmptySeq DEF Consume, TypeOK
<1>2. ~again /\ readbuf[taken + 1] = fed + 1
    BY DEF Consume
<1>3. \/ UNCHANGED <<held, decoded>>
      \/ /\ decoded' \in Nat /\ decoded <= decoded'
         /\ held' = Span(decoded, decoded')
    BY <1>2, ConsumeFacts, HeadInTurn
<1>4. CASE UNCHANGED <<held, decoded>>
    BY <1>1, <1>2, <1>4 DEF Placed
<1>5. CASE /\ decoded' \in Nat /\ decoded <= decoded'
           /\ held' = Span(decoded, decoded')
    BY <1>1, <1>2, <1>5, SpanFacts DEF Placed
<1>. QED  BY <1>3, <1>4, <1>5

\* The buffers, and the empty one.
LEMMA Lengths ==
    ASSUME TypeOK
    PROVE  /\ delivered \in Seq(Nat) /\ buf \in Seq(Nat) /\ work \in Seq(Nat)
           /\ made \in Seq(Nat) /\ held \in Seq(Nat) /\ decoded \in Nat
           /\ Len(delivered) \in Nat /\ Len(buf) \in Nat /\ Len(work) \in Nat
           /\ Len(made) \in Nat /\ Len(held) \in Nat
BY LenProperties DEF TypeOK

\* The bytes from m + 1 to n are in order, and behind those up to m.
LEMMA PlacedOrder ==
    ASSUME NEW s, NEW m \in Nat, NEW n \in Nat, m <= n,
           Len(s) = n - m, Placed(s, m)
    PROVE  /\ Rising(s) /\ UpTo(s, n)
           /\ \A t \in Seq(Nat) : UpTo(t, m) => Precedes(t, s) /\ UpTo(t, n)
<1>1. \A i \in 1 .. n - m : s[i] = m + i
    BY DEF Placed
<1>2. Rising(s)
    BY <1>1 DEF Rising
<1>3. UpTo(s, n)
    BY <1>1 DEF UpTo
<1>4. ASSUME NEW t \in Seq(Nat), UpTo(t, m)
      PROVE  Precedes(t, s) /\ UpTo(t, n)
    <2>1. \A i \in 1 .. Len(t) : t[i] \in Nat /\ t[i] <= m
        BY <1>4, ElementOfSeq DEF UpTo
    <2>2. \A j \in 1 .. n - m : m < m + j
        OBVIOUS
    <2>. QED  BY <1>1, <2>1, <2>2 DEF Precedes, UpTo
<1>. QED  BY <1>2, <1>3, <1>4

\* An empty buffer meets every condition.
LEMMA Nothing ==
    /\ Len(<<>>) = 0 /\ Rising(<<>>)
    /\ \A n : Placed(<<>>, n) /\ UpTo(<<>>, n)
    /\ \A s : Precedes(<<>>, s) /\ Precedes(s, <<>>)
BY EmptySeq DEF Placed, UpTo, Rising, Precedes

-----------------------------------------------------------------------------
\* Every step keeps the types.
LEMMA TypeStep ==
    TypeOK /\ Control /\ Parse /\ Input /\ [Next]_vars => TypeOK'
<1>. SUFFICES ASSUME TypeOK, Control, Parse, Input, [Next]_vars
              PROVE  TypeOK'
    OBVIOUS
<1>. USE DecoderAssumption DEF fileVars, rubyVars, lzmaVars, callVars,
                               userVars, histVars
<1>1. CASE ReadDone
    BY <1>1 DEF TypeOK, ReadDone, Return
<1>2. CASE Take
    <2>1. buf' \in Seq(Nat) /\ work' \in Seq(Nat)
        BY <1>2, WorkSplit, ConcatProperties DEF Take, TypeOK
    <2>2. want' \in Nat \union {NoSize}
        BY <1>2, WorkSplit, LenProperties DEF Take, Portion, TypeOK
    <2>3. UNCHANGED <<fileVars, arrived, status, readbuf, inpos, lzmaVars, pc,
                      act, taken, made, userVars, histVars>>
        BY <1>2 DEF Take
    <2>. QED  BY <2>1, <2>2, <2>3 DEF TypeOK
<1>3. CASE Fetch
    BY <1>3 DEF TypeOK, Fetch
<1>4. CASE FetchInput
    BY <1>4 DEF TypeOK, FetchInput
<1>5. CASE InportRead
    <2>1. PICK n \in inpos .. arrived : /\ n - inpos <= BLOCKSIZE
                                      /\ readbuf' = Span(inpos, n) /\ inpos' = n
        BY <1>5 DEF InportRead
    <2>2. /\ inpos \in Nat /\ n \in Nat /\ inpos <= n /\ n <= Len(file)
          /\ Len(file) \in Nat
        BY LenProperties DEF TypeOK
    <2>3. Len(Span(inpos, n)) = n - inpos
        BY <2>2, SpanFacts
    <2>5. readbuf' \in Seq(1 .. Len(file)) /\ Len(readbuf') <= BLOCKSIZE
        BY <2>1, <2>2, <2>3, SpanWithin
    <2>6. taken = 0 /\ UNCHANGED taken /\ 0 \in 0 .. Len(readbuf')
        BY <1>5, <2>5, LenProperties DEF InportRead, Control
    <2>7. inpos' \in 0 .. arrived /\ pc' = "code"
        BY <1>5, <2>1, <2>2 DEF InportRead, TypeOK
    <2>8. UNCHANGED <<fileVars, arrived, status, work, lzmaVars, act, taken,
                      made, want, buf, userVars, histVars>>
        BY <1>5 DEF InportRead
    <2>. QED  BY <2>5, <2>6, <2>7, <2>8 DEF TypeOK
<1>6. CASE CodeBegin
    BY <1>6 DEF TypeOK, Phases, CodeBegin, Entered
<1>7. CASE CodeRefused
    <2>1. gap' \in BOOLEAN
        BY <1>7 DEF CodeRefused, Look, Raise, TypeOK
    <2>2. /\ status' \in {"ready", "finished", "nil"} /\ buf' \in Seq(Nat)
          /\ pc' \in {"idle", "loop", "fetch", "inread", "code", "coding"}
          /\ result' \in {"none", "full", "short", "raised"}
          /\ UNCHANGED <<act, want, delivered>>
        BY <1>7, EmptySeq DEF CodeRefused, Look, Raise, TypeOK
    <2>3. UNCHANGED <<fileVars, arrived, readbuf, work, inpos, lzmaVars, taken,
                      made, closed, again, faults>>
        BY <1>7 DEF CodeRefused
    <2>. QED  BY <2>1, <2>2, <2>3 DEF TypeOK
<1>8. CASE Consume
    <2>1. fed' \in 0 .. Len(file)
        BY <1>8, ConsumeFacts, LenProperties DEF TypeOK
    <2>0. /\ again' \in BOOLEAN
          /\ phase' \in {"head", "body", "checked", "next", "done", "bad",
                        "astray"}
        BY <1>8, ConsumeFacts DEF Ended
    <2>5. decoded' \in Nat
        <3>1. decoded \in Nat /\ \A n \in 0 .. decoded : n \in Nat
            BY DEF TypeOK
        <3>2. \/ decoded' = decoded
              \/ decoded' \in 0 .. decoded
              \/ /\ file[readbuf[taken + 1]] \in Nat
                 /\ decoded' = file[readbuf[taken + 1]]
            BY <1>8, ConsumeFacts
        <3>. QED  BY <3>1, <3>2
    <2>2. held' \in Seq(Nat)
        <3>1. ASSUME NEW m \in Nat, NEW n \in Nat
              PROVE  Span(m, n) \in Seq(Nat)
            BY <3>1, SpanSeq
        <3>2. decoded \in Nat /\ <<>> \in Seq(Nat) /\ held \in Seq(Nat)
            BY EmptySeq DEF TypeOK
        <3>3. \/ UNCHANGED held
              \/ /\ file[readbuf[taken + 1]] \in Nat
                 /\ \E n \in Nat :
                       held' \in {<<>>, Span(n, file[readbuf[taken + 1]])}
            BY <1>8, <3>2, ConsumeFacts
        <3>. QED  BY <3>1, <3>2, <3>3
    <2>3. taken' \in 0 .. Len(readbuf)
        BY <1>8, LenProperties DEF Consume, TypeOK
    <2>4. UNCHANGED <<fileVars, arrived, rubyVars, seq, idle, pc, act, made,
                      want, buf, userVars, gap, closed, faults>>
        BY <1>8 DEF Consume
    <2>. QED  BY <2>0, <2>1, <2>2, <2>3, <2>4, <2>5 DEF TypeOK
<1>9. CASE Produce
    <2>1. Head(held) \in Nat /\ Tail(held) \in Seq(Nat)
        BY <1>9, HeadTailProperties DEF Produce, TypeOK
    <2>2. made' \in Seq(Nat) /\ Len(made') <= BLOCKSIZE
        BY <1>9, <2>1, AppendProperties DEF Produce, TypeOK
    <2>. QED  BY <1>9, <2>1, <2>2 DEF Produce, TypeOK
<1>10. CASE CodeReturn
    <2>1. readbuf' \in Seq(1 .. Len(file)) /\ Len(readbuf') <= BLOCKSIZE
        BY <1>10, ReadbufCut DEF CodeReturn
    <2>2. /\ made' = <<>> /\ taken' = 0 /\ 0 \in 0 .. Len(readbuf')
          /\ <<>> \in Seq(Nat) /\ Len(<<>>) = 0 /\ work' = made
        BY <1>10, <2>1, LenProperties, EmptySeq DEF CodeReturn, Settle
    <2>3. /\ seq' \in Phases /\ idle' \in BOOLEAN
          /\ phase' \in {"head", "body", "checked", "next", "done", "bad",
                        "astray"}
        BY <1>10 DEF CodeReturn, Settle, Left, IdleAfter, Moved, Phases, TypeOK
    <2>4. /\ status' \in {"ready", "finished", "nil"} /\ buf' \in Seq(Nat)
          /\ pc' \in {"idle", "loop", "fetch", "inread", "code", "coding"}
          /\ result' \in {"none", "full", "short", "raised"}
          /\ UNCHANGED <<act, want, delivered>>
        BY <1>10, <2>2 DEF CodeReturn, Look, Raise, TypeOK
    <2>6. gap' \in BOOLEAN
        BY <1>10 DEF CodeReturn, Look, Raise, TypeOK
    <2>5. UNCHANGED <<fileVars, arrived, inpos, fed, decoded, held, closed,
                      again, faults>>
        BY <1>10 DEF CodeReturn, Settle
    <2>. QED  BY <2>1, <2>2, <2>3, <2>4, <2>5, <2>6 DEF TypeOK
<1>11. CASE CodeFails
    <2>1. readbuf' \in Seq(1 .. Len(file)) /\ Len(readbuf') <= BLOCKSIZE
        BY <1>11, ReadbufCut DEF CodeFails
    <2>2. /\ made' = <<>> /\ taken' = 0 /\ 0 \in 0 .. Len(readbuf')
          /\ <<>> \in Seq(Nat) /\ Len(<<>>) = 0 /\ work' = made
        BY <1>11, <2>1, LenProperties, EmptySeq DEF CodeFails, Settle
    <2>3. seq' \in Phases /\ idle' \in BOOLEAN /\ phase' = phase
        BY <1>11 DEF CodeFails, Settle, Left, IdleAfter, Moved, Phases, Fatal
    <2>4. faults' \in 0 .. MaxFaults /\ gap' \in BOOLEAN
        BY <1>11 DEF CodeFails, Fault, Raise, TypeOK
    <2>5. /\ pc' = "idle" /\ buf' = <<>> /\ result' = "raised"
          /\ UNCHANGED <<fileVars, arrived, status, inpos, closed, again, fed,
                         decoded, held, act, want, delivered>>
        BY <1>11 DEF CodeFails, Settle, Raise
    <2>. QED  BY <2>1, <2>2, <2>3, <2>4, <2>5 DEF TypeOK
<1>12. CASE CodeAborted
    <2>1. seq' \in Phases /\ idle' \in BOOLEAN
        BY <1>12 DEF CodeAborted, Settle, Left, IdleAfter, Moved, Phases, TypeOK
    <2>2. phase' \in {"head", "body", "checked", "next", "done", "bad",
                        "astray"}
        BY <1>12 DEF CodeAborted, Settle, TypeOK
    <2>3. faults' \in 0 .. MaxFaults
        BY <1>12 DEF CodeAborted, Fault, TypeOK
    <2>4. gap' \in BOOLEAN
        BY <1>12 DEF CodeAborted, Raise, TypeOK
    <2>5. made' = <<>> /\ taken' = 0 /\ Len(<<>>) = 0 /\ <<>> \in Seq(Nat)
        BY <1>12, EmptySeq DEF CodeAborted, Settle
    <2>6. 0 \in 0 .. Len(readbuf)
        BY LenProperties DEF TypeOK
    <2>7. /\ pc' = "idle" /\ buf' = <<>> /\ result' = "raised"
          /\ UNCHANGED <<fileVars, arrived, rubyVars, closed, again, fed, decoded, held,
                         act, want, delivered>>
        BY <1>12 DEF CodeAborted, Settle, Raise
    <2>. QED  BY <2>1, <2>2, <2>3, <2>4, <2>5, <2>6, <2>7 DEF TypeOK
<1>13. CASE InportFails
    BY <1>13 DEF TypeOK, InportFails, Fault, Raise
<1>14. CASE Interrupted
    <2>0. work' \in Seq(Nat)
        <3>1. work' = work \/ work' = SubSeq(work, Portion + 1, Len(work))
            BY <1>14 DEF Interrupted
        <3>. QED  BY <3>1, WorkSplit DEF TypeOK
    <2>1. faults' \in 0 .. MaxFaults
        BY <1>14 DEF Interrupted, Fault, TypeOK
    <2>4. gap' \in BOOLEAN
        BY <1>14 DEF Interrupted, Raise, TypeOK
    <2>2. /\ pc' = "idle" /\ buf' = <<>> /\ result' = "raised"
          /\ UNCHANGED <<act, want, delivered>>
        BY <1>14 DEF Interrupted, Raise
    <2>3. UNCHANGED <<fileVars, arrived, status, readbuf, inpos, lzmaVars,
                      taken, made, closed, again>>
        BY <1>14 DEF Interrupted
    <2>. QED  BY <2>0, <2>1, <2>2, <2>3, <2>4, EmptySeq DEF TypeOK
<1>15. ASSUME NEW size \in 0 .. MaxSize \union {NoSize}, Read(size)
      PROVE  TypeOK'
    BY <1>15 DEF TypeOK, Read
<1>16. CASE Close
    BY <1>16 DEF TypeOK, Close
<1>17. CASE Grow
    BY <1>17 DEF TypeOK, Grow
<1>18. CASE UNCHANGED vars
    BY <1>18 DEF TypeOK, vars
<1>. QED  BY <1>1, <1>2, <1>3, <1>4, <1>5, <1>6, <1>7, <1>8, <1>9,
              <1>10, <1>11, <1>12, <1>13, <1>14, <1>15, <1>16, <1>17, <1>18
       DEF Next, Step, Event, User

\* Every step keeps the members of the decoder consistent with each other.
LEMMA ControlStep ==
    TypeOK /\ Control /\ Parse /\ Input /\ [Next]_vars => Control'
<1>. SUFFICES ASSUME TypeOK, Control, Parse, Input, [Next]_vars
              PROVE  Control'
    OBVIOUS
<1>. USE DecoderAssumption DEF fileVars, rubyVars, lzmaVars, callVars,
                               userVars, histVars
<1>1. CASE ReadDone
    BY <1>1 DEF TypeOK, Control, ReadDone, Return, Eof
<1>2. CASE Take
    BY <1>2 DEF Control, Take
<1>3. CASE Fetch
    BY <1>3 DEF Control, Fetch
<1>4. CASE FetchInput
    BY <1>4 DEF Control, FetchInput
<1>5. CASE InportRead
    BY <1>5 DEF Control, InportRead
<1>6. CASE CodeBegin
    BY <1>6 DEF Control, CodeBegin, Admits, Entered
<1>7. CASE CodeRefused
    BY <1>7 DEF Control, CodeRefused, Look, Raise, Refusal
<1>8. CASE Consume
    <2>1. /\ held' # <<>> => phase' \in {"body", "astray"}
          /\ phase' = "astray" => again'
        BY <1>8, ConsumeFacts DEF Ended
    <2>2. /\ pc = "coding" /\ seq \in {"run", "finish"} /\ seq # "end"
          /\ UNCHANGED <<pc, act, buf, readbuf, work, made, seq, status, closed,
                         result>>
        BY <1>8 DEF Consume, Control
    <2>. QED  BY <2>1, <2>2 DEF Control
<1>9. CASE Produce
    BY <1>9 DEF Control, Produce
<1>10. CASE CodeReturn
    BY <1>10
       DEF Control, Fatal, CodeReturn, Verdict, Settle, Look, Raise, Reported,
           Left
<1>11. CASE CodeFails
    BY <1>11 DEF Control, CodeFails, Settle, Raise, Left
<1>12. CASE CodeAborted
    BY <1>12 DEF Control, CodeAborted, Verdict, Settle, Raise, Left
<1>13. CASE InportFails
    BY <1>13 DEF Control, InportFails, Raise
<1>14. CASE Interrupted
    BY <1>14 DEF Control, Interrupted, Raise
<1>15. ASSUME NEW size \in 0 .. MaxSize \union {NoSize}, Read(size)
      PROVE  Control'
    BY <1>15 DEF Control, Read
<1>16. CASE Close
    BY <1>16 DEF Control, Close
<1>17. CASE Grow
    BY <1>17 DEF Control, Grow
<1>18. CASE UNCHANGED vars
    BY <1>18 DEF Control, vars
<1>. QED  BY <1>1, <1>2, <1>3, <1>4, <1>5, <1>6, <1>7, <1>8, <1>9,
              <1>10, <1>11, <1>12, <1>13, <1>14, <1>15, <1>16, <1>17, <1>18
       DEF Next, Step, Event, User

\* Only Consume looks at the file; what it accepts goes on like a complete file.
LEMMA ParseStep ==
    TypeOK /\ Control /\ Parse /\ Input /\ [Next]_vars => Parse'
<1>. SUFFICES ASSUME TypeOK, Control, Parse, Input, [Next]_vars
              PROVE  Parse'
    OBVIOUS
<1>. USE DecoderAssumption DEF fileVars, rubyVars, lzmaVars, callVars,
                               userVars, histVars
<1>1. CASE ReadDone
    BY <1>1 DEF Parse, ReadDone
<1>2. CASE Take
    BY <1>2 DEF Parse, Take
<1>3. CASE Fetch
    BY <1>3 DEF Parse, Fetch
<1>4. CASE FetchInput
    BY <1>4 DEF Parse, FetchInput
<1>5. CASE InportRead
    BY <1>5 DEF Parse, InportRead
<1>6. CASE CodeBegin
    BY <1>6 DEF Parse, CodeBegin
<1>7. CASE CodeRefused
    BY <1>7 DEF Parse, CodeRefused
<1>8. CASE Consume
    <2>. SUFFICES ASSUME phase' \notin {"bad", "astray"}, xz \/ ~again'
                  PROVE  Parse'
        BY <1>8 DEF Parse, Consume
    <2>. DEFINE p == readbuf[taken + 1]
    <2>1. /\ fed' = p /\ p \in 1 .. Len(file) /\ p <= fed + 1
          /\ again' = (again \/ p # fed + 1)
          /\ UNCHANGED <<file, cat, xz>> /\ fed \in Nat /\ decoded \in Nat
        BY <1>8, ConsumeFacts DEF Consume, TypeOK
    <2>2. /\ phase \notin {"bad", "astray"}
          /\ xz \/ ~again
          /\ p # fed + 1 => xz
        <3>1. phase # "bad" /\ (xz \/ ~again) /\ (p # fed + 1 => xz)
            BY <1>8, <2>1 DEF Consume
        <3>2. phase # "astray"
            BY <1>8 DEF Consume, Parsed, Lost, Control
        <3>. QED  BY <3>1, <3>2
    <2>3. CASE /\ phase = "body" /\ phase' = "body" /\ file[p] \in Nat
               /\ p = fed + 1 /\ decoded <= file[p] /\ decoded' = file[p]
        <3>1. /\ fed >= 1 /\ file[1] = HEAD /\ file[fed] # TAIL
              /\ file[p] # TAIL /\ file[p] # HEAD /\ file[p] # BAD
            BY <2>2, <2>3 DEF Parse, TypeOK
        <3>2. \A i \in 1 .. p : i \in 1 .. fed \/ i = p
            BY <2>1, <2>3
        <3>3. \A i \in 1 .. p - 1 : i \in 1 .. fed - 1 \/ i = fed
            BY <2>1, <2>3
        <3>4. \A i \in 1 .. p : file[i] \in Nat => file[i] <= file[p]
            <4>1. \A i \in 1 .. fed : file[i] \in Nat => file[i] <= decoded
                BY <2>2 DEF Parse
            <4>2. \A i \in 1 .. fed : file[i] \in Nat => file[i] <= file[p]
                BY <2>1, <2>3, <4>1
            <4>. QED  BY <2>3, <3>2, <4>2
        <3>5. \A i \in 1 .. p : file[i] # BAD
            BY <2>2, <3>1, <3>2 DEF Parse
        <3>6. \A i \in 1 .. p - 1 : /\ (file[i] = TAIL) = (file[i + 1] = HEAD)
                                    /\ file[i] = TAIL => cat
            BY <2>2, <2>3, <3>1, <3>3 DEF Parse
        <3>7. p \in 1 .. p /\ p >= 1 /\ p # 0
            BY <2>1
        <3>. QED  BY <2>1, <2>3, <3>1, <3>4, <3>5, <3>6, <3>7 DEF Parse
    <2>4. CASE /\ phase' \in {"checked", "body"} /\ phase \in {"head", "next"}
               /\ file[p] = HEAD
               /\ decoded' \in 0 .. decoded /\ DecodedBefore(p, decoded')
        <3>1. \A i \in 1 .. p : i \in 1 .. fed \/ (i = p /\ p = fed + 1)
            BY <2>1
        <3>2. \A i \in 1 .. p - 1 :
                  i \in 1 .. fed - 1 \/ (i = fed /\ p = fed + 1)
            BY <2>1
        <3>3. \A i \in 1 .. p : i \in 1 .. p - 1 \/ i = p
            BY <2>1
        <3>4. /\ \A i \in 1 .. p : file[i] \in Nat => file[i] <= decoded'
              /\ decoded' = 0 \/ \E i \in 1 .. p : file[i] = decoded'
            BY <2>1, <2>4, <3>3 DEF DecodedBefore
        <3>5. \A i \in 1 .. p : file[i] # BAD
            BY <2>2, <2>4, <3>1 DEF Parse
        <3>6. \A i \in 1 .. p - 1 : /\ (file[i] = TAIL) = (file[i + 1] = HEAD)
                                    /\ file[i] = TAIL => cat
            <4>1. fed >= 1 => phase = "next" /\ file[fed] = TAIL /\ cat
                BY <2>1, <2>2, <2>4 DEF Parse
            <4>2. \A i \in 1 .. p - 1 : i = fed => fed >= 1
                BY <2>1
            <4>. QED  BY <2>2, <2>4, <3>2, <4>1, <4>2 DEF Parse
        <3>7. file[1] = HEAD
            <4>1. CASE fed = 0
                <5>1. p = 1
                    BY <2>1, <4>1
                <5>. QED  BY <2>4, <5>1
            <4>2. CASE fed # 0
                BY <2>1, <2>2, <4>2 DEF Parse
            <4>. QED  BY <4>1, <4>2
        <3>8. p # 0 /\ p >= 1
            BY <2>1
        <3>. QED  BY <2>1, <2>4, <3>4, <3>5, <3>6, <3>7, <3>8 DEF Parse
    <2>5. CASE /\ phase' = Ended /\ p = fed + 1
               /\ phase = "body" /\ file[p] = TAIL
               /\ UNCHANGED decoded
        BY <2>1, <2>2, <2>5 DEF Ended, Parse, TypeOK
    <2>. HIDE DEF p
    <2>6. ~(again' /\ ~xz)
        BY <1>8 DEF Consume
    <2>7. \/ /\ phase = "body" /\ phase' = "body" /\ file[p] \in Nat
             /\ p = fed + 1 /\ decoded <= file[p] /\ decoded' = file[p]
          \/ /\ phase' \in {"checked", "body"} /\ phase \in {"head", "next"}
             /\ file[p] = HEAD
             /\ decoded' \in 0 .. decoded /\ DecodedBefore(p, decoded')
          \/ /\ phase' = Ended /\ p = fed + 1
             /\ phase = "body" /\ file[p] = TAIL
             /\ UNCHANGED decoded
        BY <1>8, <2>2, <2>6, ConsumeFacts DEF p
    <2>. QED  BY <2>3, <2>4, <2>5, <2>7
<1>9. CASE Produce
    BY <1>9 DEF Parse, Produce
<1>10. CASE CodeReturn
    BY <1>10 DEF Parse, CodeReturn, Verdict, Settle
<1>11. CASE CodeFails
    BY <1>11 DEF Parse, CodeFails, Settle
<1>12. CASE CodeAborted
    BY <1>12 DEF Parse, CodeAborted, Verdict, Settle
<1>13. CASE InportFails
    BY <1>13 DEF Parse, InportFails
<1>14. CASE Interrupted
    BY <1>14 DEF Parse, Interrupted
<1>15. ASSUME NEW size \in 0 .. MaxSize \union {NoSize}, Read(size)
      PROVE  Parse'
    BY <1>15 DEF Parse, Read
<1>16. CASE Close
    BY <1>16 DEF Parse, Close
<1>17. CASE Grow
    BY <1>17 DEF Parse, Grow
<1>18. CASE UNCHANGED vars
    BY <1>18 DEF Parse, vars
<1>. QED  BY <1>1, <1>2, <1>3, <1>4, <1>5, <1>6, <1>7, <1>8, <1>9,
              <1>10, <1>11, <1>12, <1>13, <1>14, <1>15, <1>16, <1>17, <1>18
       DEF Next, Step, Event, User

\* No position of the file is skipped.  Without events none is fed twice, and
\* the end is looked for in all the input.
LEMMA InputStep ==
    TypeOK /\ Control /\ Parse /\ Input /\ [Next]_vars => Input'
<1>. SUFFICES ASSUME TypeOK, Control, Parse, Input, [Next]_vars
              PROVE  Input'
    OBVIOUS
<1>. USE DecoderAssumption DEF fileVars, rubyVars, lzmaVars, callVars,
                               userVars, histVars
<1>1. CASE ReadDone
    BY <1>1 DEF Input, ReadDone, Return
<1>2. CASE Take
    BY <1>2 DEF Input, Take
<1>3. CASE Fetch
    BY <1>3 DEF Input, Fetch
<1>4. CASE FetchInput
    BY <1>4 DEF Input, FetchInput
<1>5. CASE InportRead
    <2>1. PICK n \in inpos .. arrived : readbuf' = Span(inpos, n) /\ inpos' = n
        BY <1>5 DEF InportRead
    <2>2. /\ Len(Span(inpos, n)) = n - inpos
          /\ \A i \in 1 .. n - inpos : Span(inpos, n)[i] = inpos + i
        <3>1. inpos \in Nat /\ n \in Nat /\ inpos <= n
            BY DEF TypeOK
        <3>. QED  BY <3>1, SpanFacts
    <2>3. /\ readbuf = <<>> /\ Len(<<>>) = 0 /\ taken = 0
          /\ UNCHANGED <<fed, taken, faults, seq, again>>
        BY <1>5, EmptySeq DEF InportRead, Control
    <2>4. faults = 0 => seq # "end"
        BY <1>5 DEF Input, InportRead
    <2>5. inpos \in Nat /\ n \in Nat /\ n - (n - inpos) = inpos /\ fed \in Nat
        BY DEF TypeOK
    <2>6. inpos <= fed /\ (faults = 0 => ~again /\ fed = inpos)
        BY <2>3, <2>5 DEF Input
    <2>7. /\ Len(readbuf') = n - inpos /\ inpos' - Len(readbuf') = inpos
          /\ inpos' - Len(readbuf') + taken' = inpos
          /\ \A i \in 1 .. Len(readbuf') : readbuf'[i] = inpos + i
        BY <2>1, <2>2, <2>3, <2>5
    <2>. QED  BY <2>3, <2>4, <2>6, <2>7 DEF Input
<1>6. CASE CodeBegin
    BY <1>6 DEF Input, CodeBegin, Entered
<1>7. CASE CodeRefused
    BY <1>7 DEF Input, CodeRefused
<1>8. CASE Consume
    <2>1. /\ fed' = readbuf[taken + 1] /\ taken' = taken + 1
          /\ again' = (again \/ readbuf[taken + 1] # fed + 1)
        BY <1>8 DEF Consume
    <2>2. /\ taken + 1 \in 1 .. Len(readbuf) /\ Len(readbuf) \in Nat
          /\ seq # "end" /\ inpos \in Nat /\ taken \in Nat
        BY <1>8, LenProperties DEF Consume, Control, TypeOK
    <2>3. UNCHANGED <<readbuf, inpos, seq, faults>>
        BY <1>8 DEF Consume
    <2>4. readbuf[taken + 1] = inpos - Len(readbuf) + (taken + 1)
        BY <2>2 DEF Input
    <2>5. faults = 0 => ~again'
        BY <1>8, <2>1, ConsumeFacts DEF Input
    <2>6. /\ fed' = inpos - Len(readbuf) + taken'
          /\ inpos - Len(readbuf) + taken' <= fed'
        BY <2>1, <2>2, <2>4
    <2>. QED  BY <2>2, <2>3, <2>5, <2>6 DEF Input
<1>9. CASE Produce
    BY <1>9 DEF Input, Produce
<1>10. CASE CodeReturn
    <2>1. /\ Len(readbuf') = Len(readbuf) - taken /\ taken' = 0
          /\ \A i \in 1 .. Len(readbuf') : readbuf'[i] = readbuf[taken + i]
        BY <1>10, ReadbufCut DEF CodeReturn, Settle
    <2>2. UNCHANGED <<fed, inpos, faults, again>>
        BY <1>10 DEF CodeReturn, Settle
    <2>3. /\ Len(readbuf) \in Nat /\ taken \in 0 .. Len(readbuf)
          /\ inpos \in Nat
        BY LenProperties DEF TypeOK
    <2>4. inpos' - Len(readbuf') + taken' = inpos - Len(readbuf) + taken
        BY <2>1, <2>2, <2>3
    <2>6. ASSUME NEW i \in 1 .. Len(readbuf')
          PROVE  readbuf'[i] = inpos' - Len(readbuf') + i
        <3>1. taken + i \in 1 .. Len(readbuf)
            BY <2>1, <2>3
        <3>2. readbuf[taken + i] = inpos - Len(readbuf) + (taken + i)
            BY <3>1 DEF Input
        <3>. QED  BY <2>1, <2>2, <2>3, <3>2
    <2>5. ASSUME seq' = "end"
          PROVE  /\ status' # "ready" /\ pc' \in {"idle", "loop"}
                 /\ faults = 0 /\ cat' => readbuf' = <<>>
        <3>1. PICK s \in Statuses :
                  Verdict(s) /\ Settle(s) /\ Look(Reported(s, Moved, idle))
            BY <1>10 DEF CodeReturn
        <3>2. s = "STREAM_END" /\ seq # "end"
            BY <1>10, <2>5, <3>1 DEF Settle, Left, Control, CodeReturn, Fatal
        <3>3. status' = "finished" /\ pc' = "loop"
            BY <3>1, <3>2 DEF Look, Reported
        <3>4. ASSUME cat, faults = 0
              PROVE  readbuf' = <<>>
            <4>1. act = "FINISH"
                BY <3>1, <3>2, <3>4 DEF Verdict, Parse, Input
            <4>2. Len(readbuf) = 0
                BY <1>10, <4>1, EmptySeq DEF Control, CodeReturn
            <4>3. Len(readbuf') = 0 /\ readbuf' \in Seq(1 .. Len(file))
                BY <1>10, <2>1, <2>3, <4>2, ReadbufCut DEF CodeReturn
            <4>. QED  BY <4>3, EmptySeq
        <3>. QED  BY <1>10, <3>3, <3>4 DEF CodeReturn
    <2>. QED  BY <2>2, <2>4, <2>5, <2>6 DEF Input
<1>11. CASE CodeFails
    <2>1. /\ Len(readbuf') = Len(readbuf) - taken /\ taken' = 0
          /\ \A i \in 1 .. Len(readbuf') : readbuf'[i] = readbuf[taken + i]
        BY <1>11, ReadbufCut DEF CodeFails, Settle
    <2>2. UNCHANGED <<fed, inpos>> /\ faults' # 0
        BY <1>11 DEF CodeFails, Settle, Fault, TypeOK
    <2>3. /\ Len(readbuf) \in Nat /\ taken \in 0 .. Len(readbuf)
          /\ inpos \in Nat
        BY LenProperties DEF TypeOK
    <2>4. inpos' - Len(readbuf') + taken' = inpos - Len(readbuf) + taken
        BY <2>1, <2>2, <2>3
    <2>5. ASSUME NEW i \in 1 .. Len(readbuf')
          PROVE  readbuf'[i] = inpos' - Len(readbuf') + i
        <3>1. taken + i \in 1 .. Len(readbuf)
            BY <2>1, <2>3
        <3>2. readbuf[taken + i] = inpos - Len(readbuf) + (taken + i)
            BY <3>1 DEF Input
        <3>. QED  BY <2>1, <2>2, <2>3, <3>2
    <2>. QED  BY <2>2, <2>4, <2>5 DEF Input
<1>12. CASE CodeAborted
    <2>1. /\ UNCHANGED <<fed, inpos, readbuf>> /\ taken' = 0 /\ faults' # 0
        BY <1>12 DEF CodeAborted, Settle, Fault, TypeOK
    <2>2. /\ Len(readbuf) \in Nat /\ taken \in Nat /\ inpos \in Nat
          /\ fed \in Nat
        BY LenProperties DEF TypeOK
    <2>3. inpos - Len(readbuf) + taken <= fed
        BY DEF Input
    <2>4. inpos' - Len(readbuf') + taken' <= fed'
        BY <2>1, <2>2, <2>3
    <2>. QED  BY <2>1, <2>4 DEF Input
<1>13. CASE InportFails
    BY <1>13 DEF TypeOK, Input, InportFails, Fault
<1>14. CASE Interrupted
    BY <1>14 DEF TypeOK, Input, Interrupted, Fault
<1>15. ASSUME NEW size \in 0 .. MaxSize \union {NoSize}, Read(size)
      PROVE  Input'
    BY <1>15 DEF Input, Read
<1>16. CASE Close
    BY <1>16 DEF Input, Close
<1>17. CASE Grow
    BY <1>17 DEF Input, Grow
<1>18. CASE UNCHANGED vars
    BY <1>18 DEF Input, vars
<1>. QED  BY <1>1, <1>2, <1>3, <1>4, <1>5, <1>6, <1>7, <1>8, <1>9,
              <1>10, <1>11, <1>12, <1>13, <1>14, <1>15, <1>16, <1>17, <1>18
       DEF Next, Step, Event, User

\* Every byte is where it has to be, or gap says that some are gone.
LEMMA PlacesStep ==
    TypeOK /\ TypeOK' /\ Control /\ Parse /\ Input /\ Places /\ [Next]_vars
        => Places'
<1>. SUFFICES ASSUME TypeOK, TypeOK', Control, Parse, Input, Places,
                     [Next]_vars
              PROVE  Places'
    OBVIOUS
<1>. USE DEF fileVars, rubyVars, lzmaVars, callVars, userVars, histVars
<1>1. CASE ReadDone
    <2>0. /\ delivered' \in Seq(Nat) /\ buf' \in Seq(Nat)
          /\ Len(delivered') \in Nat /\ Len(buf') \in Nat
        BY LenProperties DEF TypeOK
    <2>1. UNCHANGED <<work, made, held, decoded, gap, again>>
        BY <1>1 DEF ReadDone, Return
    <2>2. Return
        BY <1>1 DEF ReadDone
    <2>3. ~gap /\ ~again => Placed(delivered, 0) /\ Placed(buf, 0 + Len(delivered))
        BY Lengths DEF Places
    <2>4. ~gap /\ ~again => Placed(delivered', 0) /\ Placed(buf', 0 + Len(delivered'))
        BY <2>0, <2>2, <2>3, ReturnShifts, ShiftPlaces, Lengths
    <2>5. /\ Len(delivered') = Len(delivered) + Len(buf) /\ Len(buf') = 0
          /\ 0 + Len(delivered') = Len(delivered')
          /\ Len(delivered') + Len(buf') = Len(delivered) + Len(buf)
        BY <2>0, <2>2, ReturnShifts, Lengths, Nothing
    <2>. QED  BY <2>1, <2>4, <2>5 DEF Places
<1>2. CASE Take
    <2>0. /\ buf' \in Seq(Nat) /\ work' \in Seq(Nat)
          /\ Len(buf') \in Nat /\ Len(work') \in Nat
        BY LenProperties DEF TypeOK
    <2>1. UNCHANGED <<delivered, made, held, decoded, gap, again>>
        BY <1>2 DEF Take
    <2>2. ~gap /\ ~again => /\ Placed(buf', Len(delivered))
                  /\ Placed(work', Len(delivered) + Len(buf'))
        BY <1>2, <2>0, TakeShifts, ShiftPlaces, Lengths DEF Places
    <2>3. Len(delivered) + Len(buf') + Len(work')
            = Len(delivered) + Len(buf) + Len(work)
        <3>1. Len(buf') + Len(work') = Len(buf) + Len(work)
            BY <1>2, TakeShifts
        <3>2. Len(delivered) \in Nat /\ Len(buf) \in Nat /\ Len(work) \in Nat
            BY Lengths
        <3>3. Len(buf') \in Nat /\ Len(work') \in Nat
            BY <2>0
        <3>. QED  BY <3>1, <3>2, <3>3
    <2>. QED  BY <2>1, <2>2, <2>3 DEF Places
<1>3. CASE Fetch
    <2>1. UNCHANGED <<delivered, buf, work, made, held, decoded, gap,
                     again>>
        BY <1>3 DEF Fetch
    <2>. QED  BY <2>1 DEF Places
<1>4. CASE FetchInput
    <2>1. UNCHANGED <<delivered, buf, work, made, held, decoded, gap,
                     again>>
        BY <1>4 DEF FetchInput
    <2>. QED  BY <2>1 DEF Places
<1>5. CASE InportRead
    <2>1. UNCHANGED <<delivered, buf, work, made, held, decoded, gap,
                     again>>
        BY <1>5 DEF InportRead
    <2>. QED  BY <2>1 DEF Places
<1>6. CASE CodeBegin
    <2>1. UNCHANGED <<delivered, buf, work, made, held, decoded, gap,
                     again>>
        BY <1>6 DEF CodeBegin
    <2>. QED  BY <2>1 DEF Places
<1>7. CASE CodeRefused
    <2>1. UNCHANGED <<delivered, work, made, held, decoded, again>>
        BY <1>7 DEF CodeRefused, Look, Raise
    <2>2. \/ UNCHANGED <<buf, gap>>
          \/ buf' = <<>> /\ (~gap' => ~gap /\ buf = <<>>)
        BY <1>7 DEF CodeRefused, Raise, Look
    <2>. QED  BY <2>1, <2>2, Lengths, Nothing DEF Places
<1>8. CASE Consume
    <2>. SUFFICES ASSUME ~gap', ~again'
                  PROVE  Places'
        BY DEF Places
    <2>1. UNCHANGED <<delivered, buf, work, made, gap>>
        BY <1>8 DEF Consume
    <2>. DEFINE n == Len(delivered) + Len(buf) + Len(work) + Len(made)
    <2>2. /\ ~again /\ held = <<>>
          /\ Placed(held', decoded) /\ Len(held') = decoded' - decoded
          /\ n \in Nat /\ decoded' \in Nat
        BY <1>8, HeldFacts, Lengths
    <2>3. decoded = n
        BY <2>1, <2>2, Lengths, Nothing DEF Places
    <2>4. Placed(held', n) /\ decoded' = n + Len(held')
        BY <2>2, <2>3
    <2>. QED  BY <2>1, <2>2, <2>4 DEF Places
<1>9. CASE Produce
    <2>0. /\ made' \in Seq(Nat) /\ held' \in Seq(Nat)
          /\ Len(made') \in Nat /\ Len(held') \in Nat
        BY LenProperties DEF TypeOK
    <2>1. UNCHANGED <<delivered, buf, work, decoded, gap, again>>
        BY <1>9 DEF Produce
    <2>2. ~gap /\ ~again => LET n == Len(delivered) + Len(buf) + Len(work)
                  IN  Placed(made', n) /\ Placed(held', n + Len(made'))
        BY <1>9, <2>0, ProduceShifts, ShiftPlaces, Lengths DEF Places
    <2>3. Len(delivered) + Len(buf) + Len(work) + Len(made') + Len(held')
            = Len(delivered) + Len(buf) + Len(work) + Len(made) + Len(held)
        <3>1. Len(made') + Len(held') = Len(made) + Len(held)
            BY <1>9, ProduceShifts
        <3>2. /\ Len(delivered) + Len(buf) + Len(work) \in Nat
              /\ Len(made) \in Nat /\ Len(held) \in Nat
            BY Lengths
        <3>3. Len(made') \in Nat /\ Len(held') \in Nat
            BY <2>0
        <3>. QED  BY <3>1, <3>2, <3>3
    <2>. QED  BY <2>1, <2>2, <2>3 DEF Places
<1>10. CASE CodeReturn
    <2>1. /\ work' = made /\ made' = <<>> /\ work = <<>>
          /\ UNCHANGED <<delivered, held, decoded, again>>
        BY <1>10 DEF CodeReturn, Settle, Control, Look, Raise
    <2>2. ~gap' => ~gap /\ buf' = buf
        BY <1>10 DEF CodeReturn, Raise, Look
    <2>3. /\ Len(work) = 0 /\ Len(made') = 0 /\ Len(work') = Len(made)
          /\ Len(delivered) + Len(buf) + Len(work) = Len(delivered) + Len(buf)
          /\ Len(delivered) + Len(buf) + Len(work) + Len(made)
                = Len(delivered) + Len(buf) + Len(work') + Len(made')
        BY <2>1, Lengths, Nothing
    <2>. QED  BY <2>1, <2>2, <2>3, Nothing DEF Places
<1>11. CASE CodeFails
    <2>1. /\ work' = made /\ made' = <<>> /\ work = <<>>
          /\ UNCHANGED <<delivered, held, decoded, again>>
        BY <1>11 DEF CodeFails, Settle, Control, Raise
    <2>2. ~gap' => ~gap /\ buf' = buf
        BY <1>11 DEF CodeFails, Raise, Look
    <2>3. /\ Len(work) = 0 /\ Len(made') = 0 /\ Len(work') = Len(made)
          /\ Len(delivered) + Len(buf) + Len(work) = Len(delivered) + Len(buf)
          /\ Len(delivered) + Len(buf) + Len(work) + Len(made)
                = Len(delivered) + Len(buf) + Len(work') + Len(made')
        BY <2>1, Lengths, Nothing
    <2>. QED  BY <2>1, <2>2, <2>3, Nothing DEF Places
<1>12. CASE CodeAborted
    <2>1. /\ made' = <<>> /\ UNCHANGED <<delivered, work, held, decoded, again>>
        BY <1>12 DEF CodeAborted, Settle, Raise
    <2>2. buf' = <<>> /\ (~gap' => ~gap /\ buf = <<>> /\ made = <<>>)
        BY <1>12 DEF CodeAborted, Raise
    <2>. QED  BY <2>1, <2>2, Lengths, Nothing DEF Places
<1>13. CASE InportFails
    <2>1. UNCHANGED <<delivered, work, made, held, decoded, again>>
        BY <1>13 DEF InportFails, Raise
    <2>2. buf' = <<>> /\ (~gap' => ~gap /\ buf = <<>>)
        BY <1>13 DEF InportFails, Raise
    <2>. QED  BY <2>1, <2>2, Lengths, Nothing DEF Places
<1>14. CASE Interrupted
    <2>1. /\ UNCHANGED <<delivered, made, held, decoded, again>>
          /\ buf' = <<>> /\ (~gap' => ~gap /\ buf = <<>> /\ UNCHANGED work)
        BY <1>14 DEF Interrupted, Raise
    <2>. QED  BY <2>1, Lengths, Nothing DEF Places
<1>15. ASSUME NEW size \in 0 .. MaxSize \union {NoSize}, Read(size)
      PROVE  Places'
    <2>1. UNCHANGED <<delivered, buf, work, made, held, decoded, gap,
                     again>>
        BY <1>15 DEF Read
    <2>. QED  BY <2>1 DEF Places
<1>16. CASE Close
    <2>1. /\ work' = <<>> /\ (~gap' => ~gap /\ work = <<>>)
          /\ UNCHANGED <<delivered, buf, made, held, decoded, again>>
        BY <1>16 DEF Close
    <2>. QED  BY <2>1, Lengths, Nothing DEF Places
<1>17. CASE Grow
    <2>1. UNCHANGED <<delivered, buf, work, made, held, decoded, gap,
                     again>>
        BY <1>17 DEF Grow
    <2>. QED  BY <2>1 DEF Places
<1>18. CASE UNCHANGED vars
    <2>1. UNCHANGED <<delivered, buf, work, made, held, decoded, gap,
                     again>>
        BY <1>18 DEF vars
    <2>. QED  BY <2>1 DEF Places
<1>. QED  BY <1>1, <1>2, <1>3, <1>4, <1>5, <1>6, <1>7, <1>8, <1>9,
              <1>10, <1>11, <1>12, <1>13, <1>14, <1>15, <1>16, <1>17, <1>18
       DEF Next, Step, Event, User

\* Bytes move to the buffer before or are thrown away; either keeps their order.
LEMMA OrderedStep ==
    TypeOK /\ TypeOK' /\ Control /\ Parse /\ Input /\ Ordered /\ [Next]_vars
        => Ordered'
<1>. SUFFICES ASSUME TypeOK, TypeOK', Control, Parse, Input, Ordered,
                     [Next]_vars
              PROVE  Ordered'
    OBVIOUS
<1>. USE DEF fileVars, rubyVars, lzmaVars, callVars, userVars, histVars
<1>1. CASE ReadDone
    <2>1. UNCHANGED <<work, made, held, decoded, again>>
        BY <1>1 DEF ReadDone, Return
    <2>2. Return /\ delivered' \in Seq(Nat) /\ buf' \in Seq(Nat)
        BY <1>1 DEF ReadDone, TypeOK
    <2>3. Shifted(delivered, buf, delivered', buf')
        BY <2>2, ReturnShifts
    <2>. QED  BY <2>1, <2>2, <2>3, ShiftOrder, Lengths DEF Ordered
<1>2. CASE Take
    <2>1. UNCHANGED <<delivered, made, held, decoded, again>>
        BY <1>2 DEF Take
    <2>2. buf' \in Seq(Nat) /\ work' \in Seq(Nat)
        BY DEF TypeOK
    <2>3. Shifted(buf, work, buf', work')
        BY <1>2, TakeShifts
    <2>. QED  BY <2>1, <2>2, <2>3, ShiftOrder, Lengths DEF Ordered
<1>3. CASE Fetch
    <2>1. UNCHANGED <<delivered, buf, work, made, held, decoded, again>>
        BY <1>3 DEF Fetch
    <2>. QED  BY <2>1 DEF Ordered
<1>4. CASE FetchInput
    <2>1. UNCHANGED <<delivered, buf, work, made, held, decoded, again>>
        BY <1>4 DEF FetchInput
    <2>. QED  BY <2>1 DEF Ordered
<1>5. CASE InportRead
    <2>1. UNCHANGED <<delivered, buf, work, made, held, decoded, again>>
        BY <1>5 DEF InportRead
    <2>. QED  BY <2>1 DEF Ordered
<1>6. CASE CodeBegin
    <2>1. UNCHANGED <<delivered, buf, work, made, held, decoded, again>>
        BY <1>6 DEF CodeBegin
    <2>. QED  BY <2>1 DEF Ordered
<1>7. CASE CodeRefused
    <2>1. /\ buf' \in {buf, <<>>} /\ made' \in {made, <<>>}
          /\ UNCHANGED <<delivered, held, decoded, work, again>>
        BY <1>7 DEF CodeRefused, Look, Raise
    <2>. QED  BY <2>1, Nothing DEF Ordered
<1>8. CASE Consume
    <2>. SUFFICES ASSUME ~again'
                  PROVE  Ordered'
        BY DEF Ordered
    <2>1. UNCHANGED <<delivered, buf, work, made>>
        BY <1>8 DEF Consume
    <2>2. /\ decoded \in Nat /\ decoded' \in Nat /\ decoded <= decoded'
          /\ Len(held') = decoded' - decoded /\ Placed(held', decoded)
          /\ ~again
        BY <1>8, HeldFacts, Lengths
    <2>3. /\ Rising(held') /\ UpTo(held', decoded')
          /\ \A t \in Seq(Nat) :
                UpTo(t, decoded) => Precedes(t, held') /\ UpTo(t, decoded')
        BY <2>2, PlacedOrder
    <2>. QED  BY <2>1, <2>2, <2>3, Lengths DEF Ordered
<1>9. CASE Produce
    <2>1. UNCHANGED <<delivered, buf, work, decoded, again>>
        BY <1>9 DEF Produce
    <2>2. made' \in Seq(Nat) /\ held' \in Seq(Nat)
        BY DEF TypeOK
    <2>3. Shifted(made, held, made', held')
        BY <1>9, ProduceShifts
    <2>. QED  BY <2>1, <2>2, <2>3, ShiftOrder, Lengths DEF Ordered
<1>10. CASE CodeReturn
    <2>1. /\ work' = made /\ made' = <<>> /\ buf' \in {buf, <<>>}
          /\ UNCHANGED <<delivered, held, decoded, again>>
        BY <1>10 DEF CodeReturn, Settle, Look, Raise
    <2>. QED  BY <2>1, Nothing DEF Ordered
<1>11. CASE CodeFails
    <2>1. /\ work' = made /\ made' = <<>> /\ buf' \in {buf, <<>>}
          /\ UNCHANGED <<delivered, held, decoded, again>>
        BY <1>11 DEF CodeFails, Settle, Raise
    <2>. QED  BY <2>1, Nothing DEF Ordered
<1>12. CASE CodeAborted
    <2>1. /\ buf' \in {buf, <<>>} /\ made' \in {made, <<>>}
          /\ UNCHANGED <<delivered, held, decoded, work, again>>
        BY <1>12 DEF CodeAborted, Settle, Raise
    <2>. QED  BY <2>1, Nothing DEF Ordered
<1>13. CASE InportFails
    <2>1. /\ buf' \in {buf, <<>>} /\ made' \in {made, <<>>}
          /\ UNCHANGED <<delivered, held, decoded, work, again>>
        BY <1>13 DEF InportFails, Raise
    <2>. QED  BY <2>1, Nothing DEF Ordered
<1>14. CASE Interrupted
    <2>1. /\ buf' = <<>>
          /\ UNCHANGED <<delivered, made, held, decoded, again>>
        BY <1>14 DEF Interrupted, Raise
    <2>2. CASE UNCHANGED work
        BY <2>1, <2>2, Nothing DEF Ordered
    <2>3. CASE work' = SubSeq(work, Portion + 1, Len(work))
        <3>0. /\ Portion \in 0 .. Len(work) /\ Len(work') = Len(work) - Portion
              /\ \A i \in 1 .. Len(work) - Portion : work'[i] = work[Portion + i]
              /\ Len(work) \in Nat
            BY <2>3, WorkSplit, Lengths
        <3>1. /\ Portion \in Nat /\ \A i \in 1 .. Len(work') :
                     /\ Portion + i \in 1 .. Len(work)
                     /\ work'[i] = work[Portion + i]
            BY <3>0
        <3>2. Rising(work) => Rising(work')
            BY <3>1 DEF Rising
        <3>3. /\ \A s : Precedes(s, work) => Precedes(s, work')
              /\ \A s : Precedes(work, s) => Precedes(work', s)
              /\ UpTo(work, decoded) => UpTo(work', decoded)
            BY <3>1 DEF Precedes, UpTo
        <3>. QED  BY <2>1, <3>2, <3>3, Nothing DEF Ordered
    <2>. QED  BY <1>14, <2>2, <2>3 DEF Interrupted
<1>15. ASSUME NEW size \in 0 .. MaxSize \union {NoSize}, Read(size)
      PROVE  Ordered'
    <2>1. UNCHANGED <<delivered, buf, work, made, held, decoded, again>>
        BY <1>15 DEF Read
    <2>. QED  BY <2>1 DEF Ordered
<1>16. CASE Close
    <2>1. /\ buf' \in {buf, <<>>} /\ made' \in {made, <<>>}
          /\ work' \in {work, <<>>}
          /\ UNCHANGED <<delivered, held, decoded, again>>
        BY <1>16 DEF Close
    <2>. QED  BY <2>1, Nothing DEF Ordered
<1>17. CASE Grow
    <2>1. UNCHANGED <<delivered, buf, work, made, held, decoded, again>>
        BY <1>17 DEF Grow
    <2>. QED  BY <2>1 DEF Ordered
<1>18. CASE UNCHANGED vars
    <2>1. UNCHANGED <<delivered, buf, work, made, held, decoded, again>>
        BY <1>18 DEF vars
    <2>. QED  BY <2>1 DEF Ordered
<1>. QED  BY <1>1, <1>2, <1>3, <1>4, <1>5, <1>6, <1>7, <1>8, <1>9,
              <1>10, <1>11, <1>12, <1>13, <1>14, <1>15, <1>16, <1>17, <1>18
       DEF Next, Step, Event, User

-----------------------------------------------------------------------------
\* A fresh decoder has read nothing, decoded nothing and returned nothing.
LEMMA InitInv ==
    Init => IInv
<1>. SUFFICES ASSUME Init
              PROVE  IInv
    OBVIOUS
<1>. USE DecoderAssumption
<1>1. /\ readbuf = <<>> /\ work = <<>> /\ made = <<>> /\ buf = <<>>
      /\ held = <<>>
      /\ delivered = <<>> /\ Len(<<>>) = 0 /\ \A S : <<>> \in Seq(S)
    BY EmptySeq DEF Init
<1>2. TypeOK
    <2>1. /\ cat \in BOOLEAN /\ tell \in BOOLEAN /\ idle \in BOOLEAN
          /\ gap \in BOOLEAN /\ closed \in BOOLEAN /\ again \in BOOLEAN
          /\ xz \in BOOLEAN
        BY DEF Init
    <2>2. /\ file \in Files /\ Len(file) \in Nat /\ arrived \in 0 .. Len(file)
        BY LenProperties DEF Init
    <2>3. inpos \in 0 .. arrived /\ fed \in 0 .. Len(file) /\ decoded \in Nat
        BY <2>2 DEF Init
    <2>4. /\ taken \in 0 .. Len(readbuf) /\ Len(readbuf) <= BLOCKSIZE
          /\ Len(made) <= BLOCKSIZE
        BY <1>1 DEF Init
    <2>5. /\ want \in Nat \union {NoSize} /\ faults \in 0 .. MaxFaults
          /\ seq \in Phases
        BY DEF Init, Phases
    <2>6. /\ status = "ready" /\ phase = "head" /\ pc = "idle" /\ act = "RUN"
          /\ result = "none"
        BY DEF Init
    <2>. QED  BY <1>1, <2>1, <2>2, <2>3, <2>4, <2>5, <2>6 DEF TypeOK
<1>3. Control
    BY DEF Init, Control
<1>4. Parse
    BY DEF Init, Parse
<1>5. Input
    <2>1. /\ Len(readbuf) = 0 /\ inpos = 0 /\ fed = 0 /\ taken = 0
          /\ seq = "run" /\ ~again
        BY <1>1 DEF Init
    <2>. QED  BY <2>1 DEF Input
<1>6. Places
    BY <1>1, Nothing DEF Init, Places
<1>7. Ordered
    BY <1>1, Nothing DEF Ordered
<1>. QED  BY <1>2, <1>3, <1>4, <1>5, <1>6, <1>7 DEF IInv

\* No step of the decoder, of its program, of the writer of the file, and no
\* event takes the invariant away.
LEMMA NextInv ==
    IInv /\ [Next]_vars => IInv'
BY TypeStep, ControlStep, ParseStep, InputStep, PlacesStep, OrderedStep
   DEF IInv

\* The invariant holds in every behaviour.
THEOREM Inductive ==
    Spec => []IInv
BY InitInv, NextInv, PTL DEF Spec

\* Every variable keeps its type (TypeOK): the members of the Struct, the
\* lzma_stream and the call in progress.
THEOREM DecoderTypes ==
    Spec => []TypeOK
BY Inductive, PTL DEF IInv

\* No byte is returned twice or out of order (NoByteTwice), whatever
\* exceptions and closes cut the reads short, until input is fed a second time.
THEOREM NothingTwice ==
    Spec => []NoByteTwice
<1>1. IInv => NoByteTwice
    BY DEF IInv, Ordered, Rising, NoByteTwice
<1>. QED  BY Inductive, <1>1, PTL

\* Two parts of the plain data, one behind the other, make one.
LEMMA PlacedConcat ==
    ASSUME NEW s \in Seq(Nat), NEW t \in Seq(Nat), NEW n \in Nat,
           Placed(s, n), Placed(t, n + Len(s))
    PROVE  /\ s \o t \in Seq(Nat) /\ Len(s \o t) = Len(s) + Len(t)
           /\ Placed(s \o t, n)
<1>1. /\ s \o t \in Seq(Nat) /\ Len(s \o t) = Len(s) + Len(t)
      /\ \A i \in 1 .. Len(s) + Len(t) :
            (s \o t)[i] = IF i <= Len(s) THEN s[i] ELSE t[i - Len(s)]
    BY ConcatProperties
<1>2. Len(s) \in Nat /\ Len(t) \in Nat
    BY LenProperties
<1>3. ASSUME NEW i \in 1 .. Len(s) + Len(t)
      PROVE  (s \o t)[i] = n + i
    <2>1. CASE i <= Len(s)
        <3>1. i \in 1 .. Len(s) /\ s[i] = n + i
            BY <1>2, <2>1 DEF Placed
        <3>. QED  BY <1>1, <2>1, <3>1
    <2>2. CASE ~(i <= Len(s))
        <3>1. i - Len(s) \in 1 .. Len(t)
            BY <1>2, <2>2
        <3>2. t[i - Len(s)] = n + Len(s) + (i - Len(s))
            BY <3>1 DEF Placed
        <3>. QED  BY <1>1, <1>2, <2>2, <3>2
    <2>. QED  BY <2>1, <2>2
<1>. QED  BY <1>1, <1>3 DEF Placed

\* What was returned and what is under way are the bytes decoded so far, in
\* order (BytesInOrder), unless an exception or close threw bytes away or
\* input was fed a second time.
THEOREM BytesKeepOrder ==
    Spec => []BytesInOrder
<1>1. ASSUME IInv
      PROVE  BytesInOrder
    <2>. SUFFICES ASSUME ~gap, ~again
                  PROVE  delivered \o UnderWay = Span(0, decoded)
        BY DEF BytesInOrder
    <2>. DEFINE d == Len(delivered)
                a == buf \o work
                b == a \o made
                c == b \o held
    <2>1. /\ delivered \in Seq(Nat) /\ buf \in Seq(Nat) /\ work \in Seq(Nat)
          /\ made \in Seq(Nat) /\ held \in Seq(Nat) /\ decoded \in Nat
          /\ Len(delivered) \in Nat /\ Len(buf) \in Nat /\ Len(work) \in Nat
          /\ Len(made) \in Nat /\ Len(held) \in Nat
        BY <1>1, Lengths DEF IInv
    <2>2. UnderWay = c
        BY <1>1 DEF UnderWay, IInv, Control
    <2>3. /\ Placed(delivered, 0) /\ Placed(buf, d)
          /\ Placed(work, d + Len(buf))
          /\ Placed(made, d + Len(buf) + Len(work))
          /\ Placed(held, d + Len(buf) + Len(work) + Len(made))
          /\ decoded = d + Len(buf) + Len(work) + Len(made) + Len(held)
        BY <1>1 DEF IInv, Places
    <2>4. a \in Seq(Nat) /\ Len(a) = Len(buf) + Len(work) /\ Placed(a, d)
        BY <2>1, <2>3, PlacedConcat
    <2>5. Placed(made, d + Len(a))
        <3>1. d + Len(a) = d + Len(buf) + Len(work)
            BY <2>1, <2>4
        <3>. QED  BY <2>3, <3>1
    <2>. HIDE DEF a
    <2>6. b \in Seq(Nat) /\ Len(b) = Len(a) + Len(made) /\ Placed(b, d)
        BY <2>1, <2>4, <2>5, PlacedConcat
    <2>7. Placed(held, d + Len(b))
        <3>1. d + Len(b) = d + Len(buf) + Len(work) + Len(made)
            BY <2>1, <2>4, <2>6
        <3>. QED  BY <2>3, <3>1
    <2>. HIDE DEF b
    <2>8. c \in Seq(Nat) /\ Len(c) = Len(b) + Len(held) /\ Placed(c, d)
        BY <2>1, <2>6, <2>7, PlacedConcat
    <2>. HIDE DEF c
    <2>9. /\ delivered \o c \in Seq(Nat) /\ Len(delivered \o c) = d + Len(c)
          /\ Placed(delivered \o c, 0)
        <3>1. Placed(c, 0 + d)
            BY <2>1, <2>8
        <3>. QED  BY <2>1, <2>3, <2>8, <3>1, PlacedConcat
    <2>10. d + Len(c) = decoded
        BY <2>1, <2>3, <2>4, <2>6, <2>8
    <2>11. /\ Span(0, decoded) \in Seq(1 .. decoded)
           /\ Len(Span(0, decoded)) = decoded
           /\ \A i \in 1 .. decoded : Span(0, decoded)[i] = i
        <3>1. /\ Span(0, decoded) \in Seq(0 + 1 .. decoded)
              /\ Len(Span(0, decoded)) = decoded - 0
              /\ \A i \in 1 .. decoded - 0 : Span(0, decoded)[i] = 0 + i
            <4>1. 0 \in Nat /\ 0 <= decoded
                BY <2>1
            <4>. QED  BY <2>1, <4>1, SpanFacts
        <3>2. /\ 0 + 1 = 1 /\ decoded - 0 = decoded
              /\ \A i \in 1 .. decoded : 0 + i = i
            BY <2>1
        <3>. QED  BY <3>1, <3>2
    <2>12. \A i \in 1 .. decoded : (delivered \o c)[i] = Span(0, decoded)[i]
        <3>1. \A i \in 1 .. decoded : (delivered \o c)[i] = 0 + i
            BY <2>9, <2>10 DEF Placed
        <3>2. \A i \in 1 .. decoded : 0 + i = i
            BY <2>1
        <3>. QED  BY <2>11, <3>1, <3>2
    <2>13. delivered \o c = Span(0, decoded)
        <3>1. \A S, T : S \subseteq T => Seq(S) \subseteq Seq(T)
            BY SeqMonotonic
        <3>2. 1 .. decoded \subseteq Nat
            BY <2>1
        <3>3. Span(0, decoded) \in Seq(Nat)
            BY <2>11, <3>1, <3>2, Zenon
        <3>4. /\ delivered \o c \in Seq(Nat)
              /\ Len(delivered \o c) = Len(Span(0, decoded))
              /\ \A i \in 1 .. Len(delivered \o c) :
                     (delivered \o c)[i] = Span(0, decoded)[i]
            BY <2>9, <2>10, <2>11, <2>12
        <3>. QED  BY <3>3, <3>4, SeqEqual
    <2>. QED  BY <2>2, <2>13
<1>. QED  BY Inductive, <1>1, PTL

\* A short read is the end of a complete file, and every byte of it has been
\* returned (EndMeansComplete): not a truncated or damaged file, not one that
\* is still being written, not a file left half read by an exception, and not
\* an .xz file of which a part was fed twice.
THEOREM ShortReadIsEnd ==
    Spec => []EndMeansComplete
<1>1. ASSUME IInv
      PROVE  EndMeansComplete
    <2>. SUFFICES ASSUME result = "short", ~closed, xz \/ ~again
                  PROVE  /\ Complete(fed)
                         /\ ~gap /\ ~again =>
                               \A i \in 1 .. fed :
                                   file[i] \in Nat => file[i] <= Len(delivered)
                         /\ cat /\ faults = 0 => fed = inpos
        BY DEF EndMeansComplete
    <2>1. /\ status = "finished" /\ work = <<>> /\ pc = "idle" /\ seq = "end"
          /\ phase \in {"next", "done"} /\ buf = <<>> /\ made = <<>>
          /\ held = <<>>
          /\ taken = 0
        BY <1>1 DEF IInv, Control
    <2>2. /\ fed \in Nat /\ fed # 0 /\ file[1] = HEAD /\ file[fed] = TAIL
          /\ HEAD # TAIL
          /\ \A i \in 1 .. fed : file[i] # BAD
          /\ \A i \in 1 .. fed - 1 : /\ (file[i] = TAIL) = (file[i + 1] = HEAD)
                                     /\ file[i] = TAIL => cat
          /\ \A i \in 1 .. fed : file[i] \in Nat => file[i] <= decoded
        BY <1>1, <2>1, DecoderAssumption DEF IInv, Parse, TypeOK
    <2>3. fed >= 2
        BY <2>2
    <2>4. Complete(fed)
        BY <2>2, <2>3 DEF Complete
    <2>5. ASSUME ~gap, ~again
          PROVE  decoded = Len(delivered)
        <3>1. decoded = Len(delivered) + Len(buf) + Len(work) + Len(made)
                        + Len(held)
            BY <1>1, <2>5 DEF IInv, Places
        <3>2. Len(delivered) \in Nat /\ Len(<<>>) = 0
            BY <1>1, Lengths, Nothing DEF IInv
        <3>. QED  BY <2>1, <3>1, <3>2
    <2>6. ASSUME cat, faults = 0
          PROVE  fed = inpos
        <3>1. readbuf = <<>> /\ fed = inpos - Len(readbuf) + taken
            BY <1>1, <2>1, <2>6 DEF IInv, Input
        <3>2. Len(<<>>) = 0 /\ inpos \in Nat
            BY <1>1, Nothing DEF IInv, TypeOK
        <3>. QED  BY <2>1, <3>1, <3>2
    <2>. QED  BY <2>2, <2>4, <2>5, <2>6
<1>. QED  BY Inductive, <1>1, PTL
=============================================================================
