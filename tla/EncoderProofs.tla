---------------------------- MODULE EncoderProofs ----------------------------
(***************************************************************************)
(* Proofs about Encoder for every BLOCKSIZE, MaxUnits and MaxFaults, in    *)
(* this order: lemmas about sequences; the inductive invariant IInv of     *)
(* EncoderInv and what follows from it; that Encoder implements XzSink; by *)
(* an invariant on top of IInv, the two promises of LZMA.encode with a     *)
(* block (AuxEncode); by another one, PipeInv, what RoundTrip promises of  *)
(* a Decoder that reads from the pipe an Encoder writes to.                *)
(***************************************************************************)
EXTENDS EncoderInv, AuxEncode, RoundTrip, SequenceTheorems, TLAPS

-----------------------------------------------------------------------------
(* Moving elements between adjacent buffers.                               *)

\* Appending to the right part of a concatenation appends to the whole.
LEMMA ConcatAppend ==
    ASSUME NEW S, NEW s \in Seq(S), NEW t \in Seq(S), NEW x \in S
    PROVE  s \o Append(t, x) = Append(s \o t, x)
<1>. DEFINE l == s \o Append(t, x)
            r == Append(s \o t, x)
<1>1. /\ Append(t, x) \in Seq(S) /\ Len(Append(t, x)) = Len(t) + 1
      /\ \A i \in 1 .. Len(t) : Append(t, x)[i] = t[i]
      /\ Append(t, x)[Len(t) + 1] = x
    OBVIOUS
<1>2. /\ s \o t \in Seq(S) /\ Len(s \o t) = Len(s) + Len(t)
      /\ \A i \in 1 .. Len(s) + Len(t) :
            (s \o t)[i] = IF i <= Len(s) THEN s[i] ELSE t[i - Len(s)]
    BY ConcatProperties
<1>3. /\ l \in Seq(S) /\ Len(l) = Len(s) + Len(t) + 1
      /\ \A i \in 1 .. Len(s) + Len(t) + 1 :
            l[i] = IF i <= Len(s) THEN s[i] ELSE Append(t, x)[i - Len(s)]
    BY <1>1, ConcatProperties, LenProperties
<1>4. /\ r \in Seq(S) /\ Len(r) = Len(s) + Len(t) + 1
      /\ \A i \in 1 .. Len(s) + Len(t) : r[i] = (s \o t)[i]
      /\ r[Len(s) + Len(t) + 1] = x
    BY <1>2
<1>5. ASSUME NEW i \in 1 .. Len(l)
      PROVE  l[i] = r[i]
    BY <1>1, <1>2, <1>3, <1>4, LenProperties
<1>. HIDE DEF l, r
<1>6. l = r
    BY <1>3, <1>4, <1>5, SeqEqual
<1>. QED  BY <1>6 DEF l, r

\* Moving the first element of t to the end of s changes nothing as a whole.
LEMMA ConcatShift ==
    ASSUME NEW S, NEW s \in Seq(S), NEW t \in Seq(S), t # <<>>
    PROVE  Append(s, Head(t)) \o Tail(t) = s \o t
<1>. DEFINE l == Append(s, Head(t)) \o Tail(t)
            r == s \o t
<1>1. /\ Head(t) = t[1] /\ Head(t) \in S /\ Tail(t) \in Seq(S)
      /\ Len(Tail(t)) = Len(t) - 1
      /\ \A i \in 1 .. Len(Tail(t)) : Tail(t)[i] = t[i + 1]
    BY HeadTailProperties
<1>2. /\ Append(s, Head(t)) \in Seq(S)
      /\ Len(Append(s, Head(t))) = Len(s) + 1
      /\ \A i \in 1 .. Len(s) : Append(s, Head(t))[i] = s[i]
      /\ Append(s, Head(t))[Len(s) + 1] = t[1]
    BY <1>1
<1>3. /\ l \in Seq(S)
      /\ Len(l) = Len(s) + 1 + Len(Tail(t))
      /\ \A i \in 1 .. Len(s) + 1 + Len(Tail(t)) :
            l[i] = IF i <= Len(s) + 1 THEN Append(s, Head(t))[i]
                                      ELSE Tail(t)[i - (Len(s) + 1)]
    BY <1>1, <1>2, ConcatProperties
<1>4. /\ r \in Seq(S) /\ Len(r) = Len(s) + Len(t)
      /\ \A i \in 1 .. Len(s) + Len(t) :
            r[i] = IF i <= Len(s) THEN s[i] ELSE t[i - Len(s)]
    BY ConcatProperties
<1>5. Len(s) \in Nat /\ Len(t) \in Nat /\ Len(t) # 0
    BY LenProperties, EmptySeq
<1>. HIDE DEF l, r
<1>6. ASSUME NEW i \in 1 .. Len(r)
      PROVE  l[i] = r[i]
    <2>1. CASE i <= Len(s)
        <3>1. i \in 1 .. Len(s) /\ i \in 1 .. Len(s) + 1 + Len(Tail(t))
            BY <2>1, <1>1, <1>4, <1>5
        <3>2. l[i] = Append(s, Head(t))[i]
            BY <2>1, <3>1, <1>3, <1>5
        <3>3. r[i] = s[i]
            BY <2>1, <1>4, <1>5
        <3>. QED  BY <3>1, <3>2, <3>3, <1>2
    <2>2. CASE i = Len(s) + 1
        <3>0. Len(s) + 1 \in 1 .. Len(s) + 1 + Len(Tail(t))
            BY <1>1, <1>5
        <3>1. l[i] = Append(s, Head(t))[Len(s) + 1]
            BY <2>2, <3>0, <1>3, <1>5
        <3>2. r[i] = t[i - Len(s)] /\ i - Len(s) = 1
            BY <2>2, <1>4, <1>5
        <3>. QED  BY <3>1, <3>2, <1>2
    <2>3. CASE i > Len(s) + 1
        <3>1. i - (Len(s) + 1) \in 1 .. Len(Tail(t))
            BY <2>3, <1>1, <1>4, <1>5
        <3>2. l[i] = Tail(t)[i - (Len(s) + 1)]
            BY <2>3, <1>1, <1>3, <1>4, <1>5
        <3>3. Tail(t)[i - (Len(s) + 1)] = t[(i - (Len(s) + 1)) + 1]
            BY <3>1, <1>1
        <3>4. (i - (Len(s) + 1)) + 1 = i - Len(s)
            BY <1>5
        <3>5. r[i] = t[i - Len(s)]
            BY <2>3, <1>4, <1>5
        <3>. QED  BY <3>2, <3>3, <3>4, <3>5
    <2>. QED  BY <2>1, <2>2, <2>3, <1>4, <1>5
<1>7. Len(l) = Len(r)
    BY <1>1, <1>3, <1>4, <1>5
<1>8. l = r
    BY <1>3, <1>4, <1>6, <1>7, SeqEqual
<1>. QED  BY <1>8 DEF l, r

\* The rest of a sequence from an index on, in the form the proofs need it.
LEMMA SubSeqSuffix ==
    ASSUME NEW S, NEW s \in Seq(S), NEW k \in 0 .. Len(s)
    PROVE  /\ SubSeq(s, k + 1, Len(s)) \in Seq(S)
           /\ Len(SubSeq(s, k + 1, Len(s))) = Len(s) - k
           /\ \A i \in 1 .. Len(s) - k :
                 SubSeq(s, k + 1, Len(s))[i] = s[k + i]
<1>1. Len(s) \in Nat /\ k + 1 \in Int /\ Len(s) \in Int
    BY LenProperties
<1>2. \A i \in k + 1 .. Len(s) : s[i] \in S
    BY <1>1, ElementOfSeq
<1>. DEFINE u == SubSeq(s, k + 1, Len(s))
<1>3. /\ u \in Seq(S)
      /\ Len(u) = IF k + 1 <= Len(s) THEN Len(s) - (k + 1) + 1 ELSE 0
      /\ \A i \in 1 .. Len(s) - (k + 1) + 1 : u[i] = s[(k + 1) + i - 1]
    BY <1>1, <1>2, SubSeqProperties
<1>. QED  BY <1>1, <1>3

\* The first elements of a sequence.
LEMMA SubSeqPrefix ==
    ASSUME NEW S, NEW s \in Seq(S), NEW k \in 0 .. Len(s)
    PROVE  /\ SubSeq(s, 1, k) \in Seq(S)
           /\ Len(SubSeq(s, 1, k)) = k
           /\ \A i \in 1 .. k : SubSeq(s, 1, k)[i] = s[i]
<1>1. Len(s) \in Nat /\ k \in Int
    BY LenProperties
<1>2. \A i \in 1 .. k : s[i] \in S
    BY <1>1, ElementOfSeq
<1>. DEFINE u == SubSeq(s, 1, k)
<1>3. /\ u \in Seq(S)
      /\ Len(u) = IF 1 <= k THEN k - 1 + 1 ELSE 0
      /\ \A i \in 1 .. k - 1 + 1 : u[i] = s[1 + i - 1]
    BY <1>1, <1>2, SubSeqProperties
<1>. QED  BY <1>1, <1>3

\* Cutting the end of the middle of three buffers moves every remaining
\* element towards the front and keeps the last one last.
LEMMA CutMiddle ==
    ASSUME NEW S, NEW a \in Seq(S), NEW b \in Seq(S), NEW c \in Seq(S),
           NEW j \in 0 .. Len(b)
    PROVE  LET v == (a \o SubSeq(b, 1, j)) \o c
               w == (a \o b) \o c
           IN  /\ v \in Seq(S)
               /\ \A i \in 1 .. Len(v) :
                     \E k \in i .. Len(w) :
                         v[i] = w[k] /\ (k = Len(w) => i = Len(v))
<1>. DEFINE p == SubSeq(b, 1, j)
            v == (a \o p) \o c
            w == (a \o b) \o c
<1>1. /\ p \in Seq(S) /\ Len(p) = j /\ \A i \in 1 .. j : p[i] = b[i]
    BY SubSeqPrefix
<1>2. Len(a) \in Nat /\ Len(b) \in Nat /\ Len(c) \in Nat /\ j \in Nat
    BY LenProperties
<1>. HIDE DEF p
<1>3. /\ a \o b \in Seq(S) /\ Len(a \o b) = Len(a) + Len(b)
      /\ \A i \in 1 .. Len(a) + Len(b) :
            (a \o b)[i] = IF i <= Len(a) THEN a[i] ELSE b[i - Len(a)]
    BY ConcatProperties
<1>4. /\ a \o p \in Seq(S) /\ Len(a \o p) = Len(a) + j
      /\ \A i \in 1 .. Len(a) + j :
            (a \o p)[i] = IF i <= Len(a) THEN a[i] ELSE p[i - Len(a)]
    BY <1>1, ConcatProperties
<1>5. /\ w \in Seq(S) /\ Len(w) = Len(a) + Len(b) + Len(c)
      /\ \A i \in 1 .. Len(w) :
            w[i] = IF i <= Len(a) + Len(b) THEN (a \o b)[i]
                                           ELSE c[i - (Len(a) + Len(b))]
    <2>1. LET x == a \o b
          IN  /\ x \o c \in Seq(S) /\ Len(x \o c) = Len(x) + Len(c)
              /\ \A i \in 1 .. Len(x) + Len(c) :
                    (x \o c)[i] = IF i <= Len(x) THEN x[i] ELSE c[i - Len(x)]
        BY <1>3, ConcatProperties
    <2>. QED  BY <2>1, <1>3
<1>6. /\ v \in Seq(S) /\ Len(v) = Len(a) + j + Len(c)
      /\ \A i \in 1 .. Len(v) :
            v[i] = IF i <= Len(a) + j THEN (a \o p)[i]
                                      ELSE c[i - (Len(a) + j)]
    <2>1. LET x == a \o p
          IN  /\ x \o c \in Seq(S) /\ Len(x \o c) = Len(x) + Len(c)
              /\ \A i \in 1 .. Len(x) + Len(c) :
                    (x \o c)[i] = IF i <= Len(x) THEN x[i] ELSE c[i - Len(x)]
        BY <1>4, ConcatProperties
    <2>. QED  BY <2>1, <1>4
<1>. HIDE DEF v, w
<1>7. ASSUME NEW i \in 1 .. Len(v)
      PROVE  \E k \in i .. Len(w) :
                 v[i] = w[k] /\ (k = Len(w) => i = Len(v))
    <2>1. CASE i <= Len(a) + j
        <3>1. (a \o p)[i] = (a \o b)[i]
            BY <2>1, <1>1, <1>2, <1>3, <1>4
        <3>2. i \in i .. Len(w) /\ i \in 1 .. Len(w)
              /\ i <= Len(a) + Len(b)
            BY <2>1, <1>2, <1>5, <1>6
        <3>3. w[i] = (a \o b)[i]
            BY <3>2, <1>5
        <3>4. v[i] = (a \o p)[i]
            BY <2>1, <1>6
        <3>5. i = Len(w) => i = Len(v)
            BY <2>1, <1>2, <1>5, <1>6
        <3>. QED  BY <3>1, <3>2, <3>3, <3>4, <3>5
    <2>2. CASE i > Len(a) + j
        <3>. DEFINE k == i + (Len(b) - j)
        <3>1. k \in i .. Len(w) /\ k \in 1 .. Len(w)
              /\ ~(k <= Len(a) + Len(b))
            BY <2>2, <1>2, <1>5, <1>6
        <3>2. k - (Len(a) + Len(b)) = i - (Len(a) + j)
            BY <1>2, <1>6
        <3>3. k = Len(w) => i = Len(v)
            BY <1>2, <1>5, <1>6
        <3>. HIDE DEF k
        <3>4. w[k] = c[k - (Len(a) + Len(b))]
            BY <3>1, <1>5
        <3>5. v[i] = c[i - (Len(a) + j)]
            BY <2>2, <1>2, <1>6
        <3>. QED  BY <3>1, <3>2, <3>3, <3>4, <3>5
    <2>. QED  BY <2>1, <2>2, <1>2, <1>6
<1>. QED  BY <1>6, <1>7 DEF p, v, w

\* The front of a concatenation is an initial part of it, also when only
\* part of the second buffer went along.
LEMMA FrontOfConcat ==
    ASSUME NEW S, NEW a \in Seq(S), NEW b \in Seq(S), NEW c \in Seq(S),
           NEW j \in 0 .. Len(b)
    PROVE  LET v == a \o SubSeq(b, 1, j)
               w == (a \o b) \o c
           IN  /\ v \in Seq(S) /\ w \in Seq(S) /\ Len(v) <= Len(w)
               /\ \A i \in 1 .. Len(v) : v[i] = w[i]
<1>. DEFINE p == SubSeq(b, 1, j)
            v == a \o p
            w == (a \o b) \o c
<1>1. /\ p \in Seq(S) /\ Len(p) = j /\ \A i \in 1 .. j : p[i] = b[i]
    BY SubSeqPrefix
<1>2. Len(a) \in Nat /\ Len(b) \in Nat /\ Len(c) \in Nat /\ j \in Nat
    BY LenProperties
<1>. HIDE DEF p
<1>3. /\ a \o b \in Seq(S) /\ Len(a \o b) = Len(a) + Len(b)
      /\ \A i \in 1 .. Len(a) + Len(b) :
            (a \o b)[i] = IF i <= Len(a) THEN a[i] ELSE b[i - Len(a)]
    BY ConcatProperties
<1>4. /\ v \in Seq(S) /\ Len(v) = Len(a) + j
      /\ \A i \in 1 .. Len(a) + j :
            v[i] = IF i <= Len(a) THEN a[i] ELSE p[i - Len(a)]
    BY <1>1, ConcatProperties
<1>5. /\ w \in Seq(S) /\ Len(w) = Len(a) + Len(b) + Len(c)
      /\ \A i \in 1 .. Len(w) :
            w[i] = IF i <= Len(a) + Len(b) THEN (a \o b)[i]
                                           ELSE c[i - (Len(a) + Len(b))]
    <2>1. LET x == a \o b
          IN  /\ x \o c \in Seq(S) /\ Len(x \o c) = Len(x) + Len(c)
              /\ \A i \in 1 .. Len(x) + Len(c) :
                    (x \o c)[i] = IF i <= Len(x) THEN x[i] ELSE c[i - Len(x)]
        BY <1>3, ConcatProperties
    <2>. QED  BY <2>1, <1>3
<1>. HIDE DEF v, w
<1>6. ASSUME NEW i \in 1 .. Len(v)
      PROVE  v[i] = w[i]
    <2>1. i \in 1 .. Len(w) /\ i <= Len(a) + Len(b)
          /\ i \in 1 .. Len(a) + Len(b)
        BY <1>2, <1>4, <1>5
    <2>2. w[i] = (a \o b)[i]
        BY <2>1, <1>5
    <2>3. (a \o b)[i] = v[i]
        <3>1. CASE i <= Len(a)
            BY <3>1, <2>1, <1>2, <1>3, <1>4
        <3>2. CASE ~(i <= Len(a))
            <4>1. i - Len(a) \in 1 .. j
                BY <3>2, <1>2, <1>4
            <4>2. v[i] = p[i - Len(a)]
                BY <3>2, <1>4
            <4>3. (a \o b)[i] = b[i - Len(a)]
                BY <3>2, <2>1, <1>3
            <4>. QED  BY <4>1, <4>2, <4>3, <1>1
        <3>. QED  BY <3>1, <3>2
    <2>. QED  BY <2>2, <2>3
<1>7. Len(v) <= Len(w)
    BY <1>2, <1>4, <1>5
<1>. QED  BY <1>4, <1>5, <1>6, <1>7 DEF p, v, w

-----------------------------------------------------------------------------
(* The data of the model.                                                  *)

\* The bytes of one write form a sequence.
LEMMA Consecutive ==
    ASSUME NEW m \in Nat, NEW k \in Nat
    PROVE  /\ [i \in 1 .. k |-> m + i] \in Seq(Nat)
           /\ Len([i \in 1 .. k |-> m + i]) = k
<1>1. \A i \in 1 .. k : m + i \in Nat
    OBVIOUS
<1>. QED  BY <1>1

\* A stream before FINISH, its continuation and its end.
LEMMA OpenedAndFrame ==
    ASSUME NEW n \in Nat
    PROVE  /\ Opened(n) \in Seq(Token) /\ Len(Opened(n)) = n + 1
           /\ Frame(n) \in Seq(Token) /\ Len(Frame(n)) = n + 2
           /\ \A i \in 1 .. n + 1 :
                 Opened(n)[i] = Frame(n)[i]
<1>1. \A i \in 1 .. n + 1 : (IF i = 1 THEN HEAD ELSE i - 1) \in Token
    BY DEF Token
<1>2. \A i \in 1 .. n + 2 : (CASE i = 1     -> HEAD
                                [] i = n + 2 -> TAIL
                                [] OTHER     -> i - 1) \in Token
    BY DEF Token
<1>3. Opened(n) \in Seq(Token) /\ Len(Opened(n)) = n + 1
    BY <1>1 DEF Opened
<1>4. Frame(n) \in Seq(Token) /\ Len(Frame(n)) = n + 2
    BY <1>2 DEF Frame
<1>5. ASSUME NEW i \in 1 .. n + 1
      PROVE  Opened(n)[i] = Frame(n)[i]
    BY DEF Opened, Frame
<1>. QED  BY <1>3, <1>4, <1>5

\* Consuming byte n appends it to a stream that is still open; the trailer
\* makes a frame of it.
LEMMA OpenedGrows ==
    ASSUME NEW n \in Nat
    PROVE  /\ Append(Opened(n), n + 1) = Opened(n + 1)
           /\ Append(Opened(n), TAIL) = Frame(n)
<1>1. /\ Opened(n) \in Seq(Token) /\ Len(Opened(n)) = n + 1
      /\ Opened(n + 1) \in Seq(Token) /\ Len(Opened(n + 1)) = n + 2
      /\ Frame(n) \in Seq(Token) /\ Len(Frame(n)) = n + 2
    <2>1. n + 1 \in Nat /\ n + 1 + 1 = n + 2
        OBVIOUS
    <2>. QED  BY <2>1, OpenedAndFrame
<1>2. TAIL \in Token /\ n + 1 \in Token
    BY DEF Token
<1>3. \A x \in Token :
          /\ Append(Opened(n), x) \in Seq(Token)
          /\ Len(Append(Opened(n), x)) = n + 2
          /\ \A i \in 1 .. n + 1 : Append(Opened(n), x)[i] = Opened(n)[i]
          /\ Append(Opened(n), x)[n + 2] = x
    BY <1>1
<1>4. ASSUME NEW i \in 1 .. n + 2
      PROVE  Append(Opened(n), n + 1)[i] = Opened(n + 1)[i]
    BY <1>2, <1>3 DEF Opened
<1>5. ASSUME NEW i \in 1 .. n + 2
      PROVE  Append(Opened(n), TAIL)[i] = Frame(n)[i]
    BY <1>2, <1>3 DEF Opened, Frame
<1>6. Append(Opened(n), n + 1) = Opened(n + 1)
    BY <1>1, <1>2, <1>3, <1>4, SeqEqual
<1>7. Append(Opened(n), TAIL) = Frame(n)
    BY <1>1, <1>2, <1>3, <1>5, SeqEqual
<1>. QED  BY <1>6, <1>7

\* The stream of more data starts like the stream of less.
LEMMA FrameInitial ==
    ASSUME NEW n \in Nat, NEW m \in Nat, n <= m
    PROVE  IsInitialPart(Opened(n), Frame(m))
<1>1. Len(Opened(n)) = n + 1 /\ Len(Frame(m)) = m + 2
    BY OpenedAndFrame
<1>2. ASSUME NEW i \in 1 .. n + 1
      PROVE  Opened(n)[i] = Frame(m)[i]
    BY DEF Opened, Frame
<1>. QED  BY <1>1, <1>2 DEF IsInitialPart

\* What lzma_code leaves behind is a sequence and a status.
LEMMA LeftTypes ==
    ASSUME NEW s \in Phases, NEW r \in Statuses
    PROVE  /\ Left(s, r) \in Phases
           /\ Refusal(s) \in Statuses
           /\ s # "run" => Left(s, r) # "run"
           /\ r = "OK" => Left(s, r) = s
           /\ r = "STREAM_END" => Left(s, r) = "end"
           /\ r = "MEM_ERROR" => Left(s, r) = "error"
BY DEF Left, Refusal, Fatal, Phases, Statuses

-----------------------------------------------------------------------------
(* Types and control flow.                                                 *)

\* One step keeps the types ...
LEMMA TypeStep == TypeOK /\ Control /\ [Next]_vars => TypeOK'
<1>. SUFFICES ASSUME TypeOK, Control, [Next]_vars
              PROVE  TypeOK'
    OBVIOUS
<1>. USE EncoderAssumption
<1>1. CASE WriteDone
    BY <1>1
       DEF TypeOK, Control, Token, Phases, Statuses, WriteDone, EndCall,
           rubyVars, lzmaVars, callVars, userVars, histVars
<1>2. CASE DrainDone
    BY <1>2
       DEF TypeOK, Control, Token, Phases, Statuses, DrainDone, rubyVars,
           lzmaVars, callVars, userVars, histVars
<1>3. CASE CodeRun
    BY <1>3
       DEF TypeOK, Control, Token, Phases, Statuses, CodeRun, Admits, Entered,
           rubyVars, lzmaVars, callVars, userVars, histVars
<1>4. CASE CodeRunRefused
    BY <1>4
       DEF TypeOK, Control, Token, Phases, Statuses, CodeRunRefused, EndCall,
           Refusal, Admits, rubyVars, lzmaVars, callVars, userVars, histVars
<1>5. CASE CodeFinish
    <2>1. held' \in Seq(Token)
        <3>1. TAIL \in Token /\ held \in Seq(Token)
            BY DEF Token, TypeOK
        <3>2. Append(held, TAIL) \in Seq(Token)
            BY <3>1
        <3>3. held' = held \/ held' = Append(held, TAIL)
            BY <1>5 DEF CodeFinish, lzmaVars
        <3>. QED  BY <3>1, <3>2, <3>3
    <2>2. ret' \in Statuses
        BY <1>5, LeftTypes DEF TypeOK, CodeFinish
    <2>3. seq' \in Phases
        BY <1>5 DEF TypeOK, CodeFinish, Entered, Phases, lzmaVars
    <2>. QED  BY <1>5, <2>1, <2>2, <2>3
       DEF TypeOK, CodeFinish, userVars, histVars
<1>6. CASE Emit
    BY <1>6
       DEF TypeOK, Control, Token, Phases, Statuses, Emit, EndCall, rubyVars,
           lzmaVars, callVars, userVars, histVars
<1>7. CASE Mark
    BY <1>7
       DEF TypeOK, Control, Token, Phases, Statuses, Mark, EndCall, rubyVars,
           lzmaVars, callVars, userVars, histVars
<1>8. CASE Consume
    BY <1>8
       DEF TypeOK, Control, Token, Phases, Statuses, Consume, rubyVars,
           lzmaVars, callVars, userVars, histVars
<1>9. CASE Produce
    BY <1>9
       DEF TypeOK, Control, Token, Phases, Statuses, Produce, rubyVars,
           lzmaVars, callVars, userVars, histVars
<1>10. CASE CodeReturn
    <2>1. ret' \in Statuses /\ seq' \in Phases
        BY <1>10, LeftTypes DEF TypeOK, CodeReturn, Statuses
    <2>2. writebuf' \in Seq(Nat) /\ Len(writebuf') \in Nat
        BY <1>10, SubSeqSuffix, LenProperties DEF TypeOK, CodeReturn
    <2>. QED  BY <1>10, <2>1, <2>2
       DEF TypeOK, Control, Token, Phases, Statuses, CodeReturn, userVars,
           histVars
<1>11. CASE CodeFails
    <2>1. ret' \in Statuses /\ seq' \in Phases
        BY <1>11, LeftTypes DEF TypeOK, CodeFails, Statuses
    <2>2. writebuf' \in Seq(Nat) /\ Len(writebuf') \in Nat
        BY <1>11, SubSeqSuffix, LenProperties DEF TypeOK, CodeFails
    <2>3. /\ op' \in {"none", "write", "close", "finalize"}
          /\ pc' \in {"idle", "run", "finish", "coding", "emit", "mark"}
          /\ reach' \in {"held", "dropped", "gone"}
          /\ result' \in {"none", "ok", "raised"}
          /\ batch' \in Nat /\ accepted' \in Nat /\ finalFailed' \in BOOLEAN
        <3>1. CASE act = "RUN"
            BY <3>1, <1>11 DEF TypeOK, CodeFails, EndCall
        <3>2. CASE act # "RUN"
            BY <3>2, <1>11 DEF TypeOK, CodeFails, userVars
        <3>. QED  BY <3>1, <3>2
    <2>4. faults' \in 0 .. MaxFaults
        BY <1>11 DEF TypeOK, CodeFails, Fault
    <2>5. workbuf' \in Seq(Token) /\ made' \in Seq(Token) /\ Len(made') = 0
        BY <1>11 DEF TypeOK, CodeFails
    <2>. QED  BY <1>11, <2>1, <2>2, <2>3, <2>4, <2>5 DEF TypeOK, CodeFails
<1>12. CASE CodeAborted
    BY <1>12
       DEF TypeOK, Control, Token, Phases, Statuses, CodeAborted, Fault,
           EndCall, CoderDone, Left, Fatal, rubyVars, lzmaVars, callVars,
           userVars, histVars
<1>13. CASE EmitFails
    BY <1>13
       DEF TypeOK, Control, Token, Phases, Statuses, EmitFails, Fault, EndCall,
           rubyVars, lzmaVars, callVars, userVars, histVars
<1>14. CASE Interrupted
    BY <1>14
       DEF TypeOK, Control, Token, Phases, Statuses, Interrupted, Fault,
           EndCall, rubyVars, lzmaVars, callVars, userVars, histVars
<1>15. CASE Close
    BY <1>15
       DEF TypeOK, Control, Token, Phases, Statuses, Close, rubyVars, lzmaVars,
           callVars, userVars, histVars
<1>16. CASE Drop
    BY <1>16
       DEF TypeOK, Control, Token, Phases, Statuses, Drop, rubyVars, lzmaVars,
           callVars, userVars, histVars
<1>17. CASE Finalize
    BY <1>17
       DEF TypeOK, Control, Token, Phases, Statuses, Finalize, rubyVars,
           lzmaVars, callVars, userVars, histVars
<1>18. CASE \E k \in 0 .. MaxUnits : Write(k)
    <2>1. PICK k \in 0 .. MaxUnits : Write(k)
        BY <1>18
    <2>2. writebuf' \in Seq(Nat) /\ Len(writebuf') = k
        BY <2>1, Consecutive DEF Write, TypeOK
    <2>. QED
        BY <2>1, <2>2
        DEF TypeOK, Control, Token, Phases, Statuses, Write, lzmaVars, histVars
<1>19. CASE UNCHANGED vars
    BY <1>19
       DEF TypeOK, Control, Token, Phases, Statuses, vars, rubyVars, lzmaVars,
           callVars, userVars, histVars
<1>. QED
    BY <1>1, <1>2, <1>3, <1>4, <1>5, <1>6, <1>7, <1>8, <1>9, <1>10,
       <1>11, <1>12, <1>13, <1>14, <1>15, <1>16, <1>17, <1>18, <1>19
       DEF Next, Step, Event, User

\* ... and what control flow guarantees.
LEMMA ControlStep == TypeOK /\ Control /\ [Next]_vars => Control'
<1>. SUFFICES ASSUME TypeOK, Control, [Next]_vars
              PROVE  Control'
    OBVIOUS
<1>. USE EncoderAssumption
<1>1. CASE WriteDone
    BY <1>1
       DEF Control, TypeOK, WriteDone, EndCall, rubyVars, lzmaVars, callVars,
           userVars, histVars
<1>2. CASE DrainDone
    BY <1>2
       DEF Control, TypeOK, DrainDone, rubyVars, lzmaVars, callVars, userVars,
           histVars
<1>3. CASE CodeRun
    BY <1>3
       DEF Control, TypeOK, CodeRun, Admits, Entered, rubyVars, lzmaVars,
           callVars, userVars, histVars
<1>4. CASE CodeRunRefused
    BY <1>4
       DEF Control, TypeOK, CodeRunRefused, EndCall, Refusal, Admits, rubyVars,
           lzmaVars, callVars, userVars, histVars
<1>5. CASE CodeFinish
    BY <1>5
       DEF Control, TypeOK, CodeFinish, Admits, Entered, Refusal, rubyVars,
           lzmaVars, callVars, userVars, histVars
<1>6. CASE Emit
    <2>1. CASE act = "RUN"
        <3>1. pc' = "run"
            BY <1>6, <2>1 DEF Emit
        <3>3. UNCHANGED <<op, reach, batch, finalFailed>>
            BY <1>6, <2>1 DEF Emit, userVars
        <3>2. seq = "run" /\ op \in {"write", "finalize"} /\ status
            BY <1>6, <2>1 DEF Control, Emit, TypeOK
        <3>. QED  BY <1>6, <2>1, <3>1, <3>2, <3>3
                  DEF Control, TypeOK, Emit, lzmaVars
    <2>2. CASE act = "FINISH"
        BY <1>6, <2>2
           DEF Control, TypeOK, Emit, EndCall, userVars, histVars, lzmaVars
    <2>. QED  BY <2>1, <2>2 DEF TypeOK
<1>7. CASE Mark
    BY <1>7
       DEF Control, TypeOK, Mark, EndCall, rubyVars, lzmaVars, callVars,
           userVars, histVars
<1>8. CASE Consume
    BY <1>8
       DEF Control, TypeOK, Consume, rubyVars, lzmaVars, callVars, userVars,
           histVars
<1>9. CASE Produce
    BY <1>9
       DEF Control, TypeOK, Produce, rubyVars, lzmaVars, callVars, userVars,
           histVars
<1>10. CASE CodeReturn
    BY <1>10
       DEF Control, TypeOK, CodeReturn, CoderDone, Left, Fatal, rubyVars,
           lzmaVars, callVars, userVars, histVars
<1>11. CASE CodeFails
    BY <1>11
       DEF Control, TypeOK, CodeFails, Fault, EndCall, Left, Fatal, rubyVars,
           lzmaVars, callVars, userVars, histVars
<1>12. CASE CodeAborted
    BY <1>12
       DEF Control, TypeOK, CodeAborted, Fault, EndCall, CoderDone, Left,
           Fatal, rubyVars, lzmaVars, callVars, userVars, histVars
<1>13. CASE EmitFails
    BY <1>13
       DEF Control, TypeOK, EmitFails, Fault, EndCall, rubyVars, lzmaVars,
           callVars, userVars, histVars
<1>14. CASE Interrupted
    BY <1>14
       DEF Control, TypeOK, Interrupted, Fault, EndCall, rubyVars, lzmaVars,
           callVars, userVars, histVars
<1>15. CASE Close
    BY <1>15
       DEF Control, TypeOK, Close, rubyVars, lzmaVars, callVars, userVars,
           histVars
<1>16. CASE Drop
    BY <1>16
       DEF Control, TypeOK, Drop, rubyVars, lzmaVars, callVars, userVars,
           histVars
<1>17. CASE Finalize
    BY <1>17
       DEF Control, TypeOK, Finalize, rubyVars, lzmaVars, callVars, userVars,
           histVars
<1>18. CASE \E k \in 0 .. MaxUnits : Write(k)
    <2>1. PICK k \in 0 .. MaxUnits : Write(k)
        BY <1>18
    <2>2. writebuf' \in Seq(Nat) /\ Len(writebuf') = k
        BY <2>1, Consecutive DEF Write, TypeOK
    <2>. QED
        BY <2>1, <2>2
        DEF Control, TypeOK, Write, lzmaVars, histVars
<1>19. CASE UNCHANGED vars
    BY <1>19
       DEF Control, TypeOK, vars, rubyVars, lzmaVars, callVars, userVars,
           histVars
<1>. QED
    BY <1>1, <1>2, <1>3, <1>4, <1>5, <1>6, <1>7, <1>8, <1>9, <1>10,
       <1>11, <1>12, <1>13, <1>14, <1>15, <1>16, <1>17, <1>18, <1>19
       DEF Next, Step, Event, User

-----------------------------------------------------------------------------
(* What one step does to everything the compressor has put out.            *)

\* What was put out, and what is owed, are sequences of tokens.
LEMMA WholeTypes ==
    ASSUME TypeOK
    PROVE  /\ Undelivered \in Seq(Token) /\ outport \o Undelivered \in Seq(Token)
           /\ Whole \in Seq(Token)
<1>1. Undelivered \in Seq(Token)
    BY EmptySeq DEF Undelivered, TypeOK
<1>. QED  BY <1>1, ConcatProperties DEF Whole, TypeOK

\* FINISH was never sent and is not taken back.
LEMMA SeqStep == TypeOK /\ Control /\ [Next]_vars => (seq' = "run" => seq = "run")
<1>. SUFFICES ASSUME TypeOK, Control, [Next]_vars, seq # "run"
              PROVE  seq' # "run"
    OBVIOUS
<1>1. CASE CodeReturn \/ CodeFails \/ CodeAborted
    BY <1>1, LeftTypes DEF TypeOK, CodeReturn, CodeFails, CodeAborted, Statuses
<1>. QED
    BY <1>1 DEF Next, Step, Event, User, vars, lzmaVars, Write, Entered,
       WriteDone, DrainDone, CodeRun, CodeRunRefused, CodeFinish, Emit, Mark,
       Consume, Produce, EmitFails, Interrupted, Close, Drop, Finalize

\* Output lost on its way: the part of Undelivered after position j.
Lost(j) == /\ outport' = outport \o SubSeq(Undelivered, 1, j)
           /\ Whole' = (outport \o SubSeq(Undelivered, 1, j)) \o held

\* The steps that keep the whole as it is.
Keeps == \/ WriteDone \/ DrainDone \/ CodeRun \/ CodeRunRefused \/ Emit \/ Mark
         \/ Produce \/ CodeReturn \/ Interrupted \/ Close \/ Drop \/ Finalize
         \/ CodeFinish /\ seq # "run"
         \/ CodeFails /\ act = "FINISH"
         \/ \E k \in 0 .. MaxUnits : Write(k)
         \/ UNCHANGED vars

\* Every step keeps the whole as it is, extends it by one token, or loses the
\* end of what was under way to the receiver.
WholeMoves ==
    /\ Keeps => Whole' = Whole
    /\ Consume => Whole' = Append(Whole, writebuf[taken + 1])
    /\ CodeFinish /\ seq = "run" => Whole' = Append(Whole, TAIL)
    /\ CodeAborted \/ EmitFails \/ (CodeFails /\ act = "RUN") =>
           \E j \in 0 .. Len(Undelivered) : Lost(j)

\* A step keeps the whole, appends one token to it, or loses the end of the
\* output that was not delivered yet.
LEMMA WholeStep ==
    ASSUME TypeOK, Control
    PROVE  WholeMoves
<1>. USE EncoderAssumption
<1>. DEFINE Quiet == /\ UNCHANGED <<outport, held>>
                     /\ Undelivered' = Undelivered
<1>q. Quiet => Whole' = Whole
    BY DEF Whole
<1>a. /\ outport \in Seq(Token) /\ held \in Seq(Token) /\ made \in Seq(Token)
      /\ workbuf \in Seq(Token)
    BY DEF TypeOK
<1>b. /\ Undelivered \in Seq(Token) /\ Len(Undelivered) \in Nat
      /\ SubSeq(Undelivered, 1, 0) = <<>> /\ outport \o <<>> = outport
    BY <1>a, WholeTypes, LenProperties, SubSeqEmpty, ConcatEmptySeq
<1>1. ASSUME WriteDone \/ DrainDone \/ CodeRun \/ CodeRunRefused
      PROVE  Whole' = Whole
    <2>1. Quiet
        BY <1>1 DEF Control, TypeOK, Undelivered, WriteDone, DrainDone,
           CodeRun, CodeRunRefused, EndCall, rubyVars, lzmaVars
    <2>. QED  BY <2>1, <1>q
<1>2. ASSUME Mark \/ Interrupted \/ Close \/ Drop \/ Finalize
      PROVE  Whole' = Whole
    <2>1. Quiet
        BY <1>2 DEF Control, TypeOK, Undelivered, Mark, Interrupted, Close,
           Drop, Finalize, EndCall, rubyVars, lzmaVars, callVars
    <2>. QED  BY <2>1, <1>q
<1>3. ASSUME CodeReturn \/ (CodeFails /\ act = "FINISH")
      PROVE  Whole' = Whole
    <2>1. Quiet
        BY <1>3 DEF Undelivered, CodeReturn, CodeFails
    <2>. QED  BY <2>1, <1>q
<1>4. ASSUME \E k \in 0 .. MaxUnits : Write(k)
      PROVE  Whole' = Whole
    <2>1. Quiet
        BY <1>4 DEF Undelivered, Write, lzmaVars
    <2>. QED  BY <2>1, <1>q
<1>5. ASSUME UNCHANGED vars
      PROVE  Whole' = Whole
    <2>1. Quiet
        BY <1>5 DEF Undelivered, vars, rubyVars, lzmaVars, callVars
    <2>. QED  BY <2>1, <1>q
<1>6. ASSUME CodeFinish
      PROVE  /\ seq # "run" => Whole' = Whole
             /\ seq = "run" => Whole' = Append(Whole, TAIL)
    <2>1. UNCHANGED outport /\ Undelivered' = <<>> /\ Undelivered = <<>>
        BY <1>6 DEF CodeFinish, Control, Undelivered
    <2>2. ASSUME seq = "run"
          PROVE  Whole' = Append(Whole, TAIL)
        <3>1. held' = Append(held, TAIL) /\ TAIL \in Token
            BY <1>6, <2>2 DEF CodeFinish, Admits, Token
        <3>. QED  BY <2>1, <3>1, <1>a, WholeTypes, ConcatAppend DEF Whole
    <2>3. ASSUME seq # "run"
          PROVE  Whole' = Whole
        BY <1>q, <1>6, <2>1, <2>3 DEF CodeFinish, lzmaVars
    <2>. QED  BY <2>2, <2>3
<1>7. ASSUME Emit
      PROVE  Whole' = Whole
    <2>1. /\ outport' = outport \o workbuf /\ UNCHANGED held
          /\ Undelivered = workbuf
        BY <1>7 DEF Emit, Undelivered, lzmaVars
    <2>2. Undelivered' = <<>>
        BY <1>7 DEF Emit, EndCall, Undelivered
    <2>3. (outport \o workbuf) \o <<>> = outport \o workbuf
        BY <1>a, ConcatProperties, ConcatEmptySeq
    <2>. QED  BY <2>1, <2>2, <2>3 DEF Whole
<1>8. ASSUME Consume
      PROVE  Whole' = Append(Whole, writebuf[taken + 1])
    <2>1. /\ UNCHANGED outport /\ Undelivered' = Undelivered
          /\ held' = Append(held, writebuf[taken + 1])
        BY <1>8 DEF Consume, Undelivered, rubyVars
    <2>2. writebuf[taken + 1] \in Token
        BY <1>8, ElementOfSeq DEF Consume, TypeOK, Token
    <2>. QED  BY <2>1, <2>2, <1>a, WholeTypes, ConcatAppend DEF Whole
<1>9. ASSUME Produce
      PROVE  Whole' = Whole
    <2>1. /\ UNCHANGED outport /\ Undelivered = made /\ held # <<>>
          /\ Undelivered' = Append(made, Head(held)) /\ held' = Tail(held)
        BY <1>9 DEF Produce, Undelivered, rubyVars
    <2>2. Head(held) \in Token /\ Tail(held) \in Seq(Token)
        BY <2>1, <1>a, HeadTailProperties
    <2>3. outport \o Append(made, Head(held))
             = Append(outport \o made, Head(held))
        BY <1>a, <2>2, ConcatAppend
    <2>4. outport \o made \in Seq(Token)
        BY <1>a, ConcatProperties
    <2>5. Append(outport \o made, Head(held)) \o Tail(held)
             = (outport \o made) \o held
        BY <1>a, <2>1, <2>4, ConcatShift
    <2>. QED  BY <2>1, <2>3, <2>5 DEF Whole
<1>10. ASSUME CodeAborted \/ (CodeFails /\ act = "RUN")
       PROVE  \E j \in 0 .. Len(Undelivered) : Lost(j)
    <2>1. UNCHANGED <<outport, held>> /\ Undelivered' = <<>>
        BY <1>10 DEF CodeAborted, CodeFails, EndCall, Undelivered, rubyVars
    <2>2. Lost(0)
        BY <1>b, <2>1 DEF Lost, Whole
    <2>. QED  BY <1>b, <2>2
<1>11. ASSUME EmitFails
       PROVE  \E j \in 0 .. Len(Undelivered) : Lost(j)
    <2>1. /\ UNCHANGED held /\ Undelivered' = <<>> /\ Undelivered = workbuf
          /\ \E j \in 0 .. Len(workbuf) :
                outport' = outport \o SubSeq(workbuf, 1, j)
        BY <1>11 DEF EmitFails, EndCall, Undelivered, lzmaVars
    <2>2. PICK j \in 0 .. Len(workbuf) :
                outport' = outport \o SubSeq(workbuf, 1, j)
        BY <2>1
    <2>3. outport' \in Seq(Token)
        BY <1>a, <2>2, SubSeqPrefix, ConcatProperties
    <2>4. Lost(j)
        BY <2>1, <2>2, <2>3, ConcatEmptySeq DEF Lost, Whole
    <2>. QED  BY <2>1, <2>4
<1>. QED
    BY <1>1, <1>2, <1>3, <1>4, <1>5, <1>6, <1>7, <1>8, <1>9, <1>10, <1>11
       DEF WholeMoves, Keeps

-----------------------------------------------------------------------------
(* The order of the tokens.                                                *)

\* The order of the tokens survives every step, the lossy ones included.
LEMMA OrderStep == TypeOK /\ Control /\ InOrder /\ [Next]_vars => InOrder'
<1>. SUFFICES ASSUME TypeOK, Control, InOrder, [Next]_vars
              PROVE  InOrder'
    OBVIOUS
<1>. USE EncoderAssumption
<1>1. Whole \in Seq(Token) /\ Len(Whole) \in Nat
    BY WholeTypes, LenProperties
<1>2. WholeMoves /\ (seq' = "run" => seq = "run")
    BY WholeStep, SeqStep
<1>3. CASE Keeps
    BY <1>2, <1>3 DEF WholeMoves, InOrder
<1>4. CASE Consume
    <2>1. /\ writebuf[taken + 1] \in Nat /\ seq = "run"
        BY <1>4, ElementOfSeq DEF Consume, TypeOK, Control
    <2>2. Whole' = Append(Whole, writebuf[taken + 1])
        BY <1>2, <1>4 DEF WholeMoves
    <2>3. writebuf[taken + 1] # HEAD /\ writebuf[taken + 1] # TAIL
        BY <2>1
    <2>. QED  BY <1>1, <2>1, <2>2, <2>3 DEF InOrder
<1>5. CASE CodeFinish /\ seq = "run"
    <2>1. Whole' = Append(Whole, TAIL) /\ seq' # "run"
        BY <1>2, <1>5 DEF WholeMoves, CodeFinish, Admits, Entered
    <2>. QED  BY <1>1, <1>5, <2>1 DEF InOrder
<1>6. CASE CodeAborted \/ EmitFails \/ (CodeFails /\ act = "RUN")
    <2>1. PICK j \in 0 .. Len(Undelivered) : Lost(j)
        BY <1>2, <1>6 DEF WholeMoves
    <2>2. \A i \in 1 .. Len(Whole') :
              \E k \in i .. Len(Whole) :
                  Whole'[i] = Whole[k] /\ (k = Len(Whole) => i = Len(Whole'))
        BY <2>1, WholeTypes, CutMiddle DEF Lost, Whole, TypeOK
    <2>. QED  BY <1>1, <1>2, <2>2 DEF InOrder
<1>. QED
    BY <1>3, <1>4, <1>5, <1>6
       DEF Next, Step, Event, User, Keeps, TypeOK

-----------------------------------------------------------------------------
(* What conservation says, step by step.                                   *)

\* Nothing has cut a call short and the stream is open.
Clean == faults = 0 /\ ~finalFailed /\ status

\* A clean state has a clean past, and in it only a finalizer that is
\* finishing the stream can meet an error that is not yet an exception.
LEMMA CleanStep ==
    ASSUME TypeOK, Control, [Next]_vars, Clean'
    PROVE  /\ Clean
           /\ ~CodeAborted /\ ~EmitFails /\ ~Interrupted /\ ~Mark
           /\ CodeFails => op = "finalize" /\ act = "FINISH"
<1>. USE EncoderAssumption
<1>1. ~CodeAborted /\ ~EmitFails /\ ~Interrupted
    <2>1. ~(Fault /\ EndCall("raised"))
        <3>1. CASE op = "finalize"
            BY <3>1, Zenon DEF Clean, EndCall
        <3>2. CASE op # "finalize"
            BY <3>2 DEF Clean, TypeOK, Fault
        <3>. QED  BY <3>1, <3>2
    <2>. QED  BY <2>1 DEF CodeAborted, EmitFails, Interrupted
<1>2. ~Mark
    BY DEF Clean, Mark
<1>3. ASSUME CodeFails
      PROVE  op = "finalize" /\ act = "FINISH" /\ Clean
    <2>1. op = "finalize" /\ act # "RUN"
        BY <1>3 DEF Clean, TypeOK, Fault, EndCall, CodeFails
    <2>. QED  BY <1>3, <2>1 DEF Clean, TypeOK, Fault, CodeFails
<1>4. ASSUME Step \/ User \/ Finalize \/ UNCHANGED vars
      PROVE  Clean
    BY <1>2, <1>4 DEF Clean, TypeOK, Control, Step, User, Finalize, WriteDone,
       DrainDone, CodeRun, CodeRunRefused, CodeFinish, Emit, Consume, Produce,
       CodeReturn, Write, Close, Drop, EndCall, vars, rubyVars, histVars
<1>. QED  BY <1>1, <1>2, <1>3, <1>4 DEF Next, Event

\* The part of Conservation about the input buffer and the control state ...
InputKept ==
    /\ Len(writebuf) <= batch
    /\ op # "write" => writebuf = <<>>
    /\ \A i \in 1 .. Len(writebuf) :
           writebuf[i] = accepted + batch - Len(writebuf) + i
    /\ pc \in {"idle", "run"} => seq = "run" \/ reach = "gone"
    /\ pc = "finish" => seq \in {"run", "finish"}
    /\ pc = "emit" /\ op = "close" => ret \in {"OK", "STREAM_END"}

\* ... and the part about the stream.
StreamKept == Whole = IF seq = "run" THEN Opened(Fed) ELSE Frame(Fed)

\* In a clean state the input buffer holds the next bytes, also after a step.
LEMMA InputStep ==
    ASSUME TypeOK, Control, Clean, InputKept, [Next]_vars, Clean'
    PROVE  InputKept'
<1>. USE EncoderAssumption
<1>. USE DEF InputKept, Clean
<1>1. CASE WriteDone
    BY <1>1 DEF TypeOK, Control, WriteDone, EndCall, rubyVars, lzmaVars
<1>2. CASE DrainDone
    BY <1>2
       DEF TypeOK, Control, DrainDone, rubyVars, lzmaVars, userVars, histVars
<1>3. CASE CodeRun
    BY <1>3 DEF TypeOK, Control, CodeRun, Entered, rubyVars, userVars, histVars
<1>4. CASE CodeRunRefused
    BY <1>4 DEF TypeOK, Control, CodeRunRefused, Admits
<1>5. CASE CodeFinish
    BY <1>5 DEF TypeOK, Control, CodeFinish, Admits, userVars, histVars
<1>6. CASE Emit
    <2>1. CASE EndCall("raised") /\ act = "FINISH"
                   /\ ret \notin {"OK", "STREAM_END"}
        <3>1. op = "finalize"
            BY <1>6, <2>1 DEF Control, TypeOK, Emit
        <3>. QED  BY <3>1, <2>1, Zenon DEF EndCall
    <2>2. CASE act = "RUN" \/ ret \in {"OK", "STREAM_END"}
        BY <1>6, <2>2 DEF TypeOK, Control, Emit, lzmaVars, userVars
    <2>. QED  BY <1>6, <2>1, <2>2 DEF Emit
<1>7. CASE Consume \/ Produce
    BY <1>7 DEF TypeOK, Control, Consume, Produce, rubyVars, userVars, histVars
<1>8. CASE CodeReturn
    <2>1. /\ Len(writebuf') = Len(writebuf) - taken
          /\ \A i \in 1 .. Len(writebuf') : writebuf'[i] = writebuf[taken + i]
        BY <1>8, SubSeqSuffix DEF TypeOK, CodeReturn
    <2>2. /\ Len(writebuf) \in Nat /\ taken \in Nat /\ taken <= Len(writebuf)
          /\ batch \in Nat /\ accepted \in Nat
        BY LenProperties DEF TypeOK
    <2>3. op = "write" \/ writebuf' = <<>>
        <3>1. CASE op # "write"
            <4>1. SubSeq(<<>>, 1, 0) = <<>>
                BY SubSeqEmpty
            <4>2. Len(<<>>) = 0
                BY EmptySeq
            <4>. QED  BY <1>8, <3>1, <4>1, <4>2 DEF CodeReturn, TypeOK
        <3>. QED  BY <3>1
    <2>4. ASSUME NEW i \in 1 .. Len(writebuf')
          PROVE  writebuf'[i] = accepted + batch - Len(writebuf') + i
        BY <2>1, <2>2
    <2>5. /\ UNCHANGED <<op, accepted, batch>> /\ pc' = "emit"
          /\ ret' \in {"OK", "STREAM_END"}
        BY <1>8 DEF CodeReturn, userVars, histVars
    <2>. QED  BY <2>1, <2>2, <2>3, <2>4, <2>5
<1>9. CASE CodeFails
    <2>1. op = "finalize" /\ act = "FINISH"
        BY <1>9, CleanStep
    <2>2. SubSeq(<<>>, 1, 0) = <<>> /\ Len(<<>>) = 0
        BY SubSeqEmpty, EmptySeq
    <2>. QED  BY <1>9, <2>1, <2>2 DEF TypeOK, Control, CodeFails, userVars
<1>10. CASE Close
    BY <1>10 DEF TypeOK, Control, Close, rubyVars, lzmaVars, histVars
<1>11. CASE Drop
    BY <1>11 DEF TypeOK, Control, Drop, rubyVars, lzmaVars, callVars, histVars
<1>12. CASE Finalize
    BY <1>12 DEF TypeOK, Control, Finalize, rubyVars, lzmaVars, histVars
<1>13. CASE \E k \in 0 .. MaxUnits : Write(k)
    <2>1. PICK k \in 0 .. MaxUnits : Write(k)
        BY <1>13
    <2>2. /\ writebuf' = [i \in 1 .. k |-> accepted + i] /\ Len(writebuf') = k
          /\ op' = "write" /\ pc' = "run" /\ batch' = k
          /\ UNCHANGED <<accepted, seq, reach>> /\ pc = "idle" /\ reach = "held"
        BY <2>1, Consecutive DEF Write, TypeOK, lzmaVars, histVars
    <2>3. ASSUME NEW i \in 1 .. k
          PROVE  writebuf'[i] = accepted + k - k + i
        BY <2>2 DEF TypeOK
    <2>. QED  BY <2>2, <2>3 DEF TypeOK
<1>14. CASE UNCHANGED vars
    BY <1>14 DEF vars, rubyVars, lzmaVars, callVars, userVars, histVars
<1>. QED
    BY <1>1, <1>2, <1>3, <1>4, <1>5, <1>6, <1>7, <1>8, <1>9, <1>10, <1>11,
       <1>12, <1>13, <1>14, CleanStep DEF Next, Step, Event, User

\* In a clean state what was put out and is owed is the stream of the bytes
\* consumed, also after a step.
LEMMA StreamStep ==
    ASSUME TypeOK, Control, Clean, InputKept, StreamKept, [Next]_vars, Clean'
    PROVE  StreamKept'
<1>. USE EncoderAssumption
<1>1. WholeMoves
    BY WholeStep
<1>2. /\ Len(writebuf) \in Nat /\ taken \in Nat /\ taken <= Len(writebuf)
      /\ batch \in Nat /\ accepted \in Nat /\ Fed \in Nat
    BY LenProperties DEF TypeOK, InputKept, Fed
<1>3. CASE Consume
    <2>1. Whole' = Append(Whole, writebuf[taken + 1])
        BY <1>1, <1>3 DEF WholeMoves
    <2>2. seq = "run" /\ UNCHANGED <<seq, writebuf, accepted, batch>>
        BY <1>3 DEF Consume, Control, rubyVars, userVars, histVars
    <2>3. writebuf[taken + 1] = Fed + 1 /\ Fed' = Fed + 1
        BY <1>2, <1>3, <2>2 DEF Consume, InputKept, Fed
    <2>. QED  BY <1>2, <2>1, <2>2, <2>3, OpenedGrows DEF StreamKept
<1>4. CASE CodeFinish /\ seq = "run"
    <2>1. Whole' = Append(Whole, TAIL) /\ seq' # "run"
        BY <1>1, <1>4 DEF WholeMoves, CodeFinish, Admits, Entered
    <2>2. Fed' = Fed
        BY <1>4 DEF CodeFinish, Fed, userVars, histVars
    <2>. QED  BY <1>2, <1>4, <2>1, <2>2, OpenedGrows DEF StreamKept
<1>5. CASE Keeps
    <2>1. Whole' = Whole
        BY <1>1, <1>5 DEF WholeMoves
    <2>2. (seq' = "run") = (seq = "run")
        <3>1. CASE CodeReturn
            <4>1. ret' \in Statuses /\ seq \in Phases /\ seq' = Left(seq, ret')
                BY <3>1 DEF CodeReturn, TypeOK, Statuses
            <4>2. CASE act = "RUN"
                BY <3>1, <4>1, <4>2, LeftTypes
                   DEF CodeReturn, CoderDone, Control
            <4>3. CASE act = "FINISH"
                BY <3>1, <4>1, <4>3, LeftTypes DEF CodeReturn, Control
            <4>. QED  BY <4>2, <4>3 DEF TypeOK
        <3>2. CASE CodeFails
            BY <3>2, CleanStep, LeftTypes
               DEF CodeFails, Control, TypeOK, Statuses
        <3>. QED
            BY <1>5, <3>1, <3>2
               DEF Keeps, WriteDone, DrainDone, CodeRun, Entered,
               CodeRunRefused, CodeFinish, Admits, Emit, Mark, Produce,
               Interrupted, Close, Drop, Finalize, Write, vars, lzmaVars
    <2>3. Fed' = Fed
        <3>1. CASE WriteDone
            BY <1>2, <3>1, EmptySeq DEF WriteDone, Fed, EndCall, rubyVars
        <3>2. CASE \E k \in 0 .. MaxUnits : Write(k)
            <4>1. PICK k \in 0 .. MaxUnits : Write(k)
                BY <3>2
            <4>2. /\ Len(writebuf') = k /\ batch' = k /\ UNCHANGED accepted
                  /\ taken = 0 /\ taken' = 0 /\ op = "none"
                BY <4>1, Consecutive DEF Write, TypeOK, Control, histVars
            <4>3. writebuf = <<>> /\ batch = 0
                BY <4>2 DEF InputKept, Control
            <4>. QED  BY <1>2, <4>2, <4>3, EmptySeq DEF Fed
        <3>3. CASE CodeReturn \/ CodeFails
            <4>1. /\ Len(writebuf') = Len(writebuf) - taken /\ taken' = 0
                  /\ UNCHANGED <<accepted, batch>>
                BY <3>3, <1>5, SubSeqSuffix, CleanStep
                   DEF CodeReturn, CodeFails, TypeOK, userVars, histVars
            <4>. QED  BY <1>2, <4>1 DEF Fed
        <3>4. CASE Emit
            BY <3>4 DEF Emit, EndCall, Fed, Control, TypeOK, userVars
        <3>5. CASE CodeRunRefused
            BY <3>5 DEF CodeRunRefused, Control, InputKept, Admits, TypeOK
        <3>. QED
            BY <1>5, <3>1, <3>2, <3>3, <3>4, <3>5, CleanStep
               DEF Keeps, DrainDone, CodeRun, CodeFinish, Produce, Close,
               Drop, Finalize, Fed, vars, rubyVars, callVars, userVars, histVars
    <2>. QED  BY <2>1, <2>2, <2>3 DEF StreamKept
<1>. QED
    BY <1>3, <1>4, <1>5, CleanStep
       DEF Next, Step, Event, User, Keeps, TypeOK

\* Conservation is the two facts above, for clean states.
LEMMA ConservationParts ==
    Conservation <=> (Clean => InputKept /\ StreamKept)
BY DEF Conservation, Clean, InputKept, StreamKept

\* Conservation is preserved by every step.
LEMMA ConservationStep ==
    TypeOK /\ Control /\ Conservation /\ [Next]_vars => Conservation'
<1>. SUFFICES ASSUME TypeOK, Control, Conservation, [Next]_vars, Clean'
              PROVE  InputKept' /\ StreamKept'
    BY DEF Conservation, Clean, InputKept, StreamKept
<1>1. Clean /\ InputKept /\ StreamKept
    BY CleanStep, ConservationParts
<1>. QED  BY <1>1, InputStep, StreamStep

-----------------------------------------------------------------------------
(* Closed streams and streams whose finalizer failed.                      *)

\* A stream that is closed is complete, and nothing is added to it later.
LEMMA CompleteStep ==
    TypeOK /\ Control /\ Conservation /\ ClosedIsComplete /\ [Next]_vars
        => ClosedIsComplete'
<1>. SUFFICES ASSUME TypeOK, Control, Conservation, ClosedIsComplete,
                     [Next]_vars, ~status', faults' = 0
              PROVE  outport' = Frame(accepted')
    BY DEF ClosedIsComplete
<1>. USE EncoderAssumption
<1>1. CASE Mark
    <2>1. /\ seq = "end" /\ held = <<>> /\ Undelivered = <<>> /\ taken = 0
          /\ faults = 0 /\ status /\ ~finalFailed /\ op # "write" /\ batch = 0
        BY <1>1 DEF Mark, Control, Undelivered, TypeOK
    <2>2. Whole = Frame(Fed) /\ writebuf = <<>>
        BY <2>1, <1>1 DEF Conservation, Mark
    <2>3. Fed = accepted
        BY <2>1, <2>2, EmptySeq DEF Fed, TypeOK
    <2>4. Whole = outport
        BY <2>1, ConcatEmptySeq DEF Whole, TypeOK
    <2>5. UNCHANGED <<outport, accepted>>
        BY <1>1, <2>1 DEF Mark, EndCall
    <2>. QED  BY <2>2, <2>3, <2>4, <2>5
<1>2. CASE ~Mark
    <2>1. ~status /\ faults = 0
        BY <1>2 DEF TypeOK, Next, Step, Event, User, WriteDone, DrainDone,
           CodeRun, CodeRunRefused, CodeFinish, Emit, Consume, Produce,
           CodeReturn, CodeFails, CodeAborted, EmitFails, Interrupted, Fault,
           Write, Close, Drop, Finalize, vars, rubyVars, histVars
    <2>2. pc # "coding" /\ pc # "emit" /\ op \in {"none", "write"}
        BY <2>1 DEF Control, TypeOK
    <2>3. UNCHANGED outport
        BY <1>2, <2>1, <2>2
           DEF TypeOK, Next, Step, Event, User, WriteDone, DrainDone,
           CodeRun, CodeRunRefused, CodeFinish, Emit, Consume, Produce,
           CodeReturn, CodeFails, CodeAborted, EmitFails, Interrupted,
           Write, Close, Drop, Finalize, vars, rubyVars
    <2>4. UNCHANGED accepted
        <3>1. CASE WriteDone
            <4>1. batch = 0
                BY <3>1, <2>1, EmptySeq DEF WriteDone, Control
            <4>. QED  BY <3>1, <4>1 DEF WriteDone, EndCall, TypeOK
        <3>. QED
            BY <1>2, <2>2, <3>1
               DEF TypeOK, Next, Step, Event, User, DrainDone, CodeRun,
               CodeRunRefused, CodeFinish, Emit, Consume, Produce, CodeReturn,
               CodeFails, CodeAborted, EmitFails, Interrupted, EndCall,
               Write, Close, Drop, Finalize, vars, histVars
    <2>5. outport = Frame(accepted)
        BY <2>1 DEF ClosedIsComplete
    <2>. QED  BY <2>3, <2>4, <2>5
<1>. QED  BY <1>1, <1>2

\* In a clean state the receiver holds an initial part of the stream of all
\* data offered so far.
LEMMA CleanPrefix ==
    ASSUME TypeOK, Control, Conservation, Clean,
           NEW j \in 0 .. Len(Undelivered)
    PROVE  /\ IsInitialPart(outport \o SubSeq(Undelivered, 1, j),
                            Frame(accepted + batch))
           /\ outport \o SubSeq(Undelivered, 1, j) \in Seq(Token)
<1>. DEFINE v == outport \o SubSeq(Undelivered, 1, j)
<1>1. /\ outport \in Seq(Token) /\ held \in Seq(Token)
      /\ Undelivered \in Seq(Token)
    BY WholeTypes DEF TypeOK
<1>2. /\ v \in Seq(Token) /\ Len(v) <= Len(Whole)
      /\ \A i \in 1 .. Len(v) : v[i] = Whole[i]
    <2>. DEFINE w == (outport \o Undelivered) \o held
    <2>1. /\ v \in Seq(Token) /\ Len(v) <= Len(w)
          /\ \A i \in 1 .. Len(v) : v[i] = w[i]
        BY ONLY <1>1, FrontOfConcat, j \in 0 .. Len(Undelivered)
    <2>. QED  BY <2>1 DEF Whole
<1>3. InputKept /\ StreamKept
    BY ConservationParts
<1>4. /\ accepted + batch \in Nat /\ Fed \in Nat /\ Fed <= accepted + batch
      /\ op # "write" => Fed = accepted + batch
    <2>1. /\ Len(writebuf) \in Nat /\ taken \in Nat /\ taken <= Len(writebuf)
          /\ batch \in Nat /\ accepted \in Nat
        BY LenProperties DEF TypeOK
    <2>2. op # "write" => Len(writebuf) = 0
        BY <1>3, EmptySeq DEF InputKept
    <2>. QED  BY <1>3, <2>1, <2>2 DEF InputKept, Fed
<1>5. IsInitialPart(Whole, Frame(accepted + batch))
    <2>1. CASE seq = "run"
        BY <2>1, <1>3, <1>4, FrameInitial DEF StreamKept
    <2>2. CASE seq # "run"
        <3>1. op # "write"
            BY <2>2, <1>3 DEF InputKept, Control, TypeOK
        <3>2. Whole = Frame(accepted + batch)
            BY <2>2, <3>1, <1>3, <1>4 DEF StreamKept
        <3>. QED  BY <3>2, <1>4, OpenedAndFrame DEF IsInitialPart
    <2>. QED  BY <2>1, <2>2
<1>. HIDE DEF v
<1>6. IsInitialPart(v, Frame(accepted + batch))
    <2>1. Len(v) \in Nat /\ Len(Whole) \in Nat
          /\ Len(Frame(accepted + batch)) \in Nat
        BY <1>2, <1>4, WholeTypes, LenProperties, OpenedAndFrame
    <2>. QED  BY <1>2, <1>5, <2>1 DEF IsInitialPart
<1>. QED  BY <1>2, <1>6 DEF v

\* What has reached it already does so too.
LEMMA CleanOutport ==
    ASSUME TypeOK, Control, Conservation, Clean
    PROVE  IsInitialPart(outport, Frame(accepted + batch))
<1>1. 0 \in 0 .. Len(Undelivered)
    BY WholeTypes, LenProperties
<1>2. SubSeq(Undelivered, 1, 0) = <<>> /\ outport \o <<>> = outport
    BY SubSeqEmpty, ConcatEmptySeq DEF TypeOK
<1>. QED  BY <1>1, <1>2, CleanPrefix

\* A finalizer that fails leaves an initial part of the stream behind, and
\* nothing happens after it.
LEMMA FailureStep ==
    TypeOK /\ Control /\ Conservation /\ AfterFailure /\ [Next]_vars
        => AfterFailure'
<1>. SUFFICES ASSUME TypeOK, Control, Conservation, AfterFailure,
                     [Next]_vars, faults' = 0, finalFailed'
              PROVE  /\ op' = "none" /\ reach' = "gone" /\ status'
                     /\ IsInitialPart(outport', Frame(accepted'))
    BY DEF AfterFailure
<1>. USE EncoderAssumption
<1>1. faults = 0
    <2>1. CASE Fault
        BY <2>1 DEF Fault, TypeOK
    <2>2. CASE UNCHANGED faults
        BY <2>2
    <2>. QED
        BY <2>1, <2>2
           DEF Next, Step, Event, User, WriteDone, DrainDone, CodeRun,
           CodeRunRefused, CodeFinish, Emit, Mark, Consume, Produce,
           CodeReturn, CodeFails, CodeAborted, EmitFails, Interrupted, Write,
           Close, Drop, Finalize, vars, histVars
<1>2. CASE finalFailed
    <2>1. op = "none" /\ pc = "idle" /\ reach = "gone"
        BY <1>1, <1>2 DEF AfterFailure, Control
    <2>2. UNCHANGED vars
        BY <2>1 DEF Next, Step, Event, User, WriteDone, DrainDone, CodeRun,
           CodeRunRefused, CodeFinish, Emit, Mark, Consume, Produce,
           CodeReturn, CodeFails, CodeAborted, EmitFails, Interrupted, Write,
           Close, Drop, Finalize
    <2>. QED  BY <1>1, <1>2, <2>2
              DEF AfterFailure, vars, rubyVars, callVars, userVars, histVars
<1>3. CASE ~finalFailed
    <2>1. op = "finalize" /\ EndCall("raised")
        <3>1. \/ op = "finalize" /\ EndCall("raised")
              \/ UNCHANGED finalFailed
              \/ \E x \in {"ok", "raised"} :
                    EndCall(x) /\ ~(op = "finalize" /\ x = "raised")
            BY DEF Next, Step, Event, User, WriteDone, DrainDone, CodeRun,
               CodeRunRefused, CodeFinish, Emit, Mark, Consume, Produce,
               CodeReturn, CodeFails, CodeAborted, EmitFails, Interrupted,
               Write, Close, Drop, Finalize, vars, histVars
        <3>2. ~UNCHANGED finalFailed
            BY <1>3, Zenon
        <3>3. ~\E x \in {"ok", "raised"} :
                    EndCall(x) /\ ~(op = "finalize" /\ x = "raised")
            BY <1>3, Zenon DEF EndCall
        <3>. QED  BY <3>1, <3>2, <3>3
    <2>2. Clean /\ status /\ batch = 0
        BY <1>1, <1>3, <2>1 DEF Clean, Control
    <2>3. op' = "none" /\ reach' = "gone" /\ UNCHANGED accepted
        BY <2>1 DEF EndCall
    <2>4. accepted + batch = accepted
        BY <2>2 DEF TypeOK
    <2>5. status'
        <3>1. ~Mark
            BY <1>3, <2>1, Zenon DEF Mark, EndCall
        <3>. QED
            BY <2>2, <3>1 DEF Next, Step, Event, User, WriteDone, DrainDone,
               CodeRun, CodeRunRefused, CodeFinish, Emit, Consume, Produce,
               CodeReturn, CodeFails, CodeAborted, EmitFails, Interrupted,
               Write, Close, Drop, Finalize, vars, rubyVars
    <2>6. IsInitialPart(outport', Frame(accepted))
        <3>1. CASE EmitFails
            <4>1. PICK j \in 0 .. Len(Undelivered) :
                        outport' = outport \o SubSeq(Undelivered, 1, j)
                BY <3>1 DEF EmitFails, Undelivered
            <4>. QED  BY <2>2, <2>4, <4>1, CleanPrefix
        <3>2. CASE Emit
            <4>1. Undelivered = workbuf /\ outport' = outport \o workbuf
                BY <3>2 DEF Emit, Undelivered
            <4>2. /\ Len(workbuf) \in 0 .. Len(workbuf)
                  /\ SubSeq(workbuf, 1, Len(workbuf)) = workbuf
                BY LenProperties, SubSeqFull DEF TypeOK
            <4>. QED  BY <2>2, <2>4, <4>1, <4>2, CleanPrefix
        <3>3. CASE UNCHANGED outport
            BY <3>3, <2>2, <2>4, CleanOutport
        <3>. QED
            BY <3>1, <3>2, <3>3
               DEF Next, Step, Event, User, WriteDone, DrainDone, CodeRun,
               CodeRunRefused, CodeFinish, Mark, Consume, Produce, CodeReturn,
               CodeFails, CodeAborted, Interrupted, Write, Close, Drop,
               Finalize, vars, rubyVars
    <2>. QED  BY <2>3, <2>5, <2>6
<1>. QED  BY <1>2, <1>3

-----------------------------------------------------------------------------
(* The theorems.                                                           *)

\* A new encoder satisfies the invariant.
LEMMA InitInv == Init => IInv
<1>. SUFFICES ASSUME Init
              PROVE  IInv
    OBVIOUS
<1>. USE EncoderAssumption
<1>0. /\ <<>> \in Seq(Nat) /\ <<>> \in Seq(Token) /\ Len(<<>>) = 0
      /\ <<HEAD>> \in Seq(Token) /\ Len(<<HEAD>>) = 1
    BY EmptySeq DEF Token
<1>1. TypeOK
    <2>1. /\ writebuf \in Seq(Nat) /\ workbuf \in Seq(Token)
          /\ made \in Seq(Token) /\ held \in Seq(Token)
          /\ outport \in Seq(Token)
        BY <1>0 DEF Init
    <2>2. taken \in 0 .. Len(writebuf) /\ Len(made) <= BLOCKSIZE
        <3>1. taken = 0 /\ writebuf = <<>> /\ made = <<>>
            BY DEF Init
        <3>2. Len(writebuf) = 0 /\ Len(made) = 0
            BY <3>1, <1>0
        <3>. QED  BY <3>1, <3>2
    <2>3. /\ status \in BOOLEAN /\ finalFailed \in BOOLEAN
          /\ seq \in Phases /\ ret \in Statuses
          /\ op \in {"none", "write", "close", "finalize"}
          /\ pc \in {"idle", "run", "finish", "coding", "emit", "mark"}
          /\ act \in {"RUN", "FINISH"}
          /\ reach \in {"held", "dropped", "gone"}
          /\ result \in {"none", "ok", "raised"}
        BY DEF Init, Phases, Statuses
    <2>4. batch \in Nat /\ accepted \in Nat /\ faults \in 0 .. MaxFaults
        BY DEF Init
    <2>. QED  BY <2>1, <2>2, <2>3, <2>4 DEF TypeOK
<1>2. Control
    BY DEF Init, Control
<1>3. Whole = <<HEAD>>
    <2>1. outport = <<>> /\ Undelivered = <<>> /\ held = <<HEAD>>
        BY DEF Init, Undelivered
    <2>2. held \in Seq(Token) /\ <<>> \in Seq(Token)
        BY <1>1, EmptySeq DEF TypeOK
    <2>. QED  BY <2>1, <2>2, ConcatEmptySeq DEF Whole
<1>4. InOrder
    BY <1>3 DEF InOrder, Init
<1>5. Opened(0) = <<HEAD>>
    <2>1. Opened(0) = [i \in 1 .. 1 |-> HEAD]
        BY DEF Opened
    <2>. QED  BY <2>1
<1>6. Conservation
    <2>1. Fed = 0
        <3>1. accepted = 0 /\ batch = 0 /\ taken = 0
            BY DEF Init
        <3>2. Len(writebuf) = 0
            BY <1>0 DEF Init
        <3>. QED  BY <3>1, <3>2 DEF Fed
    <2>. QED  BY <1>3, <1>5, <2>1, <1>0 DEF Init, Conservation
<1>7. ClosedIsComplete /\ AfterFailure
    BY DEF Init, ClosedIsComplete, AfterFailure
<1>. QED  BY <1>1, <1>2, <1>4, <1>6, <1>7 DEF IInv

\* Every step preserves it.
LEMMA NextInv == IInv /\ [Next]_vars => IInv'
BY TypeStep, ControlStep, OrderStep, ConservationStep, CompleteStep,
   FailureStep DEF IInv

\* It holds in every behaviour.
LEMMA Invariance == Spec => []IInv
BY InitInv, NextInv, PTL DEF Spec

\* Every variable keeps its type in every behaviour of the encoder.
THEOREM TypeCorrect == Spec => []TypeOK
<1>1. IInv => TypeOK
    BY DEF IInv
<1>. QED  BY <1>1, Invariance, PTL

\* No byte is lost, repeated or reordered between write, the two buffers, the
\* compressor and the receiver while nothing cut a call short.
THEOREM BytesConserved == Spec => []Conservation
<1>1. IInv => Conservation
    BY DEF IInv
<1>. QED  BY <1>1, Invariance, PTL

\* In every state of the invariant the receiver holds an initial part of the
\* stream of the data given to write.
LEMMA PrefixHeld == IInv => ReceiverHasPrefix
<1>. SUFFICES ASSUME IInv, faults = 0
              PROVE  IsInitialPart(outport, Frame(Offered))
    BY DEF ReceiverHasPrefix
<1>1. CASE ~status
    <2>1. outport = Frame(accepted) /\ accepted \in Nat
        BY <1>1 DEF IInv, ClosedIsComplete, TypeOK
    <2>. QED  BY <1>1, <2>1, OpenedAndFrame DEF IsInitialPart, Offered
<1>2. CASE status /\ finalFailed
    <2>1. IsInitialPart(outport, Frame(accepted)) /\ op = "none"
        BY <1>2 DEF IInv, AfterFailure
    <2>2. batch = 0 /\ accepted + batch = accepted
        BY <2>1 DEF IInv, Control, TypeOK
    <2>. QED  BY <1>2, <2>1, <2>2 DEF Offered
<1>3. CASE status /\ ~finalFailed
    BY <1>3, CleanOutport DEF IInv, Clean, Offered
<1>. QED  BY <1>1, <1>2, <1>3

\* Headers and trailers are in their places in every state of the invariant.
LEMMA OutportOrderly == IInv => OneHeaderOneTrailer
<1>. SUFFICES ASSUME IInv, NEW i \in 1 .. Len(outport)
              PROVE  /\ outport[i] = HEAD => i = 1
                     /\ outport[i] = TAIL => i = Len(outport)
    BY DEF OneHeaderOneTrailer, Orderly
<1>1. /\ outport \in Seq(Token) /\ Undelivered \in Seq(Token)
      /\ held \in Seq(Token) /\ Len(outport) \in Nat
      /\ Len(Undelivered) \in Nat
    BY WholeTypes, LenProperties DEF IInv, TypeOK
<1>2. SubSeq(Undelivered, 1, 0) = <<>> /\ outport \o <<>> = outport
    BY <1>1, SubSeqEmpty, ConcatEmptySeq
<1>3. 0 \in 0 .. Len(Undelivered)
    BY <1>1
<1>4. Len(outport) <= Len(Whole) /\ outport[i] = Whole[i]
    BY <1>1, <1>2, <1>3, FrontOfConcat DEF Whole
<1>5. Len(Whole) \in Nat
    BY WholeTypes, LenProperties DEF IInv
<1>. QED  BY <1>1, <1>4, <1>5 DEF IInv, InOrder

\* The receiver holds an initial part of the stream of the data given to
\* write, at every moment of every call.
THEOREM PrefixDelivered == Spec => []ReceiverHasPrefix
BY Invariance, PrefixHeld, PTL

\* A closed encoder has delivered the complete stream of everything written.
THEOREM ClosedComplete == Spec => []ClosedIsComplete
<1>1. IInv => ClosedIsComplete
    BY DEF IInv
<1>. QED  BY <1>1, Invariance, PTL

\* One header and one trailer at most, in their places, whatever was lost.
THEOREM HeaderAndTrailer == Spec => []OneHeaderOneTrailer
BY Invariance, OutportOrderly, PTL

-----------------------------------------------------------------------------
(* Encoder implements XzSink: every behaviour of the encoder is, seen from *)
(* its receiver, a behaviour XzSink allows.                                *)

\* The two modules speak about the same streams.
LEMMA SameFormat ==
    /\ \A n : Sink!Frame(n) = Frame(n)
    /\ \A s, t : Sink!IsInitialPart(s, t) = IsInitialPart(s, t)
    /\ \A s : Sink!Orderly(s) = Orderly(s)
BY DEF Sink!Frame, Frame, Sink!IsInitialPart, IsInitialPart, Sink!Orderly,
       Orderly

\* Nothing is ever taken back from the receiver, and only Emit and EmitFails
\* give it something.
LEMMA OutportGrows ==
    ASSUME TypeOK, Control, [Next]_vars
    PROVE  /\ IsInitialPart(outport, outport')
           /\ outport' # outport => Emit \/ EmitFails
<1>1. outport \in Seq(Token) /\ workbuf \in Seq(Token) /\ Len(outport) \in Nat
    BY LenProperties DEF TypeOK
<1>2. \A w \in Seq(Token) : IsInitialPart(outport, outport \o w)
    BY <1>1, ConcatProperties, LenProperties DEF IsInitialPart
<1>3. CASE Emit
    BY <1>1, <1>2, <1>3 DEF Emit
<1>4. CASE EmitFails
    <2>1. PICK j \in 0 .. Len(workbuf) :
              outport' = outport \o SubSeq(workbuf, 1, j)
        BY <1>4 DEF EmitFails
    <2>2. SubSeq(workbuf, 1, j) \in Seq(Token)
        BY <1>1, SubSeqPrefix
    <2>. QED  BY <1>2, <1>4, <2>1, <2>2
<1>5. CASE ~Emit /\ ~EmitFails
    <2>1. outport' = outport
        BY <1>5 DEF Next, Step, Event, User, WriteDone, DrainDone, CodeRun,
           CodeRunRefused, CodeFinish, Mark, Consume, Produce, CodeReturn,
           CodeFails, CodeAborted, Interrupted, Write, Close, Drop, Finalize,
           vars, rubyVars
    <2>. QED  BY <1>1, <2>1 DEF IsInitialPart
<1>. QED  BY <1>3, <1>4, <1>5

\* Exceptions are not forgotten, and a closed encoder stays closed.
LEMMA NeverUndone ==
    ASSUME TypeOK, [Next]_vars
    PROVE  /\ faults > 0 => faults' > 0
           /\ finalFailed => finalFailed'
           /\ status' => status
           /\ status' # status => Mark
<1>. USE EncoderAssumption
<1>1. CASE CodeFails \/ CodeAborted \/ EmitFails \/ Interrupted
    BY <1>1 DEF TypeOK, CodeFails, CodeAborted, EmitFails, Interrupted, Fault,
       EndCall, rubyVars
<1>2. CASE WriteDone \/ CodeRunRefused \/ Emit \/ Mark
    BY <1>2 DEF TypeOK, WriteDone, CodeRunRefused, Emit, Mark, EndCall,
       rubyVars, userVars, histVars
<1>3. CASE ~(CodeFails \/ CodeAborted \/ EmitFails \/ Interrupted
             \/ WriteDone \/ CodeRunRefused \/ Emit \/ Mark)
    BY <1>3 DEF Next, Step, Event, User, DrainDone, CodeRun, CodeFinish,
       Consume, Produce, CodeReturn, Write, Close, Drop, Finalize, vars,
       rubyVars, histVars
<1>. QED  BY <1>1, <1>2, <1>3

\* The invariant says so of the next state too.
LEMMA NextOutport == IInv' => ReceiverHasPrefix' /\ OneHeaderOneTrailer'
BY PrefixHeld, OutportOrderly, PTL

\* An exception cut a call short, in the terms of XzSink.
Broken == faults > 0 \/ finalFailed

\* While nothing went wrong and the encoder is open, what was offered changes
\* only when a write begins, and then no trailer is on its way.
LEMMA OfferedStep ==
    ASSUME IInv, [Next]_vars, Clean, Clean'
    PROVE  \/ UNCHANGED <<accepted, batch>> \/ Offered' = Offered
           \/ /\ outport' = outport /\ Len(outport) <= Offered + 1
              /\ Offered' \in Nat /\ Offered' > Offered
<1>. USE EncoderAssumption
<1>1. TypeOK /\ Control /\ Conservation
    BY DEF IInv
<1>2. CASE \E k \in 0 .. MaxUnits : Write(k)
    <2>1. PICK k \in 0 .. MaxUnits : Write(k)
        BY <1>2
    <2>2. op = "none" /\ batch = 0 /\ reach = "held" /\ taken = 0 /\ pc = "idle"
        BY <2>1, <1>1 DEF Write, Control
    <2>3. seq = "run" /\ writebuf = <<>> /\ Whole = Opened(Fed)
        BY <2>2, <1>1 DEF Conservation, Clean
    <2>4. Fed = accepted /\ Offered = accepted /\ Offered' = accepted + k
        BY <1>1, <2>1, <2>2, <2>3, EmptySeq
           DEF Fed, Offered, Clean, Write, TypeOK, histVars
    <2>5. Len(Whole) = accepted + 1 /\ accepted \in Nat
        BY <1>1, <2>3, <2>4, OpenedAndFrame DEF TypeOK
    <2>6. Undelivered = <<>> /\ outport \in Seq(Token) /\ held \in Seq(Token)
        BY <1>1, <2>2 DEF Undelivered, TypeOK
    <2>7. outport \o Undelivered = outport /\ Len(held) \in Nat
          /\ Len(outport) \in Nat
        BY <2>6, ConcatEmptySeq, LenProperties
    <2>8. Len(Whole) = Len(outport) + Len(held)
        BY <2>6, <2>7, ConcatProperties DEF Whole
    <2>9. outport' = outport
        BY <2>1 DEF Write
    <2>. QED  BY <2>4, <2>5, <2>7, <2>8, <2>9
<1>3. CASE WriteDone
    BY <1>1, <1>3 DEF WriteDone, EndCall, Offered, Clean, TypeOK, rubyVars
<1>4. CASE Emit \/ CodeFails
    <2>1. op = "close" \/ op = "finalize" \/ act = "RUN"
        BY <1>1, <1>4 DEF Emit, CodeFails, Control, TypeOK
    <2>2. CASE Emit
        BY <1>1, <2>1, <2>2
           DEF Emit, EndCall, Control, Conservation, Clean, TypeOK, userVars
    <2>3. CASE CodeFails
        <3>1. op = "finalize" /\ act = "FINISH"
            BY <1>1, <2>3, CleanStep
        <3>. QED  BY <2>3, <3>1 DEF CodeFails, userVars
    <2>. QED  BY <1>4, <2>2, <2>3
<1>5. CASE CodeRunRefused
    <2>1. seq = "run" \/ reach = "gone"
        BY <1>1, <1>5 DEF CodeRunRefused, Conservation, Clean
    <2>2. reach # "gone"
        BY <1>1, <1>5 DEF CodeRunRefused, Control, TypeOK
    <2>. QED  BY <1>5, <2>1, <2>2 DEF CodeRunRefused, Admits
<1>6. ~CodeAborted /\ ~EmitFails /\ ~Interrupted /\ ~Mark
    BY <1>1, CleanStep
<1>7. CASE ~(WriteDone \/ Emit \/ CodeFails \/ CodeRunRefused
             \/ \E k \in 0 .. MaxUnits : Write(k))
    BY <1>6, <1>7 DEF Next, Step, Event, User, DrainDone, CodeRun, CodeFinish,
       Consume, Produce, CodeReturn, Close, Drop, Finalize, vars, userVars,
       histVars
<1>. QED  BY <1>2, <1>3, <1>4, <1>5, <1>7

\* An open encoder offers, delivers or does nothing the receiver can see.
LEMMA OpenStep ==
    ASSUME IInv, IInv', [Next]_vars, Clean, Clean'
    PROVE  Sink!Offer \/ Sink!Deliver \/ UNCHANGED Sink!sinkVars
<1>1. TypeOK /\ Control
    BY DEF IInv
<1>2. status /\ status' /\ ~Broken /\ ~Broken'
    BY <1>1 DEF Clean, Broken, IInv, TypeOK
<1>3. /\ IsInitialPart(outport, outport')
      /\ IsInitialPart(outport', Frame(Offered'))
    BY <1>1, OutportGrows, NextOutport DEF Clean, ReceiverHasPrefix
<1>4. CASE Offered' = Offered
    <2>1. CASE outport' = outport
        BY <1>2, <1>4, <2>1 DEF Sink!sinkVars, Broken
    <2>2. CASE outport' # outport
        BY <1>2, <1>3, <1>4, SameFormat DEF Sink!Deliver, Broken
    <2>. QED  BY <2>1, <2>2
<1>5. CASE Offered' # Offered
    <2>1. /\ outport' = outport /\ Len(outport) <= Offered + 1
          /\ Offered' \in Nat /\ Offered' > Offered
        BY <1>2, <1>5, OfferedStep DEF Offered
    <2>. QED  BY <1>2, <2>1 DEF Sink!Offer, Broken
<1>. QED  BY <1>4, <1>5

\* An encoder that is closed before or after the step, with nothing gone
\* wrong, closes with everything delivered or does not change any more.
LEMMA ClosedStep ==
    ASSUME IInv, IInv', [Next]_vars, ~Broken, ~Broken', ~status'
    PROVE  Sink!Finish \/ UNCHANGED Sink!sinkVars
<1>0. ~Broken /\ ~Broken'
    OBVIOUS
<1>1. /\ TypeOK /\ Control /\ faults = 0 /\ faults' = 0
      /\ ~finalFailed /\ ~finalFailed'
      /\ status \in BOOLEAN /\ status' = FALSE
    BY DEF IInv, Broken, TypeOK
<1>2. outport' = Frame(accepted') /\ Offered' = accepted'
    BY <1>1 DEF IInv, ClosedIsComplete, Offered
<1>3. CASE status
    <2>1. Mark
        BY <1>1, <1>3, NeverUndone
    <2>2. op # "write" /\ batch = 0
        BY <1>1, <2>1 DEF Mark, Control
    <2>3. outport' = outport /\ accepted' = accepted
        BY <2>1, <2>2 DEF Mark, EndCall
    <2>4. Offered = accepted
        BY <1>1, <1>3, <2>2 DEF Offered, TypeOK
    <2>. QED
        BY <1>0, <1>1, <1>2, <1>3, <2>3, <2>4, SameFormat DEF Sink!Finish, Broken
<1>4. CASE ~status
    <2>1. outport = Frame(accepted) /\ Offered = accepted
        BY <1>1, <1>4 DEF IInv, ClosedIsComplete, Offered
    <2>2. accepted \in Nat /\ accepted' \in Nat
        BY <1>1 DEF IInv, TypeOK
    <2>3. /\ Len(outport) = accepted + 2 /\ Len(outport') = accepted' + 2
        BY <1>2, <2>1, <2>2, OpenedAndFrame
    <2>4. pc # "coding" /\ pc # "emit"
        BY <1>1, <1>4 DEF Control, TypeOK
    <2>5. outport' = outport
        BY <1>1, <2>4, OutportGrows DEF Emit, EmitFails
    <2>6. accepted' = accepted
        BY <2>2, <2>3, <2>5
    <2>. QED
        BY <1>0, <1>1, <1>2, <1>4, <2>1, <2>5, <2>6 DEF Sink!sinkVars, Broken
<1>. QED  BY <1>3, <1>4

\* Everything an encoder does to its receiver, XzSink allows.
THEOREM SinkImplemented == Spec => ImplementsSink
<1>1. Init => Sink!Init
    BY EncoderAssumption DEF Init, Sink!Init, Offered
<1>2. IInv /\ IInv' /\ [Next]_vars => [Sink!Next]_Sink!sinkVars
    <2>. SUFFICES ASSUME IInv, IInv', [Next]_vars
                  PROVE  Sink!Next \/ UNCHANGED Sink!sinkVars
        OBVIOUS
    <2>0. TypeOK /\ Control /\ TypeOK'
        BY DEF IInv
    <2>1. CASE Broken'
        <3>1. IsInitialPart(outport, outport') /\ Orderly(outport')
            BY <2>0, OutportGrows, NextOutport DEF OneHeaderOneTrailer
        <3>2. Offered' \in Nat /\ status' \in BOOLEAN
            <4>1. accepted' \in Nat /\ batch' \in Nat
                BY <2>0 DEF TypeOK
            <4>2. \A a, b \in Nat : a + b \in Nat
                OBVIOUS
            <4>3. status' \in BOOLEAN
                BY <2>0 DEF TypeOK
            <4>. QED  BY <4>1, <4>2, <4>3 DEF Offered
        <3>3. status' => status
            BY <2>0, NeverUndone
        <3>. QED
            BY <2>1, <3>1, <3>2, <3>3, SameFormat
               DEF Sink!Next, Sink!Break, Broken
    <2>2. CASE ~Broken'
        <3>1. ~Broken
            BY <2>0, <2>2, NeverUndone DEF Broken
        <3>2. CASE status'
            <4>1. Clean /\ Clean'
                <5>1. faults = 0 /\ faults' = 0 /\ ~finalFailed /\ ~finalFailed'
                    BY <2>0, <2>2, <3>1 DEF Broken, TypeOK
                <5>2. status
                    BY <2>0, <3>2, NeverUndone
                <5>. QED  BY <3>2, <5>1, <5>2 DEF Clean
            <4>. QED  BY <4>1, OpenStep DEF Sink!Next
        <3>3. CASE ~status'
            BY <2>2, <3>1, <3>3, ClosedStep DEF Sink!Next
        <3>. QED  BY <3>2, <3>3
    <2>. QED  BY <2>1, <2>2
<1>. QED  BY <1>1, <1>2, Invariance, PTL DEF Spec, ImplementsSink, Sink!Spec

-----------------------------------------------------------------------------
(* LZMA.encode with a block (module AuxEncode).                            *)

\* What LZMA.encode knows of its encoder: the close in the ensure clause ends
\* with an exception or with a closed encoder, and there is no answer before.
AuxInv ==
    /\ at # "end" => answer = ""
    /\ at = "closing" /\ pc # "idle" => op = "close"
    /\ at = "closing" /\ pc = "idle" => result = "raised" \/ ~status
    /\ answer \in {"value", "exception"} => ~status

\* Aux.encode uses its encoder as any program may.
LEMMA AuxIsUse == AuxNext => [Next]_vars
BY DEF AuxNext, InBlock, BlockLeft, Ensure, Closing, AuxReturn, Afterwards,
       Next, User

\* The close in the ensure clause goes on until it raises or has marked the
\* encoder as closed.
LEMMA ClosingStep ==
    ASSUME TypeOK, Control, op = "close", Step \/ Event
    PROVE  /\ pc' # "idle" => op' = "close"
           /\ pc' = "idle" => result' = "raised" \/ ~status'
<1>1. pc # "run" /\ act \in {"RUN", "FINISH"}
    BY DEF Control, TypeOK
<1>2. pc \in {"coding", "emit"} => act = "FINISH"
    BY <1>1 DEF Control
<1>3. CASE Step
    <2>1. CASE CodeFinish \/ Consume \/ Produce \/ CodeReturn
        BY <2>1 DEF CodeFinish, Consume, Produce, CodeReturn, userVars
    <2>2. CASE Emit
        BY <2>2 DEF Emit, EndCall
    <2>3. CASE Mark
        BY <2>3 DEF Mark, EndCall
    <2>4. CASE WriteDone \/ DrainDone \/ CodeRun \/ CodeRunRefused
        BY <1>1, <2>4 DEF WriteDone, DrainDone, CodeRun, CodeRunRefused
    <2>. QED  BY <1>3, <2>1, <2>2, <2>3, <2>4 DEF Step
<1>4. CASE Event
    BY <1>4 DEF Event, CodeFails, CodeAborted, EmitFails, Interrupted, EndCall
<1>. QED  BY <1>3, <1>4

\* AuxInv is inductive beside the invariant of the encoder.
LEMMA AuxStep ==
    ASSUME IInv, AuxInv, [AuxNext]_encodeVars
    PROVE  AuxInv'
<1>1. TypeOK /\ Control
    BY DEF IInv
<1>2. CASE InBlock
    BY <1>2 DEF InBlock, auxVars, AuxInv
<1>3. CASE BlockLeft
    BY <1>3 DEF BlockLeft, AuxInv
<1>4. CASE Ensure
    <2>1. status \in BOOLEAN
        BY <1>1 DEF TypeOK
    <2>. QED  BY <1>4, <2>1 DEF Ensure, Close, rubyVars, AuxInv
<1>5. CASE Closing
    <2>1. at = "closing" /\ pc # "idle" /\ op = "close" /\ answer = ""
        BY <1>5 DEF Closing, AuxInv
    <2>2. Step \/ Event
        BY <1>5 DEF Closing
    <2>. QED  BY <1>1, <1>5, <2>1, <2>2, ClosingStep DEF Closing, auxVars, AuxInv
<1>6. CASE AuxReturn
    BY <1>6 DEF AuxReturn, AuxInv, vars, rubyVars, callVars, userVars
<1>7. CASE Afterwards
    <2>1. [Next]_vars
        BY <1>7, AuxIsUse DEF AuxNext
    <2>2. status' => status
        BY <1>1, <2>1, NeverUndone
    <2>. QED  BY <1>7, <2>2 DEF Afterwards, auxVars, AuxInv
<1>8. CASE UNCHANGED encodeVars
    BY <1>8 DEF encodeVars, vars, rubyVars, callVars, userVars, auxVars, AuxInv
<1>. QED  BY <1>2, <1>3, <1>4, <1>5, <1>6, <1>7, <1>8 DEF AuxNext

\* Both invariants hold while LZMA.encode runs and afterwards.
LEMMA AuxInvariance == AuxSpec => [](IInv /\ AuxInv)
<1>1. AuxInit => IInv /\ AuxInv
    BY InitInv DEF AuxInit, AuxInv
<1>2. IInv /\ AuxInv /\ [AuxNext]_encodeVars => IInv' /\ AuxInv'
    <2>1. [AuxNext]_encodeVars => [Next]_vars
        BY AuxIsUse DEF encodeVars
    <2>. QED  BY <2>1, NextInv, AuxStep
<1>. QED  BY <1>1, <1>2, PTL DEF AuxSpec

\* LZMA.encode with a block returns the value of the block only when the
\* receiver has the complete stream of what the block wrote.
THEOREM ValueComplete == AuxSpec => []ValueMeansComplete
<1>1. IInv /\ AuxInv => ValueMeansComplete
    BY DEF IInv, ClosedIsComplete, AuxInv, ValueMeansComplete
<1>. QED  BY <1>1, AuxInvariance, PTL

\* A block that raises leaves a complete stream behind as well.
THEOREM ExceptionFinishes == AuxSpec => []ExceptionFinishesToo
<1>1. IInv /\ AuxInv => ExceptionFinishesToo
    BY DEF IInv, ClosedIsComplete, AuxInv, ExceptionFinishesToo
<1>. QED  BY <1>1, AuxInvariance, PTL

-----------------------------------------------------------------------------
(* A pipe between an Encoder and a Decoder (module RoundTrip).             *)

\* What the receiver of an encoder can hold: the beginning of some stream.
PipeFiles == {s \in Seq(Token) : \E n \in Nat : IsInitialPart(s, Frame(n))}

\* The reader is a Decoder whose file is what is in the pipe: everything that
\* DecoderProofs has proved of one step of a Decoder holds of it.
D == INSTANCE DecoderProofs WITH
    Files <- PipeFiles, MaxFaults <- 0,
    file <- outport, xz <- rxz, arrived <- Len(outport), cat <- rcat,
    tell <- rtell,
    status <- rstatus, readbuf <- rreadbuf, work <- rwork, inpos <- rinpos,
    seq <- rseq, idle <- ridle, phase <- rphase, fed <- rfed,
    decoded <- rdecoded, held <- rheld,
    pc <- rpc, act <- ract, taken <- rtaken, made <- rmade, want <- rwant,
    buf <- rbuf, result <- rresult, delivered <- rdelivered,
    gap <- rgap, closed <- rclosed, again <- ragain, faults <- rfaults

\* Nothing raises on the side of the writer: a finalizer that runs ends well.
WriterInv ==
    /\ faults = 0 /\ ~finalFailed
    /\ reach = "gone" => ~status
    /\ pc = "emit" => ret \in {"OK", "STREAM_END"}

\* Nothing goes wrong on the side of the reader.
Undisturbed ==
    /\ rphase \notin {"checked", "bad", "astray"} /\ ~rtell
    /\ rseq # "error" /\ ~ridle
    /\ rresult # "raised" /\ ~rgap /\ ~rclosed /\ ~ragain /\ rstatus # "nil"

\* The reader tells its decompressor to FINISH only when the writer is closed
\* and everything in the pipe was read.
AllThere ==
    /\ rseq = "finish" \/ (rpc = "code" /\ rreadbuf = <<>>) =>
           ~status /\ rreadbuf = <<>> /\ rinpos = Len(outport)
    /\ rpc = "coding" => (ract = "FINISH") = (rreadbuf = <<>>)
    /\ rpc = "coding" /\ ract = "FINISH" => rseq = "finish"

PipeInv == IInv /\ WriterInv /\ D!IInv /\ Undisturbed /\ AllThere

-----------------------------------------------------------------------------
(* The tokens in the pipe.                                                 *)

\* Where the header, the bytes and the trailer of a stream are.
LEMMA FrameTokens ==
    ASSUME NEW n \in Nat, NEW s \in Seq(Token), IsInitialPart(s, Frame(n)),
           NEW i \in 1 .. Len(s)
    PROVE  /\ Len(s) <= n + 2 /\ Len(s) \in Nat
           /\ (s[i] = HEAD) = (i = 1)
           /\ (s[i] = TAIL) = (i = n + 2)
           /\ (s[i] \in Nat) = (i \in 2 .. n + 1)
           /\ s[i] \in Nat => s[i] = i - 1
<1>1. Len(Frame(n)) = n + 2 /\ Len(s) \in Nat
    BY OpenedAndFrame, LenProperties
<1>2. Len(s) <= n + 2 /\ s[i] = Frame(n)[i] /\ i \in 1 .. n + 2
    BY <1>1 DEF IsInitialPart
<1>3. Frame(n)[i] = CASE i = 1     -> HEAD
                      [] i = n + 2 -> TAIL
                      [] OTHER     -> i - 1
    BY <1>2 DEF Frame
<1>4. CASE i = 1
    BY <1>1, <1>2, <1>3, <1>4, EncoderAssumption
<1>5. CASE i = n + 2
    BY <1>1, <1>2, <1>3, <1>5, EncoderAssumption
<1>6. CASE i \in 2 .. n + 1
    BY <1>1, <1>2, <1>3, <1>6, EncoderAssumption
<1>. QED  BY <1>2, <1>4, <1>5, <1>6

\* The pipe is a file that Decoder and its proofs are about.
LEMMA PipeIsInput == D!DecoderAssumption
<1>1. \A f \in PipeFiles : f \in Seq(Nat \union {HEAD, TAIL, BAD})
    <2>1. Token \subseteq Nat \union {HEAD, TAIL, BAD}
        BY DEF Token
    <2>. QED  BY <2>1, SeqMonotonic DEF PipeFiles
<1>2. ASSUME NEW f \in PipeFiles, NEW i \in 1 .. Len(f), NEW j \in 1 .. Len(f),
             i < j, f[i] \in Nat, f[j] \in Nat
      PROVE  f[i] <= f[j]
    <2>1. PICK n \in Nat : IsInitialPart(f, Frame(n))
        BY DEF PipeFiles
    <2>2. f \in Seq(Token)
        BY DEF PipeFiles
    <2>3. f[i] = i - 1 /\ f[j] = j - 1
        BY <1>2, <2>1, <2>2, FrameTokens
    <2>. QED  BY <1>2, <2>3
<1>. QED
    BY <1>1, <1>2, EncoderAssumption, RoundTripAssumption
       DEF D!DecoderAssumption

\* Step by step, the reader is that Decoder.
LEMMA ReaderIsDecoder ==
    /\ R!Step = D!Step
    /\ R!ReadDone = D!ReadDone /\ R!Take = D!Take /\ R!Fetch = D!Fetch
    /\ R!FetchInput = D!FetchInput /\ R!InportRead = D!InportRead
    /\ R!CodeBegin = D!CodeBegin /\ R!CodeRefused = D!CodeRefused
    /\ R!Consume = D!Consume /\ R!Produce = D!Produce
    /\ R!CodeReturn = D!CodeReturn
    /\ \A size : R!Read(size) = D!Read(size)
<1>. USE DEF R!fileVars, D!fileVars, R!rubyVars, D!rubyVars, R!lzmaVars,
         D!lzmaVars, R!callVars, D!callVars, R!userVars, D!userVars,
         R!histVars, D!histVars
<1>1. R!ReadDone = D!ReadDone
    BY DEF R!ReadDone, D!ReadDone, R!Return, D!Return, R!Eof, D!Eof
<1>2. R!Take = D!Take
    BY DEF R!Take, D!Take, R!Portion, D!Portion
<1>3. R!Fetch = D!Fetch
    BY DEF R!Fetch, D!Fetch
<1>4. R!FetchInput = D!FetchInput
    BY DEF R!FetchInput, D!FetchInput
<1>5. R!InportRead = D!InportRead
    BY DEF R!InportRead, D!InportRead, R!Span, D!Span
<1>6. R!CodeBegin = D!CodeBegin
    BY DEF R!CodeBegin, D!CodeBegin, R!Admits, D!Admits, R!Entered, D!Entered
<1>7. \A r : R!Look(r) = D!Look(r)
    BY DEF R!Look, D!Look, R!Raise, D!Raise
<1>8. R!CodeRefused = D!CodeRefused
    BY <1>7 DEF R!CodeRefused, D!CodeRefused, R!Admits, D!Admits, R!Refusal,
       D!Refusal
<1>9. R!Consume = D!Consume
    BY DEF R!Consume, D!Consume, R!Parsed, D!Parsed, R!Lost, D!Lost,
       R!Accepted, D!Accepted, R!Ended, D!Ended, R!DecodedBefore,
       D!DecodedBefore, R!Span, D!Span
<1>10. R!Produce = D!Produce
    BY DEF R!Produce, D!Produce
<1>11. R!CodeReturn = D!CodeReturn
    BY <1>7 DEF R!CodeReturn, D!CodeReturn, R!Verdict, D!Verdict, R!Settle,
       D!Settle, R!Left, D!Left, R!Reported, D!Reported, R!Moved, D!Moved,
       R!IdleAfter, D!IdleAfter, R!Fatal, D!Fatal, R!Statuses, D!Statuses
<1>12. \A size : R!Read(size) = D!Read(size)
    BY DEF R!Read, D!Read
<1>. QED
    BY <1>1, <1>2, <1>3, <1>4, <1>5, <1>6, <1>8, <1>9, <1>10, <1>11, <1>12
       DEF R!Step, D!Step

-----------------------------------------------------------------------------
(* The steps of the writer.                                                *)

\* While nothing went wrong, liblzma refuses the writer nothing but a write
\* after close, and close and the finalizer look at a good status.
LEMMA WriterRefused ==
    ASSUME IInv, WriterInv
    PROVE  /\ pc \in {"finish", "mark"} => status /\ op \in {"close", "finalize"}
           /\ pc = "finish" => Admits(seq, "FINISH")
           /\ CodeRunRefused => op = "write" /\ ~status
<1>1. TypeOK /\ Control /\ Conservation
    BY DEF IInv
<1>2. pc \in {"finish", "mark"} => status /\ op \in {"close", "finalize"}
    BY <1>1 DEF TypeOK, Control
<1>3. pc = "finish" => Admits(seq, "FINISH")
    BY <1>1, <1>2 DEF Conservation, WriterInv, Admits
<1>4. ASSUME CodeRunRefused
      PROVE  op = "write" /\ ~status
    <2>1. pc = "run" /\ writebuf # <<>> /\ seq # "run"
        BY <1>4 DEF CodeRunRefused, Admits
    <2>2. status => op = "write" /\ reach = "gone"
        BY <1>1, <2>1 DEF Conservation, WriterInv
    <2>3. reach # "gone"
        BY <1>1, <2>1 DEF Control, TypeOK
    <2>4. ~status => op = "write"
        BY <1>1, <2>1 DEF Control, TypeOK
    <2>. QED  BY <2>2, <2>3, <2>4
<1>. QED  BY <1>2, <1>3, <1>4

\* A step of the writer in which no event occurs causes no failure.
LEMMA WriterInvStep ==
    ASSUME IInv, WriterInv, Step \/ User \/ Finalize
    PROVE  WriterInv'
<1>0. TypeOK /\ Control
    BY DEF IInv
<1>. USE DEF WriterInv, rubyVars, lzmaVars, callVars, userVars, histVars
<1>1. CASE DrainDone \/ CodeRun \/ Consume \/ Produce
    BY <1>1 DEF DrainDone, CodeRun, Consume, Produce
<1>2. CASE WriteDone
    BY <1>2 DEF WriteDone, EndCall
<1>3. CASE CodeRunRefused
    BY <1>3, WriterRefused DEF CodeRunRefused, EndCall
<1>4. CASE CodeFinish
    BY <1>4, WriterRefused DEF CodeFinish
<1>5. CASE Emit
    BY <1>5 DEF Emit, EndCall
<1>6. CASE Mark
    BY <1>6 DEF Mark, EndCall
<1>7. CASE CodeReturn
    BY <1>7 DEF CodeReturn
<1>8. CASE User
    BY <1>8 DEF User, Write, Close, Drop
<1>9. CASE Finalize
    BY <1>9, <1>0 DEF Finalize, TypeOK
<1>. QED
    BY <1>1, <1>2, <1>3, <1>4, <1>5, <1>6, <1>7, <1>8, <1>9 DEF Step

\* What the writer does only adds to the pipe, and nothing once it is closed.
LEMMA WriterGrows ==
    ASSUME IInv, IInv', WriterInv, WriterInv', Step \/ User \/ Finalize
    PROVE  /\ outport \in PipeFiles /\ outport' \in PipeFiles
           /\ Len(outport) \in Nat /\ Len(outport') \in Nat
           /\ Len(outport) <= Len(outport')
           /\ \A i \in 1 .. Len(outport) : outport'[i] = outport[i]
           /\ ~status => ~status' /\ outport' = outport
<1>1. [Next]_vars /\ TypeOK /\ Control /\ TypeOK'
    BY DEF Next, IInv
<1>2. IsInitialPart(outport, outport')
    BY <1>1, OutportGrows
<1>3. Offered \in Nat /\ Offered' \in Nat
    <2>1. /\ accepted \in Nat /\ batch \in Nat /\ accepted' \in Nat
          /\ batch' \in Nat /\ \A a, b \in Nat : a + b \in Nat
        BY <1>1 DEF TypeOK
    <2>. QED  BY <2>1 DEF Offered
<1>4. outport \in PipeFiles
    BY <1>1, <1>3, PrefixHeld DEF PipeFiles, ReceiverHasPrefix, WriterInv, TypeOK
<1>5. outport' \in PipeFiles
    BY <1>1, <1>3, NextOutport DEF PipeFiles, ReceiverHasPrefix, WriterInv, TypeOK
<1>6. Len(outport) \in Nat /\ Len(outport') \in Nat
    BY <1>1, LenProperties DEF TypeOK
<1>7. ASSUME ~status
      PROVE  ~status' /\ outport' = outport
    <2>1. ~status'
        BY <1>1, <1>7, NeverUndone
    <2>2. pc # "emit"
        BY <1>1, <1>7 DEF Control, TypeOK
    <2>. QED  BY <1>1, <2>1, <2>2, OutportGrows DEF Emit, EmitFails
<1>8. /\ Len(outport) <= Len(outport')
      /\ \A i \in 1 .. Len(outport) : outport'[i] = outport[i]
    BY <1>2 DEF IsInitialPart
<1>. QED  BY <1>4, <1>5, <1>6, <1>7, <1>8

\* The reader does not notice what the writer adds behind what it has read.
LEMMA WriterKeepsReader ==
    ASSUME IInv, IInv', WriterInv, WriterInv', D!IInv, AllThere, Writer
    PROVE  D!IInv' /\ AllThere'
<1>1. /\ outport \in PipeFiles /\ outport' \in PipeFiles
      /\ Len(outport) \in Nat /\ Len(outport') \in Nat
      /\ Len(outport) <= Len(outport')
      /\ \A i \in 1 .. Len(outport) : outport'[i] = outport[i]
      /\ ~status => ~status' /\ outport' = outport
    BY WriterGrows DEF Writer
<1>2. UNCHANGED readerVars /\ D!TypeOK
    BY DEF Writer, D!IInv
<1>. USE DEF readerVars
<1>3. D!TypeOK'
    <2>1. \A s : s \in Seq(1 .. Len(outport)) => s \in Seq(1 .. Len(outport'))
        BY <1>1, SeqMonotonic
    <2>. QED  BY <1>1, <1>2, <2>1 DEF D!TypeOK
<1>4. D!Control'
    BY <1>2 DEF D!IInv, D!Control
<1>5. D!Parse'
    <2>1. rfed \in 0 .. Len(outport) /\ rfed' = rfed
        BY <1>2 DEF D!TypeOK
    <2>2. \A i \in 1 .. rfed : i \in 1 .. Len(outport) /\ outport'[i] = outport[i]
        BY <1>1, <2>1
    <2>3. D!Parse
        BY DEF D!IInv
    <2>4. rfed >= 1 => outport'[1] = outport[1] /\ outport'[rfed] = outport[rfed]
        BY <2>1, <2>2
    <2>5. rphase \notin {"head", "bad", "astray"} /\ (rxz \/ ~ragain) => rfed >= 1
        BY <2>1, <2>3 DEF D!Parse
    <2>6. \A i \in 1 .. rfed - 1 : i \in 1 .. rfed /\ i + 1 \in 1 .. rfed
        BY <2>1
    <2>. QED  BY <1>2, <2>1, <2>2, <2>3, <2>4, <2>5, <2>6 DEF D!Parse
<1>6. D!Input' /\ D!Places' /\ D!Ordered'
    BY <1>2 DEF D!IInv, D!Input, D!Places, D!Ordered, D!Placed, D!Rising,
       D!Precedes, D!UpTo
<1>7. AllThere'
    BY <1>1, <1>2 DEF AllThere
<1>. QED  BY <1>3, <1>4, <1>5, <1>6, <1>7 DEF D!IInv


-----------------------------------------------------------------------------
(* The steps of the reader.                                                *)

ReaderStepOrRead ==
    ReaderStep \/ \E size \in 0 .. MaxSize \union {NoSize} : ReaderRead(size)

\* What DecoderProofs has proved of a step holds of the reader's.
LEMMA ReaderKeepsDecoder ==
    ASSUME D!IInv, ReaderStepOrRead
    PROVE  D!IInv'
<1>1. D!Next
    BY ReaderIsDecoder
       DEF ReaderStepOrRead, ReaderStep, ReaderRead, D!Next, D!User
<1>. QED  BY <1>1, PipeIsInput, D!NextInv

\* What is in the pipe when the writer is closed: a complete stream.
LEMMA ClosedPipe ==
    ASSUME IInv, WriterInv, ~status
    PROVE  /\ outport = Frame(accepted) /\ Offered = accepted
           /\ accepted \in Nat /\ Len(outport) = accepted + 2
           /\ outport[Len(outport)] = TAIL
<1>1. outport = Frame(accepted) /\ accepted \in Nat /\ Offered = accepted
    BY DEF IInv, ClosedIsComplete, WriterInv, TypeOK, Offered
<1>2. Len(outport) = accepted + 2
    BY <1>1, OpenedAndFrame
<1>3. outport[accepted + 2] = TAIL
    BY <1>1 DEF Frame
<1>. QED  BY <1>1, <1>2, <1>3

\* The decompressor is never fed a token it does not expect.
LEMMA NoBadToken ==
    ASSUME IInv, WriterInv, D!IInv, Undisturbed, D!Consume
    PROVE  rphase' \notin {"checked", "bad", "astray"} /\ ~ragain'
<1>. DEFINE p == rreadbuf[rtaken + 1]
<1>1. /\ D!TypeOK /\ D!Parse /\ D!Input /\ rphase \in {"head", "body", "next"}
      /\ rtaken < Len(rreadbuf) /\ ~rtell /\ ~ragain /\ rfaults = 0
    BY DEF D!IInv, D!Consume, Undisturbed, D!TypeOK
<1>2. p = rfed + 1 /\ p \in 1 .. Len(outport) /\ rfed \in Nat
    <2>1. /\ Len(rreadbuf) \in Nat /\ rtaken \in Nat /\ rinpos \in Nat
          /\ rfed \in Nat
        BY <1>1, LenProperties DEF D!TypeOK
    <2>2. rtaken + 1 \in 1 .. Len(rreadbuf)
        BY <1>1, <2>1
    <2>3. p = rinpos - Len(rreadbuf) + (rtaken + 1)
          /\ rfed = rinpos - Len(rreadbuf) + rtaken
        BY <1>1, <2>2 DEF D!Input
    <2>4. p \in 1 .. Len(outport)
        BY <1>1, <2>2, ElementOfSeq DEF D!TypeOK
    <2>. QED  BY <2>1, <2>3, <2>4
<1>3. PICK n \in Nat : IsInitialPart(outport, Frame(n))
    BY <1>1 DEF D!TypeOK, PipeFiles
<1>4. outport \in Seq(Token)
    BY DEF IInv, TypeOK
<1>5. /\ Len(outport) <= n + 2 /\ Len(outport) \in Nat
      /\ (outport[p] = HEAD) = (p = 1)
      /\ (outport[p] = TAIL) = (p = n + 2)
      /\ (outport[p] \in Nat) = (p \in 2 .. n + 1)
    BY <1>2, <1>3, <1>4, FrameTokens
<1>6. rphase # "next"
    <2>. SUFFICES ASSUME rphase = "next" PROVE FALSE
        OBVIOUS
    <2>1. rfed \in 1 .. Len(outport) /\ outport[rfed] = TAIL
        BY <1>1, <1>2 DEF D!Parse
    <2>2. rfed = n + 2
        BY <1>3, <1>4, <2>1, FrameTokens
    <2>. QED  BY <1>2, <1>3, <1>5, <2>2
<1>7. rphase = "head" => p = 1
    BY <1>1, <1>2 DEF D!Parse
<1>8. rphase = "body" => rfed >= 1
    BY <1>1, <1>2 DEF D!Parse
<1>9. rphase' = D!Accepted(p)
    <2>1. rphase' \in D!Parsed(p)
        BY DEF D!Consume
    <2>2. ~D!Lost(p)
        BY <1>1, <1>2 DEF D!Lost
    <2>. QED  BY <2>1, <2>2 DEF D!Parsed
<1>12. ~ragain'
    BY <1>2 DEF D!Consume, Undisturbed
<1>10. CASE rphase = "head"
    BY <1>1, <1>2, <1>5, <1>7, <1>9, <1>10, <1>12 DEF D!Accepted
<1>11. CASE rphase = "body"
    <2>1. outport[p] = TAIL \/ outport[p] \in Nat
        BY <1>2, <1>3, <1>5, <1>8, <1>11
    <2>. QED  BY <1>1, <1>2, <1>9, <1>11, <1>12, <2>1
          DEF D!Accepted, D!Ended
<1>. QED  BY <1>1, <1>6, <1>10, <1>11, <1>12

\* Every call of the reader's decompressor is admitted, makes progress, and
\* ends with LZMA_OK or LZMA_STREAM_END.
LEMMA CallsProgress ==
    ASSUME IInv, WriterInv, D!IInv, Undisturbed, AllThere
    PROVE  /\ ~D!CodeRefused
           /\ \A s \in Statuses : rpc = "coding" /\ D!Verdict(s) =>
                  s \in {"OK", "STREAM_END"} /\ (s = "OK" => D!Moved)
<1>1. /\ D!TypeOK /\ D!Control /\ D!Parse /\ D!Input /\ rfaults = 0
      /\ ~ragain /\ rphase # "astray"
    BY DEF D!IInv, D!TypeOK, Undisturbed
<1>2. ~D!CodeRefused
    <2>1. rpc = "code" => rseq \in {"run", "finish"}
        BY <1>1 DEF D!Input, D!TypeOK, D!Phases, Undisturbed
    <2>. QED  BY <2>1 DEF AllThere, D!CodeRefused, D!Admits
<1>3. ASSUME NEW s \in Statuses, rpc = "coding", D!Verdict(s)
      PROVE  s \in {"OK", "STREAM_END"} /\ (s = "OK" => D!Moved)
    <2>1. s \in {"OK", "STREAM_END"}
        BY <1>3 DEF D!Verdict, Undisturbed
    <2>2. ASSUME Len(rmade) = BLOCKSIZE
          PROVE  D!Moved
        <3>1. Len(rmade) # 0
            BY <2>2, EncoderAssumption
        <3>. QED  BY <3>1, EmptySeq DEF D!Moved
    <2>3. ASSUME s = "OK", rtaken = Len(rreadbuf),
                 rphase \in {"head", "body", "next"},
                 ~(rphase = "next" /\ ract = "FINISH")
          PROVE  D!Moved
        <3>1. rtaken \in Nat /\ Len(rreadbuf) \in Nat
            BY <1>1, LenProperties DEF D!TypeOK
        <3>2. CASE rreadbuf # <<>>
            <4>1. Len(rreadbuf) # 0
                BY <1>1, <3>2, EmptySeq DEF D!TypeOK
            <4>. QED  BY <2>3, <3>1, <4>1 DEF D!Moved
        <3>3. CASE rreadbuf = <<>>
            <4>1. ract = "FINISH" /\ rseq = "finish"
                BY <1>3, <3>3 DEF AllThere
            <4>2. ~status /\ rinpos = Len(outport) /\ Len(rreadbuf) = 0
                BY <3>3, <4>1, EmptySeq DEF AllThere
            <4>3. rfed = Len(outport)
                BY <1>1, <2>3, <3>1, <4>2 DEF D!Input, D!TypeOK
            <4>4. accepted \in Nat /\ rfed = accepted + 2 /\ outport[rfed] = TAIL
                BY <4>2, <4>3, ClosedPipe
            <4>5. rphase # "head" /\ rphase # "body"
                BY <1>1, <4>4 DEF D!Parse
            <4>. QED  BY <2>3, <4>1, <4>5
        <3>. QED  BY <3>2, <3>3
    <2>. QED  BY <1>3, <2>1, <2>2, <2>3 DEF D!Verdict, Undisturbed
<1>. QED  BY <1>2, <1>3


\* A call of the reader's decompressor returns: nothing is raised, and the
\* end of the stream or a round of the loop follows.
LEMMA ReaderReturn ==
    ASSUME IInv, WriterInv, D!IInv, Undisturbed, AllThere, D!CodeReturn
    PROVE  /\ rresult' = rresult /\ rgap' = rgap /\ rpc' \in {"fetch", "loop"}
           /\ ~ridle' /\ rphase' = rphase /\ rstatus' \in {rstatus, "finished"}
           /\ \/ rseq' = "end"
              \/ rseq' = rseq /\ (rseq = "finish" => rreadbuf' = <<>>)
<1>1. PICK s \in D!Statuses :
          D!Verdict(s) /\ D!Settle(s) /\ D!Look(D!Reported(s, D!Moved, ridle))
    BY DEF D!CodeReturn
<1>2. s \in {"OK", "STREAM_END"} /\ (s = "OK" => D!Moved)
    <2>1. rpc = "coding" /\ s \in Statuses
        BY <1>1 DEF D!CodeReturn, D!Statuses, Statuses
    <2>. QED  BY <1>1, <2>1, CallsProgress
<1>3. D!Reported(s, D!Moved, ridle) = s /\ D!Look(s)
    BY <1>1, <1>2 DEF D!Reported
<1>4. ~ridle' /\ rphase' = rphase /\ rseq' = D!Left(rseq, s)
    BY <1>1, <1>2 DEF D!Settle, D!IdleAfter
<1>5. rseq' = "end" \/ rseq' = rseq
    BY <1>2, <1>4 DEF D!Left, D!Fatal
<1>6. /\ rresult' = rresult /\ rgap' = rgap /\ rpc' \in {"fetch", "loop"}
      /\ rstatus' \in {rstatus, "finished"}
    BY <1>2, <1>3 DEF D!Look, D!userVars
<1>7. rseq = "finish" => rreadbuf' = <<>>
    <2>. SUFFICES ASSUME rseq = "finish"
                  PROVE  rreadbuf' = <<>>
        OBVIOUS
    <2>1. rreadbuf = <<>> /\ Len(rreadbuf) = 0
        BY EmptySeq DEF AllThere
    <2>2. rtaken = 0
        BY <2>1 DEF D!IInv, D!TypeOK
    <2>3. rreadbuf' = SubSeq(rreadbuf, 1, 0)
        BY <2>1, <2>2 DEF D!CodeReturn
    <2>. QED  BY <2>1, <2>3, SubSeqEmpty
<1>. QED  BY <1>4, <1>5, <1>6, <1>7

\* The reader is left in peace, and it does not tell its decompressor to
\* FINISH before everything is there.
LEMMA ReaderInPeace ==
    ASSUME IInv, WriterInv, D!IInv, Undisturbed, AllThere, ReaderStepOrRead
    PROVE  Undisturbed' /\ AllThere'
<1>0. UNCHANGED <<outport, status>>
    BY DEF ReaderStepOrRead, ReaderStep, ReaderRead, vars, rubyVars
<1>. USE DEF D!fileVars, D!rubyVars, D!lzmaVars, D!callVars, D!userVars,
         D!histVars
<1>1. CASE D!ReadDone
    BY <1>0, <1>1 DEF D!ReadDone, D!Return, Undisturbed, AllThere
<1>2. CASE D!Take \/ D!Fetch \/ D!Produce
    BY <1>0, <1>2 DEF D!Take, D!Fetch, D!Produce, Undisturbed, AllThere
<1>3. CASE D!FetchInput
    BY <1>0, <1>3 DEF D!FetchInput, Undisturbed, AllThere
<1>4. CASE D!InportRead /\ (rinpos' > rinpos \/ ~status)
    <2>1. PICK n \in rinpos .. Len(outport) :
              /\ n = rinpos => rinpos = Len(outport)
              /\ rreadbuf' = D!Span(rinpos, n) /\ rinpos' = n
        BY <1>4 DEF D!InportRead
    <2>2. rinpos \in Nat /\ n \in Nat /\ Len(outport) \in Nat
          /\ rinpos <= n /\ n <= Len(outport)
        <3>1. Len(outport) \in Nat /\ rinpos \in 0 .. Len(outport)
            BY LenProperties DEF D!IInv, D!TypeOK, IInv, TypeOK
        <3>. QED  BY <3>1
    <2>3. /\ Len(rreadbuf') = n - rinpos
          /\ rreadbuf' \in Seq(rinpos + 1 .. n)
        BY <2>1, <2>2, PipeIsInput, D!SpanFacts
    <2>4. rreadbuf' = <<>> <=> n = rinpos
        BY <2>2, <2>3, EmptySeq
    <2>5. n = rinpos => rinpos' = Len(outport) /\ ~status
        BY <1>4, <2>1, <2>2
    <2>6. rseq = "finish" => n = rinpos
        BY <2>2 DEF AllThere
    <2>. QED
        BY <1>0, <1>4, <2>4, <2>5, <2>6 DEF D!InportRead, Undisturbed, AllThere
<1>5. CASE D!CodeBegin
    <2>1. ract' = IF rreadbuf = <<>> THEN "FINISH" ELSE "RUN"
        BY <1>5 DEF D!CodeBegin
    <2>2. rseq' \in {rseq, "finish"} /\ (ract' = "FINISH" => rseq' = "finish")
          /\ (ract' = "RUN" => rseq' = rseq)
        BY <1>5, <2>1 DEF D!CodeBegin, D!Entered
    <2>. QED  BY <1>0, <1>5, <2>1, <2>2 DEF D!CodeBegin, Undisturbed, AllThere
<1>6. CASE D!CodeRefused
    BY <1>6, CallsProgress
<1>7. CASE D!Consume
    BY <1>0, <1>7, NoBadToken DEF D!Consume, Undisturbed, AllThere
<1>8. CASE D!CodeReturn
    BY <1>0, <1>8, ReaderReturn DEF D!CodeReturn, Undisturbed, AllThere
<1>9. CASE \E size \in 0 .. MaxSize \union {NoSize} : D!Read(size)
    BY <1>0, <1>9 DEF D!Read, Undisturbed, AllThere
<1>10. D!InportRead => rpc = "inread"
    BY DEF D!InportRead
<1>. QED
    BY <1>1, <1>2, <1>3, <1>4, <1>5, <1>6, <1>7, <1>8, <1>9, <1>10,
       ReaderIsDecoder
       DEF ReaderStepOrRead, ReaderStep, ReaderRead, D!Step

-----------------------------------------------------------------------------
\* No step of the writer or the reader takes the invariant away.
LEMMA PipeStep ==
    PipeInv /\ [RTNext]_allVars => PipeInv'
<1>. SUFFICES ASSUME PipeInv, [RTNext]_allVars
              PROVE  PipeInv'
    OBVIOUS
<1>0. IInv /\ WriterInv /\ D!IInv /\ Undisturbed /\ AllThere
    BY DEF PipeInv
<1>1. CASE Writer
    <2>1. IInv'
        BY <1>0, <1>1, NextInv DEF Writer, Next
    <2>2. WriterInv'
        BY <1>0, <1>1, WriterInvStep DEF Writer
    <2>3. D!IInv' /\ AllThere'
        BY <1>0, <1>1, <2>1, <2>2, WriterKeepsReader
    <2>4. Undisturbed'
        BY <1>0, <1>1 DEF Writer, readerVars, Undisturbed
    <2>. QED  BY <2>1, <2>2, <2>3, <2>4 DEF PipeInv
<1>2. CASE ReaderStepOrRead
    <2>1. UNCHANGED vars
        BY <1>2 DEF ReaderStepOrRead, ReaderStep, ReaderRead
    <2>2. IInv'
        BY <1>0, <2>1, NextInv
    <2>3. WriterInv'
        BY <1>0, <2>1 DEF WriterInv, vars, rubyVars, callVars, userVars, histVars
    <2>4. D!IInv' /\ Undisturbed' /\ AllThere'
        BY <1>0, <1>2, ReaderKeepsDecoder, ReaderInPeace
    <2>. QED  BY <2>2, <2>3, <2>4 DEF PipeInv
<1>3. CASE UNCHANGED allVars
    <2>1. UNCHANGED vars /\ UNCHANGED readerVars
        BY <1>3 DEF allVars
    <2>2. IInv'
        BY <1>0, <2>1, NextInv
    <2>3. WriterInv' /\ Undisturbed' /\ AllThere'
        BY <1>0, <2>1 DEF WriterInv, Undisturbed, AllThere, vars, rubyVars,
           callVars, userVars, histVars, readerVars
    <2>4. UNCHANGED D!vars
        BY <2>1 DEF vars, rubyVars, readerVars, D!vars, D!fileVars, D!rubyVars,
           D!lzmaVars, D!callVars, D!userVars, D!histVars
    <2>5. D!IInv'
        BY <1>0, <2>4, PipeIsInput, D!NextInv
    <2>. QED  BY <2>2, <2>3, <2>5 DEF PipeInv
<1>. QED  BY <1>1, <1>2, <1>3 DEF RTNext, ReaderStepOrRead

\* A new encoder, an empty pipe, a new decoder.
LEMMA PipeInit ==
    RTInit => PipeInv
<1>. SUFFICES ASSUME RTInit
              PROVE  PipeInv
    OBVIOUS
<1>1. IInv /\ WriterInv
    BY InitInv DEF RTInit, Init, WriterInv
<1>2. outport = <<>> /\ Len(outport) = 0 /\ Frame(0) \in Seq(Token)
    BY EmptySeq, OpenedAndFrame DEF RTInit, Init
<1>3. outport \in PipeFiles
    BY <1>2, OpenedAndFrame, EmptySeq DEF PipeFiles, IsInitialPart
<1>4. D!Init
    <2>1. rcat \in BOOLEAN /\ rtell \in BOOLEAN
        BY DEF RTInit, ReaderInit
    <2>2. Len(outport) \in 0 .. Len(outport)
        BY <1>2
    <2>. QED  BY <1>3, <2>1, <2>2 DEF RTInit, ReaderInit, D!Init
<1>5. D!IInv
    BY <1>4, PipeIsInput, D!InitInv
<1>6. Undisturbed /\ AllThere
    BY DEF RTInit, ReaderInit, Undisturbed, AllThere
<1>. QED  BY <1>1, <1>5, <1>6 DEF PipeInv

\* The invariant of the pipe holds in every behaviour.
LEMMA PipeInvariance == RTSpec => []PipeInv
BY PipeInit, PipeStep, PTL DEF RTSpec

\* A reader that waits for a slow writer never gets an exception
\* (WaitingIsNoError), however much was written, read or asked for.
THEOREM NoErrorFromWaiting == RTSpec => []WaitingIsNoError
<1>1. PipeInv => WaitingIsNoError
    BY DEF PipeInv, Undisturbed, WaitingIsNoError
<1>. QED  BY <1>1, PipeInvariance, PTL


-----------------------------------------------------------------------------
(* Encoder, pipe and Decoder implement Channel.                            *)

\* What the writer does is, for the channel, a Put, the Shut, or nothing.
LEMMA WriterOffers ==
    ASSUME IInv, WriterInv, WriterInv', TypeOK', Step \/ User \/ Finalize,
           UNCHANGED readerVars
    PROVE  [C!Next]_C!vars
<1>0. TypeOK /\ Control
    BY DEF IInv
<1>1. /\ accepted \in Nat /\ batch \in Nat /\ status \in BOOLEAN
      /\ Offered \in Nat /\ Offered' \in Nat
    <2>1. /\ accepted \in Nat /\ batch \in Nat /\ accepted' \in Nat
          /\ batch' \in Nat /\ \A a, b \in Nat : a + b \in Nat
        BY <1>0 DEF TypeOK
    <2>. QED  BY <1>0, <2>1 DEF Offered, TypeOK
<1>2. UNCHANGED <<rdelivered, rresult>>
    BY DEF readerVars
<1>. USE DEF rubyVars, lzmaVars, callVars, userVars, histVars
<1>3. CASE DrainDone \/ CodeRun \/ Consume \/ Produce \/ CodeReturn \/ CodeFinish
           \/ Drop
    BY <1>2, <1>3 DEF DrainDone, CodeRun, Consume, Produce, CodeReturn,
       CodeFinish, Drop, Offered, C!vars
<1>4. CASE WriteDone
    <2>1. /\ op = "write" /\ op' = "none" /\ status' = status /\ batch' = 0
          /\ accepted' = accepted + batch /\ writebuf = <<>>
        BY <1>4 DEF WriteDone, EndCall
    <2>2. ~status => batch = 0
        BY <1>0, <1>1, <2>1, EmptySeq DEF Control
    <2>. QED  BY <1>1, <1>2, <2>1, <2>2 DEF Offered, C!vars
<1>5. CASE CodeRunRefused
    <2>1. /\ op = "write" /\ op' = "none" /\ ~status /\ status' = status
          /\ accepted' = accepted
        BY <1>5, WriterRefused DEF CodeRunRefused, EndCall
    <2>. QED  BY <1>1, <1>2, <2>1 DEF Offered, C!vars
<1>6. CASE Emit
    <2>1. UNCHANGED <<status, op, accepted, batch>>
        BY <1>6 DEF Emit, WriterInv
    <2>. QED  BY <1>2, <2>1 DEF Offered, C!vars
<1>7. CASE Mark
    <2>1. op \in {"close", "finalize"} /\ batch = 0 /\ status
        BY <1>0, <1>7, WriterRefused DEF Mark, Control
    <2>2. status' = FALSE /\ accepted' = accepted
        BY <1>7, <2>1 DEF Mark, EndCall
    <2>. QED  BY <1>1, <1>2, <2>1, <2>2 DEF Offered, C!vars
<1>8. CASE \E k \in 0 .. MaxUnits : Write(k)
    <2>1. PICK k \in 0 .. MaxUnits : Write(k)
        BY <1>8
    <2>2. /\ op = "none" /\ batch = 0 /\ op' = "write" /\ batch' = k
          /\ accepted' = accepted /\ status' = status /\ k \in Nat
        BY <1>0, <2>1, EncoderAssumption DEF Write, Control
    <2>3. Offered' >= Offered /\ (~status => Offered' = Offered)
        BY <1>1, <2>2 DEF Offered
    <2>. QED  BY <1>1, <1>2, <2>2, <2>3 DEF C!Next, C!Put, C!vars
<1>9. CASE Close
    <2>1. op = "none" /\ UNCHANGED <<status, accepted, batch>>
        BY <1>0, <1>9 DEF Close, Control
    <2>2. op' = IF status THEN "close" ELSE "none"
        BY <1>0, <1>9, <2>1 DEF Close, TypeOK
    <2>. QED
        BY <1>1, <1>2, <2>1, <2>2 DEF Offered, C!Next, C!Shut, C!vars
<1>10. CASE Finalize
    <2>1. op = "none" /\ UNCHANGED <<status, accepted, batch>>
        BY <1>0, <1>10 DEF Finalize, Control
    <2>2. op' = IF status THEN "finalize" ELSE "none"
        BY <1>0, <1>10, <2>1 DEF Finalize, TypeOK
    <2>. QED
        BY <1>1, <1>2, <2>1, <2>2 DEF Offered, C!Next, C!Shut, C!vars
<1>. QED
    BY <1>3, <1>4, <1>5, <1>6, <1>7, <1>8, <1>9, <1>10 DEF Step, User

\* The reader cannot decode more than was offered to the writer.
LEMMA DecodedOffered ==
    ASSUME PipeInv
    PROVE  rdecoded \in Nat /\ rdecoded <= Offered
<1>1. /\ D!TypeOK /\ D!Parse /\ rphase \notin {"bad", "astray"} /\ ~ragain
      /\ TypeOK
    BY DEF PipeInv, D!IInv, Undisturbed, IInv
<1>2. IsInitialPart(outport, Frame(Offered)) /\ Offered \in Nat
    <2>1. /\ accepted \in Nat /\ batch \in Nat
          /\ \A a, b \in Nat : a + b \in Nat
        BY <1>1 DEF TypeOK
    <2>. QED  BY <2>1, PrefixHeld DEF PipeInv, ReceiverHasPrefix, WriterInv, Offered
<1>3. rdecoded \in Nat /\ rfed \in 0 .. Len(outport) /\ Len(outport) \in Nat
    BY <1>1, LenProperties DEF D!TypeOK, TypeOK
<1>4. CASE rdecoded = 0
    BY <1>2, <1>4
<1>5. CASE \E i \in 1 .. rfed : outport[i] = rdecoded
    <2>1. PICK i \in 1 .. rfed : outport[i] = rdecoded
        BY <1>5
    <2>2. i \in 1 .. Len(outport) /\ outport[i] \in Nat
        BY <1>3, <2>1
    <2>3. i \in 2 .. Offered + 1 /\ outport[i] = i - 1
        BY <1>1, <1>2, <2>2, FrameTokens DEF TypeOK
    <2>. QED  BY <1>2, <1>3, <2>1, <2>3
<1>. QED  BY <1>1, <1>3, <1>4, <1>5 DEF D!Parse

\* When the decompressor has found the end of the stream, the writer has
\* ended it, and every byte that was offered is decoded.
LEMMA EndDecoded ==
    ASSUME PipeInv, rseq = "end"
    PROVE  /\ ~(status /\ op \notin {"close", "finalize"})
           /\ rdecoded = Offered
<1>1. /\ D!TypeOK /\ D!Parse /\ rphase \in {"next", "done"} /\ ~ragain
      /\ TypeOK /\ Control
      /\ IInv /\ WriterInv
    BY DEF PipeInv, D!IInv, D!Control, Undisturbed, IInv
<1>2. IsInitialPart(outport, Frame(Offered)) /\ Offered \in Nat
    <2>1. /\ accepted \in Nat /\ batch \in Nat
          /\ \A a, b \in Nat : a + b \in Nat
        BY <1>1 DEF TypeOK
    <2>. QED  BY <1>1, <2>1, PrefixHeld DEF ReceiverHasPrefix, WriterInv, Offered
<1>3. rfed \in 0 .. Len(outport) /\ Len(outport) \in Nat /\ rdecoded \in Nat
    BY <1>1, LenProperties DEF D!TypeOK, TypeOK
<1>4. rfed \in 1 .. Len(outport) /\ outport[rfed] = TAIL
    BY <1>1, <1>3 DEF D!Parse
<1>5. rfed = Offered + 2
    BY <1>1, <1>2, <1>4, FrameTokens DEF TypeOK
<1>6. rdecoded <= Offered
    BY DecodedOffered
<1>7. Offered <= rdecoded
    <2>1. CASE Offered = 0
        BY <1>3, <2>1
    <2>2. CASE Offered # 0
        <3>1. /\ Offered + 1 \in 1 .. rfed /\ Offered + 1 \in 1 .. Len(outport)
              /\ Offered + 1 \in 2 .. Offered + 1
            BY <1>2, <1>3, <1>4, <1>5, <2>2
        <3>2. outport[Offered + 1] \in Nat /\ outport[Offered + 1] = Offered + 1 - 1
            BY <1>1, <1>2, <3>1, FrameTokens DEF TypeOK
        <3>3. outport[Offered + 1] <= rdecoded
            BY <1>1, <3>1, <3>2 DEF D!Parse
        <3>. QED  BY <1>2, <3>2, <3>3
    <2>. QED  BY <2>1, <2>2
<1>8. ~(status /\ op \notin {"close", "finalize"})
    <2>. SUFFICES ASSUME status, op \in {"none", "write"}
                  PROVE  FALSE
        BY <1>1 DEF TypeOK
    <2>1. seq = "run"
        <3>1. CASE op = "none"
            BY <1>1, <3>1 DEF IInv, Control, Conservation, WriterInv
        <3>2. CASE op = "write"
            <4>1. reach = "held" /\ pc \in {"run", "coding", "emit"}
                BY <1>1, <3>2 DEF Control, TypeOK
            <4>2. act = "RUN" \/ pc = "run"
                BY <1>1, <3>2, <4>1 DEF Control, TypeOK
            <4>. QED  BY <1>1, <4>1, <4>2 DEF IInv, Control, Conservation, WriterInv
        <3>. QED  BY <3>1, <3>2
    <2>2. /\ outport \in Seq(Token) /\ Undelivered \in Seq(Token)
          /\ held \in Seq(Token) /\ Len(Undelivered) \in Nat
        BY <1>1, WholeTypes, LenProperties DEF TypeOK
    <2>3. SubSeq(Undelivered, 1, 0) = <<>> /\ outport \o <<>> = outport
        BY <2>2, SubSeqEmpty, ConcatEmptySeq
    <2>4. 0 \in 0 .. Len(Undelivered)
        BY <2>2
    <2>5. Len(outport) <= Len(Whole) /\ outport[rfed] = Whole[rfed]
        BY <1>4, <2>2, <2>3, <2>4, FrontOfConcat DEF Whole
    <2>6. rfed \in 1 .. Len(Whole)
        BY <1>1, <1>3, <1>4, <2>5, WholeTypes, LenProperties
    <2>. QED  BY <1>1, <1>4, <2>1, <2>5, <2>6 DEF IInv, InOrder
<1>. QED  BY <1>2, <1>3, <1>6, <1>7, <1>8

\* What a read returns, the channel gives: the bytes that are due, and the
\* end when there is no more to come.
LEMMA ReaderGets ==
    ASSUME PipeInv, D!ReadDone, UNCHANGED vars
    PROVE  C!Next
<1>. DEFINE n == Len(rbuf)
            last == rresult' = "short"
<1>1. /\ D!TypeOK /\ D!Control /\ D!Places /\ ~rgap /\ ~rclosed /\ ~ragain
      /\ TypeOK /\ rstatus # "nil"
    BY DEF PipeInv, D!IInv, Undisturbed, IInv
<1>2. /\ rdelivered' = rdelivered \o rbuf
      /\ rresult' = IF rwant = 0 THEN "full" ELSE "short"
      /\ rpc = "loop" /\ (rwant # 0 => rwork = <<>> /\ rstatus # "ready")
    BY <1>1 DEF D!ReadDone, D!Return, D!Eof
<1>3. /\ Len(rbuf) \in Nat /\ Len(rdelivered) \in Nat /\ Len(rwork) \in Nat
      /\ Len(rmade) \in Nat /\ Len(rheld) \in Nat /\ rdecoded \in Nat
      /\ rbuf \in Seq(Nat) /\ rdelivered \in Seq(Nat)
    BY <1>1, LenProperties DEF D!TypeOK
<1>4. rdecoded = Len(rdelivered) + Len(rbuf) + Len(rwork) + Len(rmade) + Len(rheld)
    BY <1>1 DEF D!Places
<1>5. rdecoded <= Offered /\ Offered \in Nat
    <2>1. /\ accepted \in Nat /\ batch \in Nat
          /\ \A a, b \in Nat : a + b \in Nat
        BY <1>1 DEF TypeOK
    <2>. QED  BY <2>1, DecodedOffered DEF Offered
<1>6. Len(rdelivered) + n <= Offered /\ n \in 0 .. Offered
    BY <1>3, <1>4, <1>5
<1>7. rbuf = [i \in 1 .. n |-> Len(rdelivered) + i]
    <2>. DEFINE due == [i \in 1 .. n |-> Len(rdelivered) + i]
    <2>1. due \in Seq(Nat) /\ Len(due) = n
        BY <1>3, Consecutive
    <2>2. \A i \in 1 .. n : rbuf[i] = due[i]
        BY <1>1 DEF D!Places, D!Placed
    <2>. HIDE DEF due
    <2>3. rbuf = due
        BY <1>3, <2>1, <2>2, SeqEqual
    <2>. QED  BY <2>3 DEF due
<1>8. Len(rdelivered') = Len(rdelivered) + n
    BY <1>2, <1>3, ConcatProperties
<1>9. UNCHANGED <<Offered, status, op>>
    BY DEF vars, rubyVars, callVars, userVars, histVars, Offered
<1>10. last => /\ ~(status /\ op \notin {"close", "finalize"})
               /\ Len(rdelivered') = Offered
    <2>. SUFFICES ASSUME last
                  PROVE  /\ ~(status /\ op \notin {"close", "finalize"})
                         /\ Len(rdelivered') = Offered
        OBVIOUS
    <2>1. rwork = <<>> /\ rstatus = "finished"
        BY <1>1, <1>2 DEF D!TypeOK
    <2>2. rseq = "end" /\ rphase \in {"done", "next"} /\ rmade = <<>>
        BY <1>1, <1>2, <2>1 DEF D!Control
    <2>3. rheld = <<>>
        BY <1>1, <2>2 DEF D!Control
    <2>4. Len(rwork) = 0 /\ Len(rmade) = 0 /\ Len(rheld) = 0
        BY <2>1, <2>2, <2>3, EmptySeq
    <2>. QED  BY <1>3, <1>4, <1>8, <2>2, <2>4, EndDecoded
<1>11. C!Get(n, last)
    BY <1>2, <1>6, <1>7, <1>8, <1>9, <1>10 DEF C!Get
<1>. QED  BY <1>6, <1>11 DEF C!Next

\* The steps of the reader between two returns cannot be seen.
LEMMA ReaderAsks ==
    ASSUME PipeInv, ReaderStepOrRead
    PROVE  [C!Next]_C!vars
<1>0. UNCHANGED vars /\ UNCHANGED <<Offered, status, op>>
    BY DEF ReaderStepOrRead, ReaderStep, ReaderRead, vars, rubyVars, callVars,
       userVars, histVars, Offered
<1>. USE DEF D!userVars, D!callVars
<1>1. CASE D!ReadDone
    BY <1>0, <1>1, ReaderGets
<1>2. CASE D!Take \/ D!Fetch \/ D!FetchInput \/ D!InportRead \/ D!CodeBegin
           \/ D!Consume \/ D!Produce
    BY <1>0, <1>2 DEF D!Take, D!Fetch, D!FetchInput, D!InportRead, D!CodeBegin,
       D!Consume, D!Produce, C!vars
<1>3. CASE D!CodeRefused
    BY <1>3, CallsProgress DEF PipeInv
<1>4. CASE D!CodeReturn
    <2>1. rresult' = rresult
        BY <1>4, ReaderReturn DEF PipeInv
    <2>2. rdelivered' = rdelivered
        BY <1>4 DEF D!CodeReturn, D!Look, D!Raise
    <2>. QED  BY <1>0, <2>1, <2>2 DEF C!vars
<1>5. CASE \E size \in 0 .. MaxSize \union {NoSize} : D!Read(size)
    BY <1>0, <1>5 DEF D!Read, C!Next, C!Ask
<1>. QED
    BY <1>1, <1>2, <1>3, <1>4, <1>5, ReaderIsDecoder
       DEF ReaderStepOrRead, ReaderStep, ReaderRead, D!Step

\* Encoder, pipe and Decoder together are a channel: every byte once and in
\* order, and the end when the writer has ended the stream and all was read.
THEOREM ChannelImplemented == RTSpec => ImplementsChannel
<1>1. RTInit => C!Init
    BY DEF RTInit, Init, ReaderInit, C!Init, Offered
<1>2. PipeInv /\ PipeInv' /\ [RTNext]_allVars => [C!Next]_C!vars
    <2>. SUFFICES ASSUME PipeInv, PipeInv', [RTNext]_allVars
                  PROVE  [C!Next]_C!vars
        OBVIOUS
    <2>1. CASE Writer
        BY <2>1, WriterOffers DEF Writer, PipeInv, IInv
    <2>2. CASE ReaderStepOrRead
        BY <2>2, ReaderAsks
    <2>3. CASE UNCHANGED allVars
        BY <2>3 DEF allVars, vars, rubyVars, callVars, userVars, histVars,
           readerVars, Offered, C!vars
    <2>. QED  BY <2>1, <2>2, <2>3 DEF RTNext, ReaderStepOrRead
<1>. QED
    BY <1>1, <1>2, PipeInvariance, PTL DEF RTSpec, ImplementsChannel, C!Spec
=============================================================================
