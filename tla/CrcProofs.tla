------------------------------ MODULE CrcProofs ------------------------------
(***************************************************************************)
(* Theorems about the checksum objects of module Crc, for any number of    *)
(* threads, Strings and bytes.                                             *)
(***************************************************************************)
EXTENDS Crc, RubyStringProofs

\* Appending to the right part of a concatenation appends to the whole.
LEMMA ConcatAppend ==
    ASSUME NEW S, NEW s \in Seq(S), NEW t \in Seq(S), NEW x \in S
    PROVE  s \o Append(t, x) = Append(s \o t, x)
<1>. DEFINE l == s \o Append(t, x)
            r == Append(s \o t, x)
<1>1. /\ Append(t, x) \in Seq(S) /\ Len(Append(t, x)) = Len(t) + 1
      /\ \A i \in 1 .. Len(t) : Append(t, x)[i] = t[i]
      /\ Append(t, x)[Len(t) + 1] = x
    OBVIOUS
<1>2. /\ s \o t \in Seq(S) /\ Len(s \o t) = Len(s) + Len(t)
      /\ \A i \in 1 .. Len(s) + Len(t) :
            (s \o t)[i] = IF i <= Len(s) THEN s[i] ELSE t[i - Len(s)]
    BY ConcatProperties
<1>3. /\ l \in Seq(S) /\ Len(l) = Len(s) + Len(t) + 1
      /\ \A i \in 1 .. Len(s) + Len(t) + 1 :
            l[i] = IF i <= Len(s) THEN s[i] ELSE Append(t, x)[i - Len(s)]
    BY <1>1, ConcatProperties, LenProperties
<1>4. /\ r \in Seq(S) /\ Len(r) = Len(s) + Len(t) + 1
      /\ \A i \in 1 .. Len(s) + Len(t) : r[i] = (s \o t)[i]
      /\ r[Len(s) + Len(t) + 1] = x
    BY <1>2
<1>5. ASSUME NEW i \in 1 .. Len(l)
      PROVE  l[i] = r[i]
    BY <1>1, <1>2, <1>3, <1>4, LenProperties
<1>. HIDE DEF l, r
<1>6. l = r
    BY <1>3, <1>4, <1>5, SeqEqual
<1>. QED  BY <1>6 DEF l, r

\* C code points into the Strings of the updates that are calculating.
Calculating == {t \in Threads : pc[t] = "calc"}
Pointing == mem.raw = {next[t].buf : t \in Calculating}

\* An update that nobody disturbed still reads the String it was given.
Reading ==
    \A t \in Calculating : ~changed[t] =>
        /\ mem.ref[arg[t]] = next[t].buf /\ Text(mem, arg[t]) = text[t]
        /\ next[t].off + rest[t] = Len(text[t])
        /\ crc[t] = from[t] \o SubSeq(text[t], 1, next[t].off)

\* While nobody was careless there is one update at a time, over the state it
\* was called with and a String nobody changes.
Alone ==
    ~careless =>
        /\ \A t, u \in Running : t = u
        /\ \A t \in Running : from[t] = state
        /\ \A t \in Threads : ~changed[t]

IInv ==
    /\ TypeOK /\ WellFormed(mem) /\ Pointing /\ Reading /\ Alone
    /\ DupIsEnough /\ StateIsWhole

-----------------------------------------------------------------------------
\* One byte more of a prefix.
LEMMA PrefixGrows ==
    ASSUME NEW S, NEW f \in Seq(S), NEW s \in Seq(S), NEW k \in Nat,
           k + 1 <= Len(s)
    PROVE  /\ f \o SubSeq(s, 1, k + 1) = Append(f \o SubSeq(s, 1, k), s[k + 1])
           /\ s[k + 1] \in S
<1>. DEFINE p == SubSeq(s, 1, k)
            q == SubSeq(s, 1, k + 1)
<1>1. Len(s) \in Nat /\ k \in 0 .. Len(s) /\ k + 1 \in 0 .. Len(s)
      /\ k + 1 \in 1 .. Len(s)
    BY LenProperties
<1>2. s[k + 1] \in S
    BY <1>1, ElementOfSeq
<1>3. p \in Seq(S) /\ Len(p) = k /\ \A i \in 1 .. k : p[i] = s[i]
    BY <1>1, SubSeqPrefix
<1>4. q \in Seq(S) /\ Len(q) = k + 1 /\ \A i \in 1 .. k + 1 : q[i] = s[i]
    BY <1>1, SubSeqPrefix
<1>. HIDE DEF p, q
<1>5. /\ Append(p, s[k + 1]) \in Seq(S) /\ Len(Append(p, s[k + 1])) = k + 1
      /\ \A i \in 1 .. k + 1 : Append(p, s[k + 1])[i] = s[i]
    BY <1>2, <1>3, AppendProperties
<1>6. q = Append(p, s[k + 1])
    BY <1>4, <1>5, SeqEqual
<1>7. f \o Append(p, s[k + 1]) = Append(f \o p, s[k + 1])
    BY <1>2, <1>3, ConcatAppend
<1>. QED  BY <1>2, <1>6, <1>7 DEF p, q

\* There are never more pointers than threads, so malloc finds a buffer.
LEMMA RoomLeft ==
    ASSUME mem \in Memory, Pointing
    PROVE  Room(mem)
<1>. DEFINE f == [t \in Calculating |-> next[t].buf]
<1>1. Calculating \subseteq Threads
    BY DEF Calculating
<1>2. f \in Surjection(Calculating, mem.raw)
    <2>1. f \in [Calculating -> mem.raw]
        BY DEF Pointing
    <2>2. \A b \in mem.raw : \E t \in Calculating : f[t] = b
        BY DEF Pointing
    <2>. QED  BY <2>1, <2>2, Fun_IsSurj
<1>3. /\ IsFiniteSet(Calculating)
      /\ Cardinality(Calculating) <= Cardinality(Threads)
    BY <1>1, EnoughBuffers, FS_Subset
<1>4. /\ IsFiniteSet(mem.raw)
      /\ Cardinality(mem.raw) <= Cardinality(Calculating)
    BY <1>2, <1>3, FS_Surjection
<1>5. /\ Cardinality(Threads) \in Nat /\ Cardinality(Calculating) \in Nat
      /\ Cardinality(mem.raw) \in Nat
    BY <1>3, <1>4, EnoughBuffers, FS_CardinalityType
<1>6. Cardinality(mem.raw) <= Cardinality(Threads)
    BY <1>3, <1>4, <1>5
<1>. QED  BY <1>4, <1>5, <1>6, EnoughBuffers, EnoughRoom

-----------------------------------------------------------------------------
\* An update takes its pointer.
LEMMA UpdateStep ==
    ASSUME IInv, NEW t \in Threads, NEW s \in Strings, Update(t, s)
    PROVE  IInv'
<1>. USE DEF Update
<1>1. TypeOK /\ WellFormed(mem) /\ mem.ref[s] \in Buffers
      /\ mem.len[s] \in Nat /\ mem.raw \subseteq Buffers
      /\ Text(mem, s) \in Seq(Nat) /\ Len(Text(mem, s)) = mem.len[s]
    BY MemoryParts, TextFacts DEF IInv, TypeOK
<1>2. /\ WellFormed(mem') /\ mem'.raw = mem.raw \union {mem.ref[s]}
      /\ mem'.ref = mem.ref /\ mem'.len = mem.len
      /\ \A x \in Strings : Text(mem', x) = Text(mem, x)
    <2>1. mem.raw \union {mem.ref[s]} \in SUBSET Buffers
        BY <1>1
    <2>. QED  BY <1>1, <2>1, RawOnly
<1>3. /\ pc'[t] = "calc" /\ arg'[t] = s /\ rest'[t] = mem.len[s]
      /\ next'[t] = [buf |-> mem.ref[s], off |-> 0]
      /\ crc'[t] = state /\ from'[t] = state /\ text'[t] = Text(mem, s)
      /\ changed'[t] = FALSE
      /\ \A u \in Threads \ {t} :
            /\ pc'[u] = pc[u] /\ arg'[u] = arg[u] /\ next'[u] = next[u]
            /\ rest'[u] = rest[u] /\ crc'[u] = crc[u] /\ from'[u] = from[u]
            /\ text'[u] = text[u] /\ changed'[u] = changed[u]
    BY <1>1 DEF TypeOK
<1>4. TypeOK'
    <2>1. mem' \in Memory
        BY <1>2 DEF WellFormed
    <2>2. updates' \in 0 .. MaxUpdates
        BY <1>1, CrcAssumption DEF TypeOK
    <2>3. next' \in [Threads -> [buf : Buffers, off : Nat]]
        BY <1>1 DEF TypeOK
    <2>. QED  BY <1>1, <2>1, <2>2, <2>3 DEF TypeOK, Running
<1>5. Calculating' = Calculating \union {t} /\ t \notin Calculating
      /\ Running' = Running \union {t} /\ t \notin Running
    BY <1>3 DEF Calculating, Running
<1>6. Pointing'
    <2>1. {next'[u].buf : u \in Calculating'}
              = {next[u].buf : u \in Calculating} \union {mem.ref[s]}
        BY <1>3, <1>5 DEF Calculating
    <2>. QED  BY <1>2, <2>1 DEF IInv, Pointing
<1>7. Reading'
    <2>. SUFFICES ASSUME NEW u \in Calculating', ~changed'[u]
                  PROVE  /\ mem'.ref[arg'[u]] = next'[u].buf
                         /\ Text(mem', arg'[u]) = text'[u]
                         /\ next'[u].off + rest'[u] = Len(text'[u])
                         /\ crc'[u] = from'[u]
                                      \o SubSeq(text'[u], 1, next'[u].off)
        BY DEF Reading
    <2>1. CASE u = t
        <3>1. SubSeq(text'[u], 1, 0) = <<>>
            BY <1>1, <1>3, <2>1, SubSeqEmpty
        <3>2. state \o <<>> = state
            BY <1>1, ConcatEmptySeq DEF TypeOK
        <3>3. next'[u].buf = mem.ref[s] /\ next'[u].off = 0
            BY <1>3, <2>1
        <3>4. 0 + mem.len[s] = mem.len[s]
            BY <1>1
        <3>5. /\ arg'[u] = s /\ text'[u] = Text(mem, s) /\ rest'[u] = mem.len[s]
              /\ crc'[u] = state /\ from'[u] = state
            BY <1>3, <2>1
        <3>. QED  BY <1>1, <1>2, <3>1, <3>2, <3>3, <3>4, <3>5
    <2>2. CASE u # t
        <3>1. u \in Calculating /\ arg[u] \in Strings /\ u \in Threads \ {t}
            BY <1>1, <1>5, <2>2 DEF Calculating, TypeOK
        <3>2. /\ arg'[u] = arg[u] /\ next'[u] = next[u] /\ rest'[u] = rest[u]
              /\ crc'[u] = crc[u] /\ from'[u] = from[u] /\ text'[u] = text[u]
              /\ ~changed[u]
            BY <1>3, <3>1
        <3>3. /\ mem.ref[arg[u]] = next[u].buf /\ Text(mem, arg[u]) = text[u]
              /\ next[u].off + rest[u] = Len(text[u])
              /\ crc[u] = from[u] \o SubSeq(text[u], 1, next[u].off)
            BY <3>1, <3>2 DEF IInv, Reading
        <3>. QED  BY <1>2, <3>1, <3>2, <3>3
    <2>. QED  BY <2>1, <2>2
<1>8. Alone'
    BY <1>3, <1>5 DEF IInv, Alone, Running
<1>9. DupIsEnough'
    BY <1>3 DEF IInv, DupIsEnough
<1>10. StateIsWhole'
    BY DEF IInv, StateIsWhole
<1>. QED  BY <1>2, <1>4, <1>6, <1>7, <1>8, <1>9, <1>10 DEF IInv

\* The checksum goes on by one byte, which is the right one unless the String
\* has changed.
LEMMA CalcStep ==
    ASSUME IInv, NEW t \in Threads, Calc(t)
    PROVE  IInv'
<1>. DEFINE b == next[t].buf
            i == next[t].off + 1
            x == IF i <= Len(mem.heap[b]) THEN mem.heap[b][i] ELSE Unset
<1>1. /\ TypeOK /\ WellFormed(mem) /\ mem \in Memory /\ t \in Calculating
      /\ b \in Buffers /\ next[t].off \in Nat /\ i \in Nat
      /\ rest[t] \in Nat /\ rest[t] > 0 /\ crc[t] \in Seq(Nat)
    BY DEF IInv, TypeOK, Calc, Calculating
<1>2. x \in Nat
    <2>1. mem.heap[b] \in Seq(Nat) /\ Len(mem.heap[b]) \in Nat
        BY <1>1, MemoryParts, LenProperties
    <2>2. i \in 1 .. Len(mem.heap[b]) => mem.heap[b][i] \in Nat
        BY <2>1, ElementOfSeq
    <2>. QED  BY <1>1, <2>1, <2>2 DEF Unset
<1>3. /\ crc' = [crc EXCEPT ![t] = Append(@, x)]
      /\ next' = [next EXCEPT ![t].off = @ + 1]
      /\ rest' = [rest EXCEPT ![t] = @ - 1]
      /\ UNCHANGED <<mem, state, pc, arg, updates, others, from, text, whole,
                     changed, careless>>
    BY DEF Calc
<1>. HIDE DEF x
<1>4. /\ crc'[t] = Append(crc[t], x)
      /\ next'[t].buf = b /\ next'[t].off = i /\ rest'[t] = rest[t] - 1
      /\ \A u \in Threads : next'[u].buf = next[u].buf
      /\ \A u \in Threads \ {t} :
            next'[u] = next[u] /\ rest'[u] = rest[u] /\ crc'[u] = crc[u]
    BY <1>1, <1>3 DEF TypeOK
<1>5. TypeOK'
    <2>1. Append(crc[t], x) \in Seq(Nat)
        BY <1>1, <1>2, AppendProperties
    <2>2. crc' \in [Threads -> Seq(Nat)]
        BY <1>1, <1>3, <2>1 DEF TypeOK
    <2>3. rest' \in [Threads -> Nat]
        BY <1>1, <1>3 DEF TypeOK
    <2>4. next' \in [Threads -> [buf : Buffers, off : Nat]]
        BY <1>1, <1>3 DEF TypeOK
    <2>. QED  BY <1>1, <1>3, <2>2, <2>3, <2>4 DEF TypeOK
<1>6. Calculating' = Calculating /\ Running' = Running
    BY <1>3 DEF Calculating, Running
<1>7. Pointing'
    <2>1. {next'[u].buf : u \in Calculating} = {next[u].buf : u \in Calculating}
        BY <1>4 DEF Calculating
    <2>. QED  BY <1>3, <1>6, <2>1 DEF IInv, Pointing
<1>8. ASSUME ~changed[t]
      PROVE  /\ mem.ref[arg[t]] = b /\ Text(mem, arg[t]) = text[t]
             /\ i + (rest[t] - 1) = Len(text[t])
             /\ Append(crc[t], x) = from[t] \o SubSeq(text[t], 1, i)
    <2>1. /\ mem.ref[arg[t]] = b /\ Text(mem, arg[t]) = text[t]
          /\ next[t].off + rest[t] = Len(text[t])
          /\ crc[t] = from[t] \o SubSeq(text[t], 1, next[t].off)
        BY <1>1, <1>8 DEF IInv, Reading
    <2>2. arg[t] \in Strings /\ text[t] \in Seq(Nat) /\ from[t] \in Seq(Nat)
        BY <1>1 DEF TypeOK
    <2>3. /\ Len(text[t]) = mem.len[arg[t]] /\ mem.len[arg[t]] \in Nat
          /\ mem.len[arg[t]] <= Len(mem.heap[b])
          /\ \A j \in 1 .. mem.len[arg[t]] : text[t][j] = mem.heap[b][j]
          /\ Len(mem.heap[b]) \in Nat
        <3>1. /\ Len(Text(mem, arg[t])) = mem.len[arg[t]]
              /\ \A j \in 1 .. mem.len[arg[t]] :
                    Text(mem, arg[t])[j] = mem.heap[mem.ref[arg[t]]][j]
            BY <1>1, <2>2, TextFacts
        <3>2. /\ mem.len[arg[t]] \in Nat
              /\ Len(mem.heap[mem.ref[arg[t]]]) \in Nat
            BY <1>1, <2>2, MemoryParts
        <3>3. mem.len[arg[t]] <= Len(mem.heap[mem.ref[arg[t]]])
            BY <1>1, <2>2 DEF WellFormed
        <3>. QED  BY <2>1, <3>1, <3>2, <3>3
    <2>4. i \in 1 .. mem.len[arg[t]] /\ i <= Len(mem.heap[b])
          /\ i <= Len(text[t])
        BY <1>1, <2>1, <2>3
    <2>5. x = text[t][i]
        BY <2>3, <2>4 DEF x
    <2>6. from[t] \o SubSeq(text[t], 1, i)
              = Append(from[t] \o SubSeq(text[t], 1, next[t].off), text[t][i])
        BY <1>1, <2>2, <2>4, PrefixGrows
    <2>7. i + (rest[t] - 1) = next[t].off + rest[t]
        BY <1>1
    <2>. QED  BY <2>1, <2>5, <2>6, <2>7
<1>9. Reading'
    <2>. SUFFICES ASSUME NEW u \in Calculating, ~changed[u]
                  PROVE  /\ mem.ref[arg[u]] = next'[u].buf
                         /\ Text(mem, arg[u]) = text[u]
                         /\ next'[u].off + rest'[u] = Len(text[u])
                         /\ crc'[u] = from[u] \o SubSeq(text[u], 1, next'[u].off)
        BY <1>3, <1>6 DEF Reading
    <2>1. CASE u = t
        BY <1>4, <1>8, <2>1
    <2>2. CASE u # t
        BY <1>4, <2>2 DEF IInv, Reading, Calculating
    <2>. QED  BY <2>1, <2>2
<1>10. Alone'
    BY <1>3, <1>6 DEF IInv, Alone
<1>11. DupIsEnough'
    <2>1. pc[t] # "assign"
        BY DEF Calc
    <2>. QED  BY <1>3, <1>4, <2>1 DEF IInv, DupIsEnough
<1>12. StateIsWhole' /\ WellFormed(mem')
    BY <1>1, <1>3 DEF IInv, StateIsWhole
<1>. QED
    BY <1>5, <1>7, <1>9, <1>10, <1>11, <1>12 DEF IInv

\* The pointers of the other threads stay.
LEMMA PointerGone ==
    ASSUME IInv, NEW t \in Threads, mem' = [mem EXCEPT !.raw = StillRaw(t)]
    PROVE  /\ WellFormed(mem') /\ mem' \in Memory
           /\ mem'.raw = {next[u].buf : u \in Calculating \ {t}}
           /\ mem'.ref = mem.ref
           /\ \A s \in Strings : Text(mem', s) = Text(mem, s)
<1>1. StillRaw(t) = {next[u].buf : u \in Calculating \ {t}}
    BY DEF StillRaw, Calculating
<1>2. StillRaw(t) \in SUBSET Buffers
    BY <1>1 DEF IInv, TypeOK, Calculating
<1>3. WellFormed(mem)
    BY DEF IInv
<1>4. /\ WellFormed(mem') /\ mem'.raw = StillRaw(t) /\ mem'.ref = mem.ref
      /\ \A s \in Strings : Text(mem', s) = Text(mem, s)
    BY <1>2, <1>3, RawOnly
<1>. QED  BY <1>1, <1>4 DEF WellFormed

\* The calculation is over, or an exception ends the update.
LEMMA LeaveStep ==
    ASSUME IInv, NEW t \in Threads, CalcDone(t) \/ Interrupted(t)
    PROVE  IInv'
<1>1. /\ pc[t] # "idle" /\ pc[t] = "calc" => rest[t] = 0
      /\ \E p \in {"idle", "assign"} :
            pc' = [pc EXCEPT ![t] = p] /\ (p = "assign" => pc[t] = "calc")
      /\ mem' = [mem EXCEPT !.raw = StillRaw(t)]
      /\ UNCHANGED <<state, arg, next, rest, crc, updates, others, from, text,
                     whole, changed, careless>>
    BY DEF CalcDone, Interrupted
<1>2. PICK p \in {"idle", "assign"} :
          pc' = [pc EXCEPT ![t] = p] /\ (p = "assign" => pc[t] = "calc")
    BY <1>1
<1>3. /\ WellFormed(mem') /\ mem' \in Memory
      /\ mem'.raw = {next[u].buf : u \in Calculating \ {t}}
      /\ mem'.ref = mem.ref
      /\ \A s \in Strings : Text(mem', s) = Text(mem, s)
    BY <1>1, PointerGone
<1>4. TypeOK
    BY DEF IInv
<1>5. pc'[t] = p /\ \A u \in Threads \ {t} : pc'[u] = pc[u]
    BY <1>2, <1>4 DEF TypeOK
<1>6. TypeOK'
    <2>1. pc' \in [Threads -> {"idle", "calc", "assign"}]
        BY <1>2, <1>4 DEF TypeOK
    <2>. QED  BY <1>1, <1>3, <1>4, <2>1 DEF TypeOK
<1>7. Calculating' = Calculating \ {t} /\ Running' \subseteq Running
    BY <1>1, <1>5 DEF Calculating, Running
<1>8. Pointing'
    BY <1>1, <1>3, <1>7 DEF Pointing
<1>9. Reading'
    <2>1. \A u \in Threads : arg[u] \in Strings
        BY <1>4 DEF TypeOK
    <2>. QED  BY <1>1, <1>3, <1>7, <2>1 DEF IInv, Reading, Calculating
<1>10. Alone'
    BY <1>1, <1>7 DEF IInv, Alone
<1>11. DupIsEnough'
    <2>. SUFFICES ASSUME NEW u \in Threads, pc'[u] = "assign", ~changed[u]
                  PROVE  crc[u] = from[u] \o text[u]
        BY <1>1 DEF DupIsEnough
    <2>1. CASE u = t
        <3>1. t \in Calculating /\ rest[t] = 0
            BY <1>1, <1>2, <1>5, <2>1 DEF Calculating
        <3>2. /\ next[t].off + rest[t] = Len(text[t])
              /\ crc[t] = from[t] \o SubSeq(text[t], 1, next[t].off)
            BY <2>1, <3>1 DEF IInv, Reading
        <3>3. next[t].off \in Nat /\ text[t] \in Seq(Nat)
            BY <1>4 DEF TypeOK
        <3>4. next[t].off = Len(text[t])
            BY <3>1, <3>2, <3>3
        <3>5. SubSeq(text[t], 1, Len(text[t])) = text[t]
            BY <3>3, SubSeqFull
        <3>. QED  BY <2>1, <3>2, <3>4, <3>5
    <2>2. CASE u # t
        BY <1>5, <2>2 DEF IInv, DupIsEnough
    <2>. QED  BY <2>1, <2>2
<1>12. StateIsWhole'
    BY <1>1 DEF IInv, StateIsWhole
<1>. QED
    BY <1>3, <1>6, <1>8, <1>9, <1>10, <1>11, <1>12 DEF IInv

\* The object gets its new state, and nobody else was using it.
LEMMA AssignStep ==
    ASSUME IInv, NEW t \in Threads, Assign(t)
    PROVE  IInv'
<1>. USE DEF Assign
<1>1. TypeOK /\ crc[t] \in Seq(Nat) /\ text[t] \in Seq(Nat)
    BY DEF IInv, TypeOK
<1>2. pc'[t] = "idle" /\ \A u \in Threads \ {t} : pc'[u] = pc[u]
    BY <1>1 DEF TypeOK
<1>3. TypeOK'
    <2>1. whole \o text[t] \in Seq(Nat)
        BY <1>1, ConcatProperties DEF TypeOK
    <2>2. pc' \in [Threads -> {"idle", "calc", "assign"}]
        BY <1>1 DEF TypeOK
    <2>. QED  BY <1>1, <2>1, <2>2 DEF TypeOK
<1>4. Calculating' = Calculating /\ Running' = Running \ {t} /\ t \in Running
    BY <1>2 DEF Calculating, Running
<1>5. Pointing' /\ Reading'
    BY <1>4 DEF IInv, Pointing, Reading
<1>6. Alone'
    BY <1>4 DEF IInv, Alone
<1>7. DupIsEnough'
    BY <1>2 DEF IInv, DupIsEnough
<1>8. StateIsWhole'
    <2>. SUFFICES ASSUME ~careless PROVE crc[t] = whole \o text[t]
        BY DEF StateIsWhole
    <2>1. from[t] = state /\ ~changed[t] /\ state = whole
        BY <1>4 DEF IInv, Alone, StateIsWhole
    <2>. QED  BY <2>1 DEF IInv, DupIsEnough
<1>9. WellFormed(mem')
    BY DEF IInv
<1>. QED
    BY <1>3, <1>5, <1>6, <1>7, <1>8, <1>9 DEF IInv

\* reset: nobody is calculating, or somebody was careless.
LEMMA ResetStep ==
    ASSUME IInv, Reset
    PROVE  IInv'
<1>. USE DEF Reset, jobVars
<1>1. TypeOK
    BY DEF IInv
<1>2. TypeOK'
    <2>1. others' \in 0 .. MaxOther
        BY <1>1, CrcAssumption DEF TypeOK
    <2>2. <<>> \in Seq(Nat)
        BY EmptySeq
    <2>. QED  BY <1>1, <2>1, <2>2 DEF TypeOK, Running
<1>3. Calculating' = Calculating /\ Running' = Running
    BY DEF Calculating, Running
<1>4. Pointing' /\ Reading'
    BY <1>3 DEF IInv, Pointing, Reading
<1>5. Alone'
    BY <1>3 DEF IInv, Alone
<1>6. DupIsEnough' /\ StateIsWhole' /\ WellFormed(mem')
    BY DEF IInv, DupIsEnough, StateIsWhole
<1>. QED  BY <1>2, <1>4, <1>5, <1>6 DEF IInv

\* Other code changes one String; the updates of the others do not notice.
LEMMA ModifyStep ==
    ASSUME IInv, NEW s \in Strings, NEW m, WellFormed(m),
           OnlyTouches(mem, m, s), Modify(s, m)
    PROVE  IInv'
<1>. USE DEF Modify
<1>1. TypeOK /\ m \in Memory /\ m.raw = mem.raw
    BY DEF IInv, WellFormed, OnlyTouches
<1>2. \A t \in Threads :
          changed'[t] = (changed[t] \/ (pc[t] = "calc" /\ arg[t] = s))
    OBVIOUS
<1>3. careless' = (careless \/ \E t \in Threads : changed'[t])
    OBVIOUS
<1>4. TypeOK'
    <2>1. others' \in 0 .. MaxOther
        BY <1>1, CrcAssumption DEF TypeOK
    <2>2. changed' \in [Threads -> BOOLEAN]
        BY <1>1 DEF TypeOK
    <2>3. careless' \in BOOLEAN
        BY <1>1, <1>3 DEF TypeOK
    <2>. QED  BY <1>1, <2>1, <2>2, <2>3 DEF TypeOK
<1>5. Calculating' = Calculating /\ Running' = Running
    BY DEF Calculating, Running
<1>6. Pointing'
    BY <1>1, <1>5 DEF IInv, Pointing
<1>7. Reading'
    <2>. SUFFICES ASSUME NEW t \in Calculating, ~changed'[t]
                  PROVE  /\ m.ref[arg[t]] = next[t].buf
                         /\ Text(m, arg[t]) = text[t]
                         /\ next[t].off + rest[t] = Len(text[t])
                         /\ crc[t] = from[t] \o SubSeq(text[t], 1, next[t].off)
        BY <1>5 DEF Reading
    <2>1. t \in Threads /\ ~changed[t] /\ arg[t] \in Strings \ {s}
        BY <1>1, <1>2 DEF Calculating, TypeOK
    <2>2. m.ref[arg[t]] = mem.ref[arg[t]] /\ Text(m, arg[t]) = Text(mem, arg[t])
        <3>1. m.ref[arg[t]] = mem.ref[arg[t]]
            BY <2>1 DEF OnlyTouches
        <3>2. \A u \in Strings \ {s} : Text(m, u) = Text(mem, u)
            BY TextsKept
        <3>. QED  BY <2>1, <3>1, <3>2
    <2>. QED  BY <2>1, <2>2 DEF IInv, Reading
<1>8. Alone'
    BY <1>2, <1>3, <1>5 DEF IInv, Alone
<1>9. DupIsEnough'
    BY <1>2 DEF IInv, DupIsEnough
<1>10. StateIsWhole'
    BY <1>3 DEF IInv, StateIsWhole
<1>. QED
    BY <1>4, <1>6, <1>7, <1>8, <1>9, <1>10 DEF IInv

-----------------------------------------------------------------------------
\* The invariant holds at first.
LEMMA InitHolds == Init => IInv
<1>. SUFFICES ASSUME Init PROVE IInv
    OBVIOUS
<1>. USE DEF Init
<1>1. WellFormed(mem) /\ mem.raw = {} /\ mem \in Memory
    BY CrcAssumption DEF WellFormed
<1>2. <<>> \in Seq(Nat)
    BY EmptySeq
<1>3. /\ (CHOOSE s \in Strings : TRUE) \in Strings
      /\ (CHOOSE b \in Buffers : TRUE) \in Buffers
    BY RubyStringAssumption
<1>4. TypeOK
    <2>1. /\ arg \in [Threads -> Strings]
          /\ next \in [Threads -> [buf : Buffers, off : Nat]]
        BY <1>3
    <2>2. updates \in 0 .. MaxUpdates /\ others \in 0 .. MaxOther
        BY CrcAssumption
    <2>. QED  BY <1>1, <1>2, <2>1, <2>2 DEF TypeOK
<1>5. Calculating = {} /\ Running = {}
    BY DEF Calculating, Running
<1>6. Pointing /\ Reading /\ Alone /\ DupIsEnough /\ StateIsWhole
    BY <1>1, <1>5 DEF Pointing, Reading, Alone, DupIsEnough, StateIsWhole
<1>. QED  BY <1>1, <1>4, <1>6 DEF IInv

\* Every step keeps it.
LEMMA StepHolds == IInv /\ [Next]_vars => IInv'
<1>. SUFFICES ASSUME IInv, [Next]_vars PROVE IInv'
    OBVIOUS
<1>1. CASE \E t \in Threads, s \in Strings : Update(t, s)
    BY <1>1, UpdateStep
<1>2. CASE \E t \in Threads : Calc(t)
    BY <1>2, CalcStep
<1>3. CASE \E t \in Threads : CalcDone(t) \/ Interrupted(t)
    BY <1>3, LeaveStep
<1>4. CASE \E t \in Threads : Assign(t)
    BY <1>4, AssignStep
<1>5. CASE Reset
    BY <1>5, ResetStep
<1>6. CASE Other
    <2>1. WellFormed(mem) /\ Room(mem)
        BY RoomLeft DEF IInv, WellFormed
    <2>2. PICK s \in Strings :
              \/ Modify(s, Cleared(mem, s))
              \/ Modify(s, Appended(mem, s, Unset))
              \/ \E t \in Strings \ {s} : Modify(s, Dupped(mem, t, s))
        BY <1>6 DEF Other
    <2>3. CASE Modify(s, Cleared(mem, s))
        BY <2>1, <2>3, ClearedFacts, ModifyStep
    <2>4. CASE Modify(s, Appended(mem, s, Unset))
        <3>1. Unset \in Nat
            BY DEF Unset
        <3>. QED  BY <2>1, <2>4, <3>1, AppendedFacts, ModifyStep
    <2>5. CASE \E t \in Strings \ {s} : Modify(s, Dupped(mem, t, s))
        BY <2>1, <2>5, DuppedFacts, ModifyStep
    <2>. QED  BY <2>2, <2>3, <2>4, <2>5
<1>7. CASE UNCHANGED vars
    <2>. USE <1>7 DEF vars, jobVars
    <2>1. Calculating' = Calculating /\ Running' = Running /\ TypeOK'
        BY DEF IInv, TypeOK, Calculating, Running
    <2>. QED
        BY <2>1 DEF IInv, Pointing, Reading, Alone, DupIsEnough, StateIsWhole
<1>. QED  BY <1>1, <1>2, <1>3, <1>4, <1>5, <1>6, <1>7 DEF Next

\* The inductive invariant.
LEMMA Invariance == Spec => []IInv
BY InitHolds, StepHolds, PTL DEF Spec

\* Every variable of the checksum objects keeps its type.
THEOREM CrcTypes == Spec => []TypeOK
<1>1. IInv => TypeOK
    BY DEF IInv
<1>. QED  BY <1>1, Invariance, PTL

\* HISTORY.ja.md:16-17: an update computes the checksum of what its String was
\* when update was called, whatever other code does to the Strings that share
\* its buffer.
THEOREM DupSuffices == Spec => []DupIsEnough
<1>1. IInv => DupIsEnough
    BY DEF IInv
<1>. QED  BY <1>1, Invariance, PTL

\* An object that one thread uses at a time holds the checksum of everything
\* given to it since the last reset, in order.
THEOREM WholeState == Spec => []StateIsWhole
<1>1. IInv => StateIsWhole
    BY DEF IInv
<1>. QED  BY <1>1, Invariance, PTL
=============================================================================
