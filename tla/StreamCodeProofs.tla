-------------------------- MODULE StreamCodeProofs --------------------------
(***************************************************************************)
(* Theorems about Stream#code of module StreamCode, for any Strings, any   *)
(* contents, and any interference of other Ruby code: the call stays       *)
(* inside its buffers, no other String changes, and without interference   *)
(* it is the atomic view of module AtomicCode.                             *)
(***************************************************************************)
EXTENDS StreamCode, RubyStringProofs

\* The rest of a sequence from an index on, in the form the proofs need it.
LEMMA SubSeqSuffix ==
    ASSUME NEW S, NEW s \in Seq(S), NEW k \in 0 .. Len(s)
    PROVE  /\ SubSeq(s, k + 1, Len(s)) \in Seq(S)
           /\ Len(SubSeq(s, k + 1, Len(s))) = Len(s) - k
           /\ \A i \in 1 .. Len(s) - k :
                 SubSeq(s, k + 1, Len(s))[i] = s[k + i]
<1>1. Len(s) \in Nat /\ k + 1 \in Int /\ Len(s) \in Int
    BY LenProperties
<1>2. \A i \in k + 1 .. Len(s) : s[i] \in S
    BY <1>1, ElementOfSeq
<1>. DEFINE u == SubSeq(s, k + 1, Len(s))
<1>3. /\ u \in Seq(S)
      /\ Len(u) = IF k + 1 <= Len(s) THEN Len(s) - (k + 1) + 1 ELSE 0
      /\ \A i \in 1 .. Len(s) - (k + 1) + 1 : u[i] = s[(k + 1) + i - 1]
    BY <1>1, <1>2, SubSeqProperties
<1>. QED  BY <1>1, <1>3

\* Where the pointers can be at each point of a call.
Control ==
    /\ pc = "idle" => stream = NoPointers /\ src = Nil
    /\ pc # "idle" => dest \in Strings
    /\ pc \in {"idle", "args"} => stream.next_out = Pointer(Nil)
    /\ pc \in {"action", "coding"} =>
          stream.next_out.buf \in Buffers /\ stream.avail_out <= maxdest
    /\ src # Nil => stream.next_in.buf \in Buffers
    /\ src = Nil => stream.avail_in = 0
    /\ mem.raw \subseteq {stream.next_in.buf, stream.next_out.buf}

\* Nobody changed src or dest, and they are two Strings.
Clean == meddled \intersect {"changed", "same"} = {}

\* Then next_in is where the rest of src begins, and next_out where the room
\* of dest begins.
Placed ==
    Clean /\ pc # "idle" =>
        /\ src # dest
        /\ src # Nil => /\ stream.next_in.buf = mem.ref[src]
                        /\ stream.next_in.off + stream.avail_in = mem.len[src]
        /\ pc # "args" =>
              /\ stream.next_out.buf = mem.ref[dest]
              /\ stream.next_out.off + stream.avail_out = maxdest
              /\ maxdest <= Len(mem.heap[mem.ref[dest]])

\* Nobody shared them either, so their buffers are theirs alone.
Owned ==
    meddled \subseteq {"same"} /\ pc # "idle" =>
        /\ src # Nil => ~mem.shared[src]
        /\ pc # "args" => /\ stream.next_out.buf = mem.ref[dest]
                          /\ ~mem.shared[dest]

IInv == TypeOK /\ WellFormed(mem) /\ Control /\ Placed /\ Owned /\ MemorySafe

-----------------------------------------------------------------------------
\* The types of the fields of the lzma_stream.
LEMMA StreamFields ==
    ASSUME TypeOK
    PROVE  /\ stream.next_in.buf \in Buffers \union {Nil}
           /\ stream.next_out.buf \in Buffers \union {Nil}
           /\ stream.next_in.off \in Nat /\ stream.next_out.off \in Nat
           /\ stream.avail_in \in Nat /\ stream.avail_out \in Nat
           /\ stream.avail_out <= MaxDest /\ maxdest \in Nat
           /\ maxdest <= MaxDest /\ mem \in Memory
BY StreamCodeAssumption DEF TypeOK, Pointers

\* Writing behind a prefix appends to it.
LEMMA WrittenPrefix ==
    ASSUME NEW S, NEW s \in Seq(S), NEW k \in Nat, k + 1 \in 1 .. Len(s),
           NEW x \in S
    PROVE  SubSeq([s EXCEPT ![k + 1] = x], 1, k + 1)
               = Append(SubSeq(s, 1, k), x)
<1>. DEFINE c == [s EXCEPT ![k + 1] = x]
            p == SubSeq(s, 1, k)
            q == SubSeq(c, 1, k + 1)
<1>1. /\ c \in Seq(S) /\ Len(c) = Len(s) /\ Len(s) \in Nat
      /\ \A i \in 1 .. Len(s) : c[i] = IF i = k + 1 THEN x ELSE s[i]
    BY ExceptSeq, LenProperties
<1>. HIDE DEF c
<1>2. p \in Seq(S) /\ Len(p) = k /\ \A i \in 1 .. k : p[i] = s[i]
    <2>1. k \in 0 .. Len(s)
        BY <1>1
    <2>. QED  BY <2>1, SubSeqPrefix
<1>3. q \in Seq(S) /\ Len(q) = k + 1 /\ \A i \in 1 .. k + 1 : q[i] = c[i]
    <2>1. k + 1 \in 0 .. Len(c)
        BY <1>1
    <2>. QED  BY <1>1, <2>1, SubSeqPrefix
<1>. HIDE DEF p, q
<1>4. /\ Append(p, x) \in Seq(S) /\ Len(Append(p, x)) = k + 1
      /\ \A i \in 1 .. k : Append(p, x)[i] = p[i]
      /\ Append(p, x)[k + 1] = x
    BY <1>2, AppendProperties
<1>5. \A i \in 1 .. k + 1 : q[i] = Append(p, x)[i]
    <2>. TAKE i \in 1 .. k + 1
    <2>1. i \in 1 .. Len(s) /\ q[i] = c[i]
        BY <1>1, <1>3
    <2>2. CASE i = k + 1
        BY <1>1, <1>4, <2>1, <2>2
    <2>3. CASE i # k + 1
        <3>1. i \in 1 .. k
            BY <2>3
        <3>. QED  BY <1>1, <1>2, <1>4, <2>1, <2>3, <3>1
    <2>. QED  BY <2>2, <2>3
<1>. QED  BY <1>3, <1>4, <1>5, SeqEqual DEF c, p, q

\* There are never more than two pointers, so malloc finds a buffer.
LEMMA RoomLeft ==
    ASSUME NEW m \in Memory, NEW a, NEW b, m.raw \subseteq {a, b}
    PROVE  Room(m)
<1>1. IsFiniteSet({a}) /\ Cardinality({a}) = 1 /\ IsFiniteSet({b})
      /\ Cardinality({b}) = 1
    BY FS_Singleton
<1>2. /\ IsFiniteSet({a} \union {b}) /\ IsFiniteSet({a} \cap {b})
      /\ Cardinality({a} \union {b})
             = Cardinality({a}) + Cardinality({b}) - Cardinality({a} \cap {b})
    BY <1>1, FS_Union, FS_Intersection
<1>3. Cardinality({a} \cap {b}) \in Nat
    BY <1>2, FS_CardinalityType
<1>4. Cardinality({a} \union {b}) <= 2
    <2>. DEFINE ca == Cardinality({a})
                cb == Cardinality({b})
                ci == Cardinality({a} \cap {b})
                cu == Cardinality({a} \union {b})
    <2>1. ca = 1 /\ cb = 1 /\ ci \in Nat /\ cu = ca + cb - ci
        BY <1>1, <1>2, <1>3
    <2>. HIDE DEF ca, cb, ci, cu
    <2>2. cu <= 2
        BY <2>1
    <2>. QED  BY <2>2 DEF cu
<1>5. m.raw \subseteq {a} \union {b}
    OBVIOUS
<1>6. /\ IsFiniteSet(m.raw)
      /\ Cardinality(m.raw) <= Cardinality({a} \union {b})
    BY <1>2, <1>5, FS_Subset
<1>7. Cardinality(m.raw) \in Nat /\ Cardinality({a} \union {b}) \in Nat
    BY <1>2, <1>6, FS_CardinalityType
<1>8. Cardinality(m.raw) <= 2
    BY <1>4, <1>6, <1>7
<1>. QED  BY <1>6, <1>8, EnoughBuffers, EnoughRoom

\* Freeing a buffer that was only pointed into.
LEMMA Memories2 ==
    ASSUME IInv
    PROVE  TypeOK /\ WellFormed(mem) /\ mem \in Memory /\ Room(mem)
<1>1. TypeOK /\ WellFormed(mem) /\ mem \in Memory
    BY DEF IInv, TypeOK
<1>2. mem.raw \subseteq {stream.next_in.buf, stream.next_out.buf}
    BY DEF IInv, Control
<1>. QED  BY <1>1, <1>2, RoomLeft

-----------------------------------------------------------------------------
\* src gets a buffer of its own and next_in points into it.
LEMMA CallStep ==
    ASSUME IInv, ~wild, NEW s \in Strings \union {Nil}, NEW d \in Strings,
           NEW n \in 0 .. MaxDest, Call(s, d, n)
    PROVE  /\ IInv'
           /\ \A t \in Strings : Text(mem', t) = Text(mem, t)
           /\ stream'.next_in.off = 0
<1>. DEFINE m == IF s = Nil THEN mem ELSE Modified(mem, s)
            b == IF s = Nil THEN Nil ELSE m.ref[s]
            k == IF s = Nil THEN 0 ELSE m.len[s]
<1>1. /\ TypeOK /\ WellFormed(mem) /\ mem \in Memory /\ Room(mem)
      /\ Nil \notin Strings /\ Nil \notin Buffers
    BY Memories2, StreamCodeAssumption
<1>2. /\ pc = "idle" /\ pc' = "args" /\ calls < MaxCalls /\ calls' = calls + 1
      /\ src' = s /\ dest' = d /\ maxdest' = n
      /\ mem' = [m EXCEPT !.raw = {b} \ {Nil}]
      /\ stream' = [stream EXCEPT !.next_in = Pointer(b), !.avail_in = k]
      /\ meddled' = meddled \union (IF s = d THEN {"same"} ELSE {})
      /\ UNCHANGED <<held, others, wild>>
    BY DEF Call
<1>3. /\ WellFormed(m) /\ \A t \in Strings : Text(m, t) = Text(mem, t)
      /\ s # Nil => ~m.shared[s]
    <2>1. CASE s = Nil
        BY <1>1, <2>1
    <2>2. CASE s # Nil
        <3>1. s \in Strings /\ m = Modified(mem, s)
            BY <2>2
        <3>. HIDE DEF m
        <3>2. /\ WellFormed(m) /\ OnlyTouches(mem, m, s) /\ ~m.shared[s]
              /\ Text(m, s) = Text(mem, s)
            BY <1>1, <3>1, ModifiedFacts
        <3>3. \A t \in Strings \ {s} : Text(m, t) = Text(mem, t)
            BY <3>2, TextsKept
        <3>. QED  BY <3>2, <3>3
    <2>. QED  BY <2>1, <2>2
<1>. HIDE DEF m
<1>4. /\ b \in Buffers \union {Nil} /\ k \in Nat /\ (s # Nil => b \in Buffers)
      /\ {b} \ {Nil} \in SUBSET Buffers
    <2>1. m \in Memory
        BY <1>3 DEF WellFormed
    <2>. QED  BY <2>1, MemoryParts
<1>5. /\ WellFormed(mem') /\ mem'.raw = {b} \ {Nil}
      /\ mem'.ref = m.ref /\ mem'.len = m.len /\ mem'.shared = m.shared
      /\ \A t \in Strings : Text(mem', t) = Text(m, t)
    <2>. DEFINE X == {b} \ {Nil}
    <2>1. mem' = [m EXCEPT !.raw = X] /\ X \in SUBSET Buffers
        BY <1>2, <1>4
    <2>2. X = {b} \ {Nil}
        OBVIOUS
    <2>. HIDE DEF X, b, k
    <2>3. WellFormed(m)
        BY <1>3
    <2>. QED  BY <2>1, <2>2, <2>3, RawOnly
<1>6. b = (IF s = Nil THEN Nil ELSE mem'.ref[s])
      /\ k = (IF s = Nil THEN 0 ELSE mem'.len[s])
    BY <1>5
<1>. HIDE DEF b, k
<1>7. /\ stream'.next_in = Pointer(b) /\ stream'.avail_in = k
      /\ stream'.next_out = stream.next_out
      /\ stream'.avail_out = stream.avail_out
    BY <1>1, <1>2 DEF TypeOK
<1>8. stream'.next_in.buf = b /\ stream'.next_in.off = 0
    BY <1>7 DEF Pointer
<1>9. TypeOK'
    <2>1. Pointer(b) \in Pointers
        BY <1>4 DEF Pointer, Pointers
    <2>2. stream' \in [next_in : Pointers, avail_in : Nat,
                       next_out : Pointers, avail_out : 0 .. MaxDest]
        BY <1>1, <1>2, <1>4, <2>1 DEF TypeOK
    <2>3. calls' \in 0 .. MaxCalls
        BY <1>1, <1>2, StreamCodeAssumption DEF TypeOK
    <2>4. meddled' \subseteq {"changed", "shared", "same"}
        BY <1>1, <1>2 DEF TypeOK
    <2>. QED  BY <1>1, <1>2, <1>5, <2>2, <2>3, <2>4 DEF TypeOK, WellFormed
<1>10. Control'
    <2>1. stream.next_out = Pointer(Nil)
        BY <1>2 DEF IInv, Control
    <2>2. mem'.raw \subseteq {stream'.next_in.buf, stream'.next_out.buf}
        BY <1>5, <1>8
    <2>. QED
        BY <1>1, <1>2, <1>4, <1>6, <1>7, <1>8, <2>1, <2>2 DEF Control
<1>11. Placed'
    <2>. SUFFICES ASSUME Clean'
                  PROVE  /\ s # d
                         /\ s # Nil => /\ stream'.next_in.buf = mem'.ref[s]
                                       /\ stream'.next_in.off + stream'.avail_in
                                              = mem'.len[s]
        BY <1>2 DEF Placed
    <2>1. s # d
        BY <1>2 DEF Clean
    <2>2. 0 + k = k
        BY <1>4
    <2>. QED  BY <1>6, <1>7, <1>8, <2>1, <2>2
<1>12. Owned'
    BY <1>2, <1>3, <1>5 DEF Owned
<1>13. MemorySafe'
    BY <1>2 DEF MemorySafe
<1>. QED
    BY <1>3, <1>5, <1>8, <1>9, <1>10, <1>11, <1>12, <1>13 DEF IInv

\* dest gets room for maxdest bytes and becomes independent.
LEMMA ReserveFacts ==
    ASSUME NEW m, WellFormed(m), Room(m), NEW s \in Strings, NEW n \in Nat
    PROVE  LET r == aux_str_reserve(m, s, n)
           IN  /\ WellFormed(r) /\ OnlyTouches(m, r, s) /\ ~r.shared[s]
               /\ n <= Len(r.heap[r.ref[s]])
               /\ \A t \in Strings \ {s} : r.shared[t] = m.shared[t]
<1>. DEFINE r == aux_str_reserve(m, s, n)
<1>1. /\ m \in Memory /\ m.len[s] \in Nat /\ Len(m.heap[m.ref[s]]) \in Nat
      /\ m.len[s] <= Len(m.heap[m.ref[s]])
    BY MemoryParts DEF WellFormed
<1>2. Capacity(m, s) \in Nat /\ m.len[s] <= Capacity(m, s)
    BY <1>1 DEF Capacity
<1>3. CASE Capacity(m, s) < n
    <2>1. r = Expanded(m, s, n) /\ m.len[s] <= n
        BY <1>1, <1>2, <1>3 DEF aux_str_reserve
    <2>. HIDE DEF r
    <2>2. /\ WellFormed(r) /\ OnlyTouches(m, r, s) /\ ~r.shared[s]
          /\ Len(r.heap[r.ref[s]]) = n
          /\ \A t \in Strings \ {s} : r.shared[t] = m.shared[t]
        BY <2>1, ExpandedFacts
    <2>. QED  BY <2>2 DEF r
<1>4. CASE ~(Capacity(m, s) < n)
    <2>1. r = Modified(m, s)
        BY <1>4 DEF aux_str_reserve
    <2>. HIDE DEF r
    <2>2. /\ WellFormed(r) /\ OnlyTouches(m, r, s) /\ ~r.shared[s]
          /\ Len(r.heap[r.ref[s]]) >= Capacity(m, s)
          /\ \A t \in Strings \ {s} : r.shared[t] = m.shared[t]
        BY <2>1, ModifiedFacts
    <2>3. Len(r.heap[r.ref[s]]) \in Nat
        BY <2>2, MemoryParts DEF WellFormed
    <2>4. n <= Len(r.heap[r.ref[s]])
        BY <1>2, <1>4, <2>2, <2>3
    <2>. QED  BY <2>2, <2>4 DEF r
<1>. QED  BY <1>3, <1>4

\* next_out points into dest.
LEMMA ReserveStep ==
    ASSUME IInv, ~wild, Reserve
    PROVE  /\ IInv'
           /\ \A s \in Strings \ {dest} : Text(mem', s) = Text(mem, s)
           /\ stream'.next_in = stream.next_in /\ stream'.next_out.off = 0
<1>. DEFINE m == aux_str_reserve(mem, dest, maxdest)
            b == m.ref[dest]
<1>1. /\ TypeOK /\ WellFormed(mem) /\ mem \in Memory /\ Room(mem)
      /\ Nil \notin Strings /\ Nil \notin Buffers /\ maxdest \in Nat
    BY Memories2, StreamFields, StreamCodeAssumption
<1>2. /\ pc = "args" /\ pc' = "action"
      /\ mem' = [m EXCEPT !.raw = @ \union {b}]
      /\ stream' = [stream EXCEPT !.next_out = Pointer(b), !.avail_out = maxdest]
      /\ UNCHANGED <<held, src, dest, maxdest, calls, others, meddled, wild>>
    BY DEF Reserve
<1>3. /\ dest \in Strings /\ stream.next_out = Pointer(Nil)
      /\ src # Nil => stream.next_in.buf \in Buffers
      /\ src = Nil => stream.avail_in = 0
      /\ mem.raw \subseteq {stream.next_in.buf, stream.next_out.buf}
    BY <1>2 DEF IInv, Control
<1>4. /\ WellFormed(m) /\ OnlyTouches(mem, m, dest) /\ ~m.shared[dest]
      /\ maxdest <= Len(m.heap[m.ref[dest]])
      /\ \A t \in Strings \ {dest} : m.shared[t] = mem.shared[t]
    BY <1>1, <1>3, ReserveFacts
<1>. HIDE DEF m
<1>5. b \in Buffers /\ m.raw \union {b} \in SUBSET Buffers /\ m.raw = mem.raw
    BY <1>3, <1>4, MemoryParts DEF WellFormed, OnlyTouches
<1>6. /\ WellFormed(mem') /\ mem'.raw = mem.raw \union {b}
      /\ mem'.ref = m.ref /\ mem'.len = m.len /\ mem'.shared = m.shared
      /\ mem'.heap = m.heap
      /\ \A t \in Strings : Text(mem', t) = Text(m, t)
    <2>. DEFINE X == m.raw \union {b}
    <2>1. mem' = [m EXCEPT !.raw = X] /\ X \in SUBSET Buffers
        BY <1>2, <1>5
    <2>2. X = mem.raw \union {b}
        BY <1>5
    <2>. HIDE DEF X, b
    <2>3. WellFormed(m)
        BY <1>4
    <2>. QED  BY <2>1, <2>2, <2>3, RawOnly
<1>7. /\ stream'.next_in = stream.next_in
      /\ stream'.avail_in = stream.avail_in
      /\ stream'.next_out = Pointer(b) /\ stream'.avail_out = maxdest
    BY <1>1, <1>2 DEF TypeOK
<1>8. stream'.next_out.buf = b /\ stream'.next_out.off = 0
    BY <1>7 DEF Pointer
<1>9. TypeOK'
    <2>1. Pointer(b) \in Pointers
        BY <1>5 DEF Pointer, Pointers
    <2>2. stream' \in [next_in : Pointers, avail_in : Nat,
                       next_out : Pointers, avail_out : 0 .. MaxDest]
        BY <1>1, <1>2, <2>1 DEF TypeOK
    <2>. QED  BY <1>1, <1>2, <1>6, <2>2 DEF TypeOK, WellFormed
<1>10. Control'
    <2>1. Nil \notin mem.raw
        BY <1>1, MemoryParts
    <2>2. mem.raw \subseteq {stream.next_in.buf}
        BY <1>3, <2>1 DEF Pointer
    <2>3. mem'.raw \subseteq {stream'.next_in.buf, stream'.next_out.buf}
        BY <1>6, <1>7, <1>8, <2>2
    <2>4. maxdest <= maxdest
        BY <1>1
    <2>. QED
        BY <1>2, <1>3, <1>5, <1>7, <1>8, <2>3, <2>4 DEF Control
<1>11. \A t \in Strings \ {dest} : m.ref[t] = mem.ref[t] /\ m.len[t] = mem.len[t]
    BY <1>4 DEF OnlyTouches
<1>12. src \in Strings \union {Nil}
    BY <1>1 DEF TypeOK
<1>13. Placed'
    <2>. SUFFICES ASSUME Clean
                  PROVE  /\ src # dest
                         /\ src # Nil =>
                               /\ stream'.next_in.buf = mem'.ref[src]
                               /\ stream'.next_in.off + stream'.avail_in
                                      = mem'.len[src]
                         /\ stream'.next_out.buf = mem'.ref[dest]
                         /\ stream'.next_out.off + stream'.avail_out = maxdest
                         /\ maxdest <= Len(mem'.heap[mem'.ref[dest]])
        BY <1>2 DEF Placed, Clean
    <2>1. /\ src # dest
          /\ src # Nil =>
                /\ stream.next_in.buf = mem.ref[src]
                /\ stream.next_in.off + stream.avail_in = mem.len[src]
        BY <1>2 DEF IInv, Placed
    <2>2. 0 + maxdest = maxdest
        BY <1>1
    <2>. QED  BY <1>4, <1>6, <1>7, <1>8, <1>11, <1>12, <2>1, <2>2
<1>14. Owned'
    <2>. SUFFICES ASSUME meddled \subseteq {"same"}
                  PROVE  /\ src # Nil => ~mem'.shared[src]
                         /\ stream'.next_out.buf = mem'.ref[dest]
                         /\ ~mem'.shared[dest]
        BY <1>2 DEF Owned
    <2>1. src # Nil => ~mem.shared[src]
        BY <1>2 DEF IInv, Owned
    <2>. QED  BY <1>4, <1>6, <1>8, <1>12, <2>1
<1>15. MemorySafe'
    BY <1>2 DEF MemorySafe
<1>16. \A s \in Strings \ {dest} : Text(mem', s) = Text(mem, s)
    BY <1>4, <1>6, TextsKept
<1>. QED
    BY <1>6, <1>7, <1>8, <1>9, <1>10, <1>13, <1>14, <1>15, <1>16 DEF IInv

\* The lock is released; nothing moves.
LEMMA EnterStep ==
    ASSUME IInv, ~wild, Enter
    PROVE  IInv'
<1>. USE DEF Enter
<1>1. TypeOK' /\ WellFormed(mem') /\ Control' /\ MemorySafe'
    BY DEF IInv, TypeOK, Control, MemorySafe
<1>2. Placed'
    BY DEF IInv, Placed, Clean
<1>3. Owned'
    BY DEF IInv, Owned
<1>. QED  BY <1>1, <1>2, <1>3 DEF IInv

\* lzma_code takes a byte, from inside src if nobody meddled.
LEMMA ConsumeStep ==
    ASSUME IInv, ~wild, Consume
    PROVE  /\ IInv'
           /\ stream'.next_in.off = stream.next_in.off + 1
           /\ stream'.next_out = stream.next_out
           /\ Clean => /\ src # Nil /\ ~wild'
                       /\ stream.next_in.off < Len(Text(mem, src))
                       /\ held' = Append(held,
                                    Text(mem, src)[stream.next_in.off + 1])
<1>. DEFINE b == stream.next_in.buf
            i == stream.next_in.off + 1
<1>1. /\ TypeOK /\ WellFormed(mem) /\ mem \in Memory
      /\ Nil \notin Strings /\ src \in Strings \union {Nil}
      /\ stream.next_in.off \in Nat /\ i \in Nat /\ stream.avail_in \in Nat
      /\ stream.next_in.off + 1 >= 1
    BY Memories2, StreamFields, StreamCodeAssumption DEF TypeOK
<1>2. /\ pc = "coding" /\ stream.avail_in > 0 /\ Len(held) < MaxHeld
      /\ stream' = [stream EXCEPT !.next_in.off = @ + 1, !.avail_in = @ - 1]
      /\ UNCHANGED <<mem, callVars, others, meddled>>
      /\ IF Valid(stream.next_in, 1)
         THEN held' = Append(held, mem.heap[b][i]) /\ UNCHANGED wild
         ELSE wild' = TRUE /\ UNCHANGED held
    BY DEF Consume
<1>3. src # Nil /\ b \in Buffers
    BY <1>2 DEF IInv, Control
<1>4. mem.heap[b] \in Seq(Nat) /\ Len(mem.heap[b]) \in Nat
    BY <1>1, <1>3, MemoryParts, LenProperties
<1>5. Valid(stream.next_in, 1) => i \in 1 .. Len(mem.heap[b])
    BY <1>1, <1>4 DEF Valid
<1>6. Clean => /\ Valid(stream.next_in, 1)
               /\ stream.next_in.off < Len(Text(mem, src))
               /\ mem.heap[b][i] = Text(mem, src)[i]
    <2>. SUFFICES ASSUME Clean
                  PROVE  /\ Valid(stream.next_in, 1)
                         /\ stream.next_in.off < Len(Text(mem, src))
                         /\ mem.heap[b][i] = Text(mem, src)[i]
        OBVIOUS
    <2>1. /\ b = mem.ref[src]
          /\ stream.next_in.off + stream.avail_in = mem.len[src]
        BY <1>2, <1>3 DEF IInv, Placed
    <2>2. src \in Strings /\ mem.len[src] \in Nat
        BY <1>1, <1>3, MemoryParts
    <2>3. mem.len[src] <= Len(mem.heap[mem.ref[src]])
        BY <1>1, <2>2 DEF WellFormed
    <2>4. i \in 1 .. mem.len[src] /\ i <= Len(mem.heap[b])
        <3>1. \A o, a, l, h \in Nat :
                  a > 0 /\ o + a = l /\ l <= h => o + 1 \in 1 .. l /\ o + 1 <= h
            OBVIOUS
        <3>. QED  BY <1>1, <1>2, <1>4, <2>1, <2>2, <2>3, <3>1
    <2>5. /\ Len(Text(mem, src)) = mem.len[src]
          /\ \A j \in 1 .. mem.len[src] :
                Text(mem, src)[j] = mem.heap[mem.ref[src]][j]
        BY <1>1, <2>2, TextFacts
    <2>6. stream.next_in.off < mem.len[src]
        BY <1>1, <1>2, <2>1
    <2>. QED  BY <2>1, <2>4, <2>5, <2>6 DEF Valid
<1>7. /\ stream'.next_in.buf = b /\ stream'.next_in.off = i
      /\ stream'.avail_in = stream.avail_in - 1
      /\ stream'.next_out = stream.next_out
      /\ stream'.avail_out = stream.avail_out
    BY <1>1, <1>2 DEF TypeOK, Pointers
<1>8. TypeOK'
    <2>1. held' \in Seq(Nat)
        <3>1. held \in Seq(Nat)
            BY <1>1 DEF TypeOK
        <3>2. CASE Valid(stream.next_in, 1)
            <4>1. mem.heap[b][i] \in Nat
                BY <1>4, <1>5, <3>2, ElementOfSeq
            <4>. QED  BY <1>2, <3>1, <3>2, <4>1, AppendProperties
        <3>3. CASE ~Valid(stream.next_in, 1)
            BY <1>2, <3>1, <3>3
        <3>. QED  BY <3>2, <3>3
    <2>2. stream' \in [next_in : Pointers, avail_in : Nat,
                       next_out : Pointers, avail_out : 0 .. MaxDest]
        <3>. DEFINE q == [stream.next_in EXCEPT !.off = @ + 1]
                    n == stream.avail_in - 1
        <3>1. q \in Pointers /\ n \in Nat
            BY <1>1, <1>2 DEF TypeOK, Pointers
        <3>2. stream' = [stream EXCEPT !.next_in = q, !.avail_in = n]
            BY <1>2
        <3>. HIDE DEF q, n
        <3>. QED  BY <1>1, <3>1, <3>2 DEF TypeOK
    <2>3. wild' \in BOOLEAN
        BY <1>1, <1>2 DEF TypeOK
    <2>. QED  BY <1>1, <1>2, <2>1, <2>2, <2>3 DEF TypeOK, callVars
<1>9. Control'
    BY <1>2, <1>3, <1>7 DEF IInv, Control, callVars
<1>10. Placed'
    <2>1. i + (stream.avail_in - 1) = stream.next_in.off + stream.avail_in
        BY <1>1
    <2>. QED
        BY <1>2, <1>7, <2>1 DEF IInv, Placed, Clean, callVars
<1>11. Owned'
    BY <1>2, <1>7 DEF IInv, Owned, callVars
<1>12. MemorySafe'
    BY <1>2, <1>6 DEF MemorySafe, Clean
<1>. QED
    BY <1>1, <1>2, <1>3, <1>6, <1>7, <1>8, <1>9, <1>10, <1>11, <1>12 DEF IInv

\* lzma_code gives a byte, into the room of dest if nobody meddled.
LEMMA ProduceStep ==
    ASSUME IInv, ~wild, Produce
    PROVE  /\ IInv'
           /\ stream'.next_in = stream.next_in
           /\ meddled \subseteq {"same"} =>
                 \A s \in Strings \ {dest} : Text(mem', s) = Text(mem, s)
           /\ Clean => ~wild'
           /\ ~wild' =>
                 LET b == stream.next_out.buf
                     k == stream.next_out.off
                 IN  SubSeq(mem'.heap[b], 1, k + 1)
                         = Append(SubSeq(mem.heap[b], 1, k), Head(held))
           /\ stream'.next_out.buf = stream.next_out.buf
           /\ stream'.next_out.off = stream.next_out.off + 1
<1>. DEFINE b == stream.next_out.buf
            k == stream.next_out.off
            c == [mem.heap[b] EXCEPT ![k + 1] = Head(held)]
<1>1. /\ TypeOK /\ WellFormed(mem) /\ mem \in Memory /\ k \in Nat
      /\ stream.avail_out \in Nat /\ stream.avail_out <= MaxDest
      /\ maxdest \in Nat /\ held \in Seq(Nat)
    BY Memories2, StreamFields DEF TypeOK
<1>2. /\ pc = "coding" /\ stream.avail_out > 0 /\ held # <<>>
      /\ stream' = [stream EXCEPT !.next_out.off = @ + 1, !.avail_out = @ - 1]
      /\ held' = Tail(held) /\ UNCHANGED <<callVars, others, meddled>>
      /\ IF Valid(stream.next_out, 1)
         THEN mem' = [mem EXCEPT !.heap[b][k + 1] = Head(held)] /\ UNCHANGED wild
         ELSE wild' = TRUE /\ UNCHANGED mem
    BY DEF Produce
<1>3. b \in Buffers /\ stream.avail_out <= maxdest /\ dest \in Strings
    BY <1>2 DEF IInv, Control
<1>4. mem.heap[b] \in Seq(Nat) /\ Len(mem.heap[b]) \in Nat
    BY <1>1, <1>3, MemoryParts, LenProperties
<1>5. Head(held) \in Nat /\ Tail(held) \in Seq(Nat)
    BY <1>1, <1>2, HeadTailProperties
<1>6. Valid(stream.next_out, 1) => k + 1 \in 1 .. Len(mem.heap[b])
    BY <1>1, <1>4 DEF Valid
<1>7. Clean => Valid(stream.next_out, 1)
    <2>1. Clean => /\ b = mem.ref[dest] /\ k + stream.avail_out = maxdest
                   /\ maxdest <= Len(mem.heap[mem.ref[dest]])
        BY <1>2 DEF IInv, Placed
    <2>2. Clean => k + stream.avail_out <= Len(mem.heap[b])
        BY <2>1
    <2>3. Clean => k + 1 <= Len(mem.heap[b])
        BY <1>1, <1>2, <1>4, <2>2
    <2>. QED  BY <2>3 DEF Valid
<1>8. /\ stream'.next_out.buf = b /\ stream'.next_out.off = k + 1
      /\ stream'.avail_out = stream.avail_out - 1
      /\ stream'.next_in = stream.next_in
      /\ stream'.avail_in = stream.avail_in
    BY <1>1, <1>2 DEF TypeOK, Pointers
<1>9. ASSUME Valid(stream.next_out, 1)
      PROVE  /\ WellFormed(mem') /\ mem'.raw = mem.raw /\ mem'.ref = mem.ref
             /\ mem'.len = mem.len /\ mem'.shared = mem.shared
             /\ mem'.heap[b] = c /\ c \in Seq(Nat)
             /\ Len(c) = Len(mem.heap[b])
             /\ \A d \in Buffers \ {b} : mem'.heap[d] = mem.heap[d]
    <2>1. c \in Seq(Nat) /\ Len(c) = Len(mem.heap[b])
        BY <1>4, <1>5, <1>6, <1>9, ExceptSeq
    <2>2. mem' = [mem EXCEPT !.heap[b] = c]
        BY <1>2, <1>9
    <2>. HIDE DEF b, c
    <2>. QED  BY <1>1, <1>3, <2>1, <2>2, Rewritten
<1>10. /\ WellFormed(mem') /\ mem'.raw = mem.raw /\ mem'.ref = mem.ref
       /\ mem'.len = mem.len /\ mem'.shared = mem.shared
       /\ \A d \in Buffers : Len(mem'.heap[d]) = Len(mem.heap[d])
    <2>1. CASE Valid(stream.next_out, 1)
        BY <1>9, <2>1
    <2>2. CASE ~Valid(stream.next_out, 1)
        BY <1>1, <1>2, <2>2
    <2>. QED  BY <2>1, <2>2
<1>11. ~wild' => SubSeq(mem'.heap[b], 1, k + 1)
                    = Append(SubSeq(mem.heap[b], 1, k), Head(held))
    <2>. SUFFICES ASSUME ~wild'
                  PROVE  SubSeq(mem'.heap[b], 1, k + 1)
                            = Append(SubSeq(mem.heap[b], 1, k), Head(held))
        OBVIOUS
    <2>1. Valid(stream.next_out, 1)
        BY <1>2
    <2>2. k + 1 \in 1 .. Len(mem.heap[b]) /\ mem'.heap[b] = c
        BY <1>6, <1>9, <2>1
    <2>3. \A h \in Seq(Nat), x \in Nat :
              k + 1 \in 1 .. Len(h) =>
                  SubSeq([h EXCEPT ![k + 1] = x], 1, k + 1)
                      = Append(SubSeq(h, 1, k), x)
        BY <1>1, WrittenPrefix
    <2>. QED  BY <1>4, <1>5, <2>2, <2>3
<1>12. meddled \subseteq {"same"} =>
           \A s \in Strings \ {dest} : Text(mem', s) = Text(mem, s)
    <2>. SUFFICES ASSUME meddled \subseteq {"same"},
                         NEW s \in Strings \ {dest}
                  PROVE  Text(mem', s) = Text(mem, s)
        OBVIOUS
    <2>1. b = mem.ref[dest] /\ ~mem.shared[dest]
        BY <1>2 DEF IInv, Owned
    <2>2. mem.ref[s] # b /\ mem.ref[s] \in Buffers
        BY <1>1, <1>3, <2>1, MemoryParts DEF WellFormed
    <2>3. mem'.heap[mem.ref[s]] = mem.heap[mem.ref[s]]
        BY <1>2, <1>9, <2>2
    <2>. QED  BY <1>10, <2>3 DEF Text
<1>13. TypeOK'
    <2>1. stream' \in [next_in : Pointers, avail_in : Nat,
                       next_out : Pointers, avail_out : 0 .. MaxDest]
        <3>. DEFINE q == [stream.next_out EXCEPT !.off = @ + 1]
                    n == stream.avail_out - 1
        <3>1. q \in Pointers /\ n \in 0 .. MaxDest
            <4>1. q \in Pointers
                <5>1. stream.next_out \in Pointers
                    BY <1>1 DEF TypeOK
                <5>. QED  BY <5>1 DEF Pointers
            <4>. QED  BY <1>1, <1>2, <4>1, StreamCodeAssumption
        <3>2. stream' = [stream EXCEPT !.next_out = q, !.avail_out = n]
            BY <1>2
        <3>. HIDE DEF q, n
        <3>. QED  BY <1>1, <3>1, <3>2 DEF TypeOK
    <2>2. wild' \in BOOLEAN
        BY <1>1, <1>2 DEF TypeOK
    <2>. QED
        BY <1>1, <1>2, <1>5, <1>10, <2>1, <2>2 DEF TypeOK, callVars, WellFormed
<1>14. Control'
    <2>1. stream.avail_out - 1 <= maxdest
        BY <1>1, <1>3
    <2>. QED
        BY <1>2, <1>3, <1>8, <1>10, <2>1 DEF IInv, Control, callVars
<1>15. Placed'
    <2>1. (k + 1) + (stream.avail_out - 1) = k + stream.avail_out
        BY <1>1
    <2>2. mem.ref[dest] \in Buffers
        BY <1>1, <1>3, MemoryParts
    <2>. QED
        BY <1>2, <1>8, <1>10, <2>1, <2>2 DEF IInv, Placed, Clean, callVars
<1>16. Owned'
    BY <1>2, <1>8, <1>10 DEF IInv, Owned, callVars
<1>17. MemorySafe'
    BY <1>2, <1>7 DEF MemorySafe, Clean
<1>18. IInv'
    BY <1>10, <1>13, <1>14, <1>15, <1>16, <1>17 DEF IInv
<1>19. Clean => ~wild'
    BY <1>2, <1>7
<1>. QED  BY <1>8, <1>11, <1>12, <1>18, <1>19

-----------------------------------------------------------------------------
\* The memmove touches one buffer and puts the rest of the input at its front.
LEMMA ShiftedFacts ==
    ASSUME IInv, pc = "coding", src # Nil, Fits
    PROVE  LET b == mem.ref[src]
               p == stream.next_in
           IN  /\ b \in Buffers /\ p.buf \in Buffers
               /\ WellFormed(Shifted) /\ Shifted.ref = mem.ref
               /\ Shifted.len = mem.len /\ Shifted.shared = mem.shared
               /\ Len(Shifted.heap[b]) = Len(mem.heap[b])
               /\ \A i \in 1 .. stream.avail_in :
                     Shifted.heap[b][i] = mem.heap[p.buf][p.off + i]
               /\ \A d \in Buffers \ {b} : Shifted.heap[d] = mem.heap[d]
<1>. DEFINE b == mem.ref[src]
            p == stream.next_in
            L == Len(mem.heap[b])
            Cell(i) == IF i <= stream.avail_in THEN mem.heap[p.buf][p.off + i]
                                               ELSE mem.heap[b][i]
            c == [i \in 1 .. L |-> Cell(i)]
<1>1. /\ WellFormed(mem) /\ mem \in Memory /\ src \in Strings
      /\ p.off \in Nat /\ stream.avail_in \in Nat
    BY Memories2, StreamFields DEF TypeOK
<1>2. b \in Buffers /\ p.buf \in Buffers
    BY <1>1, MemoryParts DEF IInv, Control
<1>3. /\ mem.heap[b] \in Seq(Nat) /\ mem.heap[p.buf] \in Seq(Nat)
      /\ L \in Nat /\ Len(mem.heap[p.buf]) \in Nat
    BY <1>1, <1>2, MemoryParts, LenProperties
<1>4. /\ stream.avail_in > 0 => p.off + stream.avail_in <= Len(mem.heap[p.buf])
      /\ stream.avail_in <= L
    BY DEF Fits, Valid
<1>5. \A i \in 1 .. L : Cell(i) \in Nat
    <2>. TAKE i \in 1 .. L
    <2>1. CASE i <= stream.avail_in
        <3>0. \A o, a, h \in Nat :
                  (a > 0 => o + a <= h) /\ i <= a => o + i \in 1 .. h
            BY <1>3
        <3>1. p.off + i \in 1 .. Len(mem.heap[p.buf])
            BY <1>1, <1>3, <1>4, <2>1, <3>0
        <3>. QED  BY <1>3, <2>1, <3>1, ElementOfSeq
    <2>2. CASE ~(i <= stream.avail_in)
        BY <1>3, <2>2, ElementOfSeq
    <2>. QED  BY <2>1, <2>2
<1>6. Shifted = [mem EXCEPT !.heap[b] = c]
    BY DEF Shifted
<1>7. /\ c \in Seq(Nat) /\ Len(c) = L
      /\ \A i \in 1 .. L : c[i] = Cell(i)
    <2>. HIDE DEF L, Cell
    <2>. QED  BY <1>3, <1>5, IsASeq
<1>8. \A i \in 1 .. stream.avail_in : c[i] = mem.heap[p.buf][p.off + i]
    <2>. TAKE i \in 1 .. stream.avail_in
    <2>1. i \in 1 .. L /\ i <= stream.avail_in
        BY <1>1, <1>3, <1>4
    <2>. QED  BY <1>7, <2>1
<1>. HIDE DEF c, b
<1>9. /\ WellFormed(Shifted) /\ Shifted.ref = mem.ref
      /\ Shifted.len = mem.len /\ Shifted.shared = mem.shared
      /\ Shifted.heap[b] = c
      /\ \A d \in Buffers \ {b} : Shifted.heap[d] = mem.heap[d]
    <2>1. c \in Seq(Nat) /\ Len(c) = Len(mem.heap[b])
        BY <1>7
    <2>2. WellFormed(mem) /\ b \in Buffers
        BY <1>1, <1>2
    <2>. QED  BY <1>6, <2>1, <2>2, Rewritten
<1>. QED  BY <1>2, <1>7, <1>8, <1>9 DEF b

\* Both Strings get their lengths, or an exception is raised on the way.
LEMMA ReturnFacts ==
    ASSUME IInv, Return
    PROVE  /\ WellFormed(mem') /\ mem'.ref = mem.ref /\ mem'.raw = {}
           /\ \A t \in Strings \ {src, dest} : mem'.len[t] = mem.len[t]
           /\ \A b \in Buffers :
                 (src # Nil => b # mem.ref[src]) => mem'.heap[b] = mem.heap[b]
           /\ src # Nil =>
                 \A i \in 1 .. stream.avail_in :
                    mem'.heap[mem.ref[src]][i]
                       = mem.heap[stream.next_in.buf][stream.next_in.off + i]
           /\ src # dest /\ (src # Nil => ~mem.shared[src]) /\ ~mem.shared[dest]
                 => /\ src # Nil => mem'.len[src] = stream.avail_in
                    /\ mem'.len[dest] = maxdest - stream.avail_out
<1>. DEFINE k == maxdest - stream.avail_out
            m == IF src = Nil THEN mem ELSE Shifted
            n == IF src = Nil THEN m ELSE [m EXCEPT !.len[src] = stream.avail_in]
            r == [n EXCEPT !.len[dest] = k]
<1>1. /\ TypeOK /\ WellFormed(mem) /\ mem \in Memory
      /\ src \in Strings \union {Nil} /\ stream.avail_in \in Nat
      /\ stream.avail_out \in Nat /\ maxdest \in Nat
    BY Memories2, StreamFields DEF TypeOK
<1>2. pc = "coding" /\ Fits
    BY DEF Return
<1>3. dest \in Strings /\ k \in Nat
    <2>1. dest \in Strings /\ stream.avail_out <= maxdest
        BY <1>2 DEF IInv, Control
    <2>. QED  BY <1>1, <2>1
<1>4. \/ mem' = [m EXCEPT !.raw = {}] /\ src # Nil /\ mem.shared[src]
      \/ mem' = [n EXCEPT !.raw = {}] /\ mem.shared[dest]
      \/ mem' = [r EXCEPT !.raw = {}]
    BY DEF Return, Leave
<1>5. /\ WellFormed(m) /\ m.ref = mem.ref /\ m.len = mem.len
      /\ m.shared = mem.shared
      /\ \A b \in Buffers : Len(m.heap[b]) = Len(mem.heap[b])
      /\ \A b \in Buffers :
            (src # Nil => b # mem.ref[src]) => m.heap[b] = mem.heap[b]
      /\ src # Nil =>
            \A i \in 1 .. stream.avail_in :
               m.heap[mem.ref[src]][i]
                  = mem.heap[stream.next_in.buf][stream.next_in.off + i]
    <2>1. CASE src = Nil
        BY <1>1, <2>1
    <2>2. CASE src # Nil
        BY <1>2, <2>2, ShiftedFacts
    <2>. QED  BY <2>1, <2>2
<1>. HIDE DEF m
<1>6. /\ WellFormed(n) /\ n.ref = mem.ref /\ n.heap = m.heap
      /\ \A t \in Strings \ {src} : n.len[t] = mem.len[t]
      /\ src # Nil => n.len[src] = stream.avail_in
    <2>1. CASE src = Nil
        BY <1>5, <2>1
    <2>2. CASE src # Nil
        <3>1. n = [m EXCEPT !.len[src] = stream.avail_in]
            BY <2>2
        <3>2. src \in Strings /\ mem.ref[src] \in Buffers
            BY <1>1, <2>2, MemoryParts
        <3>3. stream.avail_in <= Len(m.heap[m.ref[src]])
            BY <1>2, <1>5, <2>2, <3>2 DEF Fits
        <3>. HIDE DEF n
        <3>. QED  BY <1>1, <1>5, <3>1, <3>2, <3>3, LengthSet
    <2>. QED  BY <2>1, <2>2
<1>. HIDE DEF n
<1>7. /\ WellFormed(r) /\ r.ref = mem.ref /\ r.heap = m.heap
      /\ r.len[dest] = k
      /\ \A t \in Strings \ {dest} : r.len[t] = n.len[t]
    <2>1. mem.ref[dest] \in Buffers
        BY <1>1, <1>3, MemoryParts
    <2>2. k <= Len(n.heap[n.ref[dest]])
        BY <1>2, <1>5, <1>6, <2>1 DEF Fits
    <2>. HIDE DEF k
    <2>. QED  BY <1>3, <1>6, <2>2, LengthSet
<1>. HIDE DEF r, k
<1>8. {} \in SUBSET Buffers
    OBVIOUS
<1>9. CASE mem' = [m EXCEPT !.raw = {}] /\ src # Nil /\ mem.shared[src]
    <2>1. /\ WellFormed(mem') /\ mem'.raw = {} /\ mem'.ref = m.ref
          /\ mem'.len = m.len /\ mem'.heap = m.heap
        BY <1>5, <1>8, <1>9, RawOnly
    <2>. QED  BY <1>5, <1>9, <2>1
<1>10. CASE mem' = [n EXCEPT !.raw = {}] /\ mem.shared[dest]
    <2>1. /\ WellFormed(mem') /\ mem'.raw = {} /\ mem'.ref = n.ref
          /\ mem'.len = n.len /\ mem'.heap = n.heap
        BY <1>6, <1>8, <1>10, RawOnly
    <2>. QED  BY <1>5, <1>6, <1>10, <2>1
<1>11. CASE mem' = [r EXCEPT !.raw = {}]
    <2>1. /\ WellFormed(mem') /\ mem'.raw = {} /\ mem'.ref = r.ref
          /\ mem'.len = r.len /\ mem'.heap = r.heap
        BY <1>7, <1>8, <1>11, RawOnly
    <2>2. src # Nil /\ src # dest => src \in Strings \ {dest}
        BY <1>1
    <2>. QED  BY <1>5, <1>6, <1>7, <2>1, <2>2 DEF k
<1>. QED  BY <1>4, <1>9, <1>10, <1>11

\* Between two calls there is nothing left to go wrong.
LEMMA Quiet ==
    ASSUME IInv, ~wild, \E m : Leave(m), UNCHANGED wild,
           WellFormed(mem'), mem'.raw = {}
    PROVE  IInv'
<1>1. /\ stream' = NoPointers /\ pc' = "idle" /\ src' = Nil /\ dest' = Nil
      /\ maxdest' = 0 /\ meddled' = {} /\ UNCHANGED <<held, calls, others>>
    BY DEF Leave
<1>2. TypeOK'
    <2>1. stream' \in [next_in : Pointers, avail_in : Nat,
                       next_out : Pointers, avail_out : 0 .. MaxDest]
        BY <1>1, StreamCodeAssumption DEF NoPointers, Pointer, Pointers
    <2>2. 0 \in 0 .. MaxDest
        BY StreamCodeAssumption
    <2>. QED  BY <1>1, <2>1, <2>2 DEF IInv, TypeOK, WellFormed
<1>3. Control' /\ Placed' /\ Owned' /\ MemorySafe'
    BY <1>1 DEF Control, Placed, Owned, MemorySafe, NoPointers
<1>. QED  BY <1>2, <1>3 DEF IInv

\* The call returns: the Strings it is not about keep their content.
LEMMA ReturnStep ==
    ASSUME IInv, ~wild, Return
    PROVE  /\ IInv'
           /\ meddled \subseteq {"same"} =>
                 \A s \in Strings \ {src, dest} : Text(mem', s) = Text(mem, s)
<1>1. IInv'
    <2>1. (\E m : Leave(m)) /\ UNCHANGED wild
        BY DEF Return
    <2>. QED  BY <2>1, ReturnFacts, Quiet
<1>2. ASSUME meddled \subseteq {"same"}, NEW s \in Strings \ {src, dest}
      PROVE  Text(mem', s) = Text(mem, s)
    <2>1. src # Nil => ~mem.shared[src]
        BY <1>2 DEF IInv, Owned, Return
    <2>2. /\ WellFormed(mem) /\ mem \in Memory /\ src \in Strings \union {Nil}
        BY Memories2 DEF TypeOK
    <2>3. mem.ref[s] \in Buffers /\ (src # Nil => mem.ref[s] # mem.ref[src])
        BY <2>1, <2>2, MemoryParts DEF WellFormed
    <2>4. /\ mem'.ref[s] = mem.ref[s] /\ mem'.len[s] = mem.len[s]
          /\ mem'.heap[mem.ref[s]] = mem.heap[mem.ref[s]]
        BY <2>3, ReturnFacts
    <2>. QED  BY <2>4 DEF Text
<1>. QED  BY <1>1, <1>2

\* An exception ends the call and changes no String.
LEMMA RaiseStep ==
    ASSUME IInv, ~wild, Raise
    PROVE  IInv' /\ \A s \in Strings : Text(mem', s) = Text(mem, s)
<1>1. Leave(mem) /\ UNCHANGED wild /\ mem' = [mem EXCEPT !.raw = {}]
    BY DEF Raise, Leave
<1>2. WellFormed(mem) /\ {} \in SUBSET Buffers
    BY DEF IInv
<1>3. /\ WellFormed(mem') /\ mem'.raw = {}
      /\ \A s \in Strings : Text(mem', s) = Text(mem, s)
    BY <1>1, <1>2, RawOnly
<1>. QED  BY <1>1, <1>3, Quiet

\* A memmove or a length beyond a buffer needs somebody who meddled.
LEMMA WildStep ==
    ASSUME IInv, ~wild, ReturnWild
    PROVE  IInv' /\ wild'
<1>. USE DEF ReturnWild, callVars
<1>1. TypeOK' /\ WellFormed(mem') /\ Control'
    BY DEF IInv, TypeOK, Control
<1>2. Placed' /\ Owned'
    BY DEF IInv, Placed, Owned, Clean
<1>3. ~Clean
    <2>. SUFFICES ASSUME Clean PROVE FALSE
        OBVIOUS
    <2>1. /\ src # Nil => /\ stream.next_in.buf = mem.ref[src]
                          /\ stream.next_in.off + stream.avail_in = mem.len[src]
          /\ maxdest <= Len(mem.heap[mem.ref[dest]])
        BY DEF IInv, Placed
    <2>2. /\ mem \in Memory /\ WellFormed(mem) /\ src \in Strings \union {Nil}
          /\ dest \in Strings
          /\ stream.next_in.off \in Nat /\ stream.avail_in \in Nat
          /\ stream.avail_out \in Nat /\ maxdest \in Nat
        BY Memories2, StreamFields DEF IInv, Control, TypeOK
    <2>3. ASSUME src # Nil
          PROVE  /\ Valid(stream.next_in, stream.avail_in)
                 /\ stream.avail_in <= Len(mem.heap[mem.ref[src]])
        <3>1. /\ mem.len[src] \in Nat /\ Len(mem.heap[mem.ref[src]]) \in Nat
              /\ mem.len[src] <= Len(mem.heap[mem.ref[src]])
            BY <2>2, <2>3, MemoryParts DEF WellFormed
        <3>2. stream.next_in.off + stream.avail_in
                  <= Len(mem.heap[mem.ref[src]])
            BY <2>1, <2>3, <3>1
        <3>3. stream.avail_in <= Len(mem.heap[mem.ref[src]])
            BY <2>2, <3>1, <3>2
        <3>. QED  BY <2>1, <2>3, <3>2, <3>3 DEF Valid
    <2>4. maxdest - stream.avail_out <= Len(mem.heap[mem.ref[dest]])
        <3>1. Len(mem.heap[mem.ref[dest]]) \in Nat
            BY <2>2, MemoryParts
        <3>. QED  BY <2>1, <2>2, <3>1
    <2>. QED  BY <2>3, <2>4 DEF Fits
<1>4. MemorySafe'
    BY <1>3 DEF MemorySafe, Clean
<1>. QED  BY <1>1, <1>2, <1>4 DEF IInv

-----------------------------------------------------------------------------
\* Other Ruby code changes String t and is blamed if src or dest notices.
LEMMA OtherStep ==
    ASSUME IInv, ~wild, NEW s \in Strings, NEW t \in Strings,
           NEW kind \in {"changed", "shared"}, NEW m, Other(s, kind, m),
           WellFormed(m), OnlyTouches(mem, m, t),
           kind = "shared" => t \notin Kept,
           s \notin Kept => /\ t \notin Kept
                            /\ \A u \in Kept \intersect Strings :
                                  m.shared[u] = mem.shared[u]
    PROVE  /\ IInv'
           /\ meddled' = {} =>
                 /\ \A u \in Kept \intersect Strings : Text(m, u) = Text(mem, u)
                 /\ pc \in {"action", "coding"} =>
                       m.heap[stream.next_out.buf] = mem.heap[stream.next_out.buf]
<1>1. /\ TypeOK /\ WellFormed(mem) /\ mem \in Memory /\ m \in Memory
      /\ src \in Strings \union {Nil} /\ Nil \notin Strings
    BY Memories2, StreamCodeAssumption DEF TypeOK, WellFormed
<1>2. /\ others < MaxOther /\ others' = others + 1 /\ mem' = m
      /\ meddled' = meddled \union (IF s \in Kept THEN {kind} ELSE {})
      /\ UNCHANGED <<stream, held, callVars, wild>>
    BY DEF Other
<1>3. pc # "idle" => src \in Kept /\ (pc # "args" => dest \in Kept)
    BY DEF Kept
<1>4. m.raw = mem.raw /\ \A u \in Strings \ {t} :
          /\ m.ref[u] = mem.ref[u] /\ m.len[u] = mem.len[u]
          /\ m.heap[mem.ref[u]] = mem.heap[mem.ref[u]]
    BY DEF OnlyTouches
<1>5. (Clean' => Clean) /\ (Clean' => t \notin Kept)
    BY <1>2 DEF Clean
<1>6. TypeOK'
    <2>1. others' \in 0 .. MaxOther
        BY <1>1, <1>2, StreamCodeAssumption DEF TypeOK
    <2>2. meddled' \subseteq {"changed", "shared", "same"}
        BY <1>1, <1>2 DEF TypeOK
    <2>. QED  BY <1>1, <1>2, <2>1, <2>2 DEF TypeOK, WellFormed, callVars
<1>7. Control'
    BY <1>2, <1>4 DEF IInv, Control, callVars
<1>8. Placed'
    <2>. SUFFICES ASSUME Clean', pc # "idle"
                  PROVE  /\ src # dest
                         /\ src # Nil =>
                               /\ stream.next_in.buf = m.ref[src]
                               /\ stream.next_in.off + stream.avail_in
                                      = m.len[src]
                         /\ pc # "args" =>
                               /\ stream.next_out.buf = m.ref[dest]
                               /\ stream.next_out.off + stream.avail_out
                                      = maxdest
                               /\ maxdest <= Len(m.heap[m.ref[dest]])
        BY <1>2 DEF Placed, callVars
    <2>1. /\ src # dest
          /\ src # Nil => /\ stream.next_in.buf = mem.ref[src]
                          /\ stream.next_in.off + stream.avail_in = mem.len[src]
          /\ pc # "args" => /\ stream.next_out.buf = mem.ref[dest]
                            /\ stream.next_out.off + stream.avail_out = maxdest
                            /\ maxdest <= Len(mem.heap[mem.ref[dest]])
        BY <1>5 DEF IInv, Placed
    <2>2. src # Nil => m.ref[src] = mem.ref[src] /\ m.len[src] = mem.len[src]
        BY <1>1, <1>3, <1>4, <1>5
    <2>3. pc # "args" => /\ m.ref[dest] = mem.ref[dest]
                         /\ m.heap[mem.ref[dest]] = mem.heap[mem.ref[dest]]
        <3>1. dest \in Strings
            BY DEF IInv, Control
        <3>. QED  BY <1>3, <1>4, <1>5, <3>1
    <2>. QED  BY <2>1, <2>2, <2>3
<1>9. Owned'
    <2>. SUFFICES ASSUME meddled' \subseteq {"same"}, pc # "idle"
                  PROVE  /\ src # Nil => ~m.shared[src]
                         /\ pc # "args" => /\ stream.next_out.buf = m.ref[dest]
                                           /\ ~m.shared[dest]
        BY <1>2 DEF Owned, callVars
    <2>1. s \notin Kept /\ meddled \subseteq {"same"}
        BY <1>2
    <2>2. /\ src # Nil => ~mem.shared[src]
          /\ pc # "args" => /\ stream.next_out.buf = mem.ref[dest]
                            /\ ~mem.shared[dest]
          /\ dest \in Strings
        BY <2>1 DEF IInv, Owned, Control
    <2>3. src # Nil => m.shared[src] = mem.shared[src]
        BY <1>1, <1>3, <2>1
    <2>4. pc # "args" => /\ m.shared[dest] = mem.shared[dest]
                         /\ m.ref[dest] = mem.ref[dest]
        BY <1>3, <1>4, <2>1, <2>2
    <2>. QED  BY <2>2, <2>3, <2>4
<1>10. MemorySafe'
    BY <1>2 DEF MemorySafe
<1>11. meddled' = {} =>
           /\ \A u \in Kept \intersect Strings : Text(m, u) = Text(mem, u)
           /\ pc \in {"action", "coding"} =>
                 m.heap[stream.next_out.buf] = mem.heap[stream.next_out.buf]
    <2>. SUFFICES ASSUME meddled' = {}
                  PROVE  /\ \A u \in Kept \intersect Strings :
                               Text(m, u) = Text(mem, u)
                         /\ pc \in {"action", "coding"} =>
                               m.heap[stream.next_out.buf]
                                  = mem.heap[stream.next_out.buf]
        OBVIOUS
    <2>1. t \notin Kept /\ Clean
        BY <1>2 DEF Clean
    <2>2. \A u \in Kept \intersect Strings : Text(m, u) = Text(mem, u)
        BY <1>4, <2>1 DEF Text
    <2>3. pc \in {"action", "coding"} =>
              dest \in Kept \intersect Strings
              /\ stream.next_out.buf = mem.ref[dest]
        BY <1>3, <2>1 DEF IInv, Control, Placed
    <2>. QED  BY <1>4, <2>1, <2>2, <2>3
<1>. QED
    BY <1>2, <1>6, <1>7, <1>8, <1>9, <1>10, <1>11 DEF IInv

\* Everything other code can do to a String.
LEMMA OtherCodeStep ==
    ASSUME IInv, ~wild, OtherCode
    PROVE  /\ IInv'
           /\ meddled' = {} =>
                 /\ \A u \in Kept \intersect Strings :
                       Text(mem', u) = Text(mem, u)
                 /\ pc \in {"action", "coding"} =>
                       mem'.heap[stream.next_out.buf]
                          = mem.heap[stream.next_out.buf]
<1>1. WellFormed(mem) /\ Room(mem)
    BY Memories2
<1>2. CASE \E s, t \in Strings : Dup(s, t)
    <2>1. PICK s \in Strings, t \in Strings : Dup(s, t)
        BY <1>2
    <2>2. /\ s # t /\ t \notin Kept /\ Other(s, "shared", Dupped(mem, s, t))
          /\ mem' = Dupped(mem, s, t)
        BY <2>1 DEF Dup, Other
    <2>3. /\ WellFormed(Dupped(mem, s, t))
          /\ OnlyTouches(mem, Dupped(mem, s, t), t)
          /\ \A u \in Strings \ {s, t} :
                Dupped(mem, s, t).shared[u] = mem.shared[u]
        BY <1>1, <2>2, DuppedFacts
    <2>. QED  BY <2>2, <2>3, OtherStep
<1>3. CASE \E s, t \in Strings : Replace(s, t)
    <2>1. PICK s \in Strings, t \in Strings : Replace(s, t)
        BY <1>3
    <2>2. /\ s # t /\ t \in Kept /\ Other(t, "changed", Dupped(mem, s, t))
          /\ mem' = Dupped(mem, s, t)
        BY <2>1 DEF Replace, Other
    <2>3. /\ WellFormed(Dupped(mem, s, t))
          /\ OnlyTouches(mem, Dupped(mem, s, t), t)
        BY <1>1, <2>2, DuppedFacts
    <2>. QED  BY <2>2, <2>3, OtherStep
<1>4. CASE \E s \in Strings : Clear(s)
    <2>1. PICK s \in Strings : Clear(s)
        BY <1>4
    <2>2. Other(s, "changed", Cleared(mem, s)) /\ mem' = Cleared(mem, s)
        BY <2>1 DEF Clear, Other
    <2>3. /\ WellFormed(Cleared(mem, s))
          /\ OnlyTouches(mem, Cleared(mem, s), s)
          /\ \A u \in Strings \ {s} : Cleared(mem, s).shared[u] = mem.shared[u]
        BY <1>1, ClearedFacts
    <2>. QED  BY <2>2, <2>3, OtherStep
<1>5. CASE \E s \in Strings : Extend(s)
    <2>1. PICK s \in Strings : Extend(s)
        BY <1>5
    <2>2. /\ Other(s, "changed", Appended(mem, s, Unset))
          /\ mem' = Appended(mem, s, Unset) /\ Unset \in Nat
        BY <2>1 DEF Extend, Other, Unset
    <2>3. /\ WellFormed(Appended(mem, s, Unset))
          /\ OnlyTouches(mem, Appended(mem, s, Unset), s)
          /\ \A u \in Strings \ {s} :
                Appended(mem, s, Unset).shared[u] = mem.shared[u]
        BY <1>1, <2>2, AppendedFacts
    <2>. QED  BY <2>2, <2>3, OtherStep
<1>. QED  BY <1>2, <1>3, <1>4, <1>5 DEF OtherCode

-----------------------------------------------------------------------------
\* The invariant holds at first.
LEMMA InitHolds == Init => IInv
<1>. SUFFICES ASSUME Init PROVE IInv
    OBVIOUS
<1>. USE DEF Init
<1>1. WellFormed(mem) /\ mem.raw = {}
    BY StreamCodeAssumption
<1>2. TypeOK
    <2>1. stream \in [next_in : Pointers, avail_in : Nat,
                      next_out : Pointers, avail_out : 0 .. MaxDest]
        BY StreamCodeAssumption DEF NoPointers, Pointer, Pointers
    <2>2. 0 \in 0 .. MaxDest /\ 0 \in 0 .. MaxCalls /\ 0 \in 0 .. MaxOther
        BY StreamCodeAssumption
    <2>. QED  BY <1>1, <2>1, <2>2, EmptySeq DEF TypeOK, WellFormed
<1>3. Control /\ Placed /\ Owned /\ MemorySafe
    BY <1>1 DEF Control, Placed, Owned, MemorySafe, NoPointers
<1>. QED  BY <1>1, <1>2, <1>3 DEF IInv

\* Every step keeps the invariant.
LEMMA StepHolds == IInv /\ [Next]_vars => IInv'
<1>. SUFFICES ASSUME IInv, [Next]_vars PROVE IInv'
    OBVIOUS
<1>1. CASE Next
    <2>0. ~wild
        BY <1>1 DEF Next
    <2>1. CASE \E s \in Strings \union {Nil}, d \in Strings, n \in 0 .. MaxDest :
                   Call(s, d, n)
        BY <2>0, <2>1, CallStep
    <2>2. CASE Reserve
        BY <2>0, <2>2, ReserveStep
    <2>3. CASE Enter
        BY <2>0, <2>3, EnterStep
    <2>4. CASE Consume
        BY <2>0, <2>4, ConsumeStep
    <2>5. CASE Produce
        BY <2>0, <2>5, ProduceStep
    <2>6. CASE Return
        BY <2>0, <2>6, ReturnStep
    <2>7. CASE ReturnWild
        BY <2>0, <2>7, WildStep
    <2>8. CASE Raise
        BY <2>0, <2>8, RaiseStep
    <2>9. CASE OtherCode
        BY <2>0, <2>9, OtherCodeStep
    <2>. QED
        BY <1>1, <2>1, <2>2, <2>3, <2>4, <2>5, <2>6, <2>7, <2>8, <2>9
           DEF Next, Step
<1>2. CASE UNCHANGED vars
    BY <1>2 DEF vars, callVars, IInv, TypeOK, Control, Placed, Owned, Clean,
       MemorySafe
<1>. QED  BY <1>1, <1>2

\* The inductive invariant.
LEMMA Invariance == Spec => []IInv
BY InitHolds, StepHolds, PTL DEF Spec

\* Every variable of a call keeps its type, and the content of every String
\* stays inside its buffer.
THEOREM CallTypes == Spec => []TypeOK
<1>1. IInv => TypeOK
    BY DEF IInv
<1>. QED  BY <1>1, Invariance, PTL

\* lzma_code, the memmove and rb_str_set_len stay inside src and dest unless
\* other code changed one of the two or they are the same String.
THEOREM StaysInside == Spec => []MemorySafe
<1>1. IInv => MemorySafe
    BY DEF IInv
<1>. QED  BY <1>1, Invariance, PTL

\* A call leaves the content of every other String alone, also of one that was
\* a dup of src or dest, unless src or dest is shared while it runs.
THEOREM OthersUntouched == Spec => OthersKeepText
<1>1. ASSUME IInv, Next, Step, meddled \subseteq {"same"}, ~wild',
             NEW s \in Strings \ {src, dest}
      PROVE  Text(mem', s) = Text(mem, s)
    <2>0. ~wild
        BY <1>1 DEF Next
    <2>1. CASE Reserve
        BY <1>1, <2>0, <2>1, ReserveStep
    <2>2. CASE Enter \/ Consume
        BY <2>2 DEF Enter, Consume
    <2>3. CASE Produce
        BY <1>1, <2>0, <2>3, ProduceStep
    <2>4. CASE Return
        BY <1>1, <2>0, <2>4, ReturnStep
    <2>5. CASE ReturnWild
        BY <1>1, <2>5 DEF ReturnWild
    <2>6. CASE Raise
        BY <1>1, <2>0, <2>6, RaiseStep
    <2>. QED  BY <1>1, <2>1, <2>2, <2>3, <2>4, <2>5, <2>6 DEF Step
<1>2. IInv /\ [Next]_vars =>
          [Step /\ meddled \subseteq {"same"} /\ ~wild' =>
              \A s \in Strings \ {src, dest} : Text(mem', s) = Text(mem, s)]_vars
    BY <1>1
<1>. QED  BY <1>2, Invariance, PTL DEF Spec, OthersKeepText

-----------------------------------------------------------------------------
(* Stream#code implements AtomicCode.                                      *)

\* What the refinement mapping shows of the Strings, of the input consumed
\* and of the output produced.
Content == [s \in Strings |-> IF Busy /\ s = dest THEN <<>> ELSE Text(mem, s)]
Taken == IF Busy THEN stream.next_in.off ELSE 0
Made == IF pc \in {"action", "coding"} /\ meddled = {}
        THEN SubSeq(mem.heap[stream.next_out.buf], 1, stream.next_out.off)
        ELSE <<>>

\* The actions of AtomicCode in these terms.
LEMMA AtomicActions ==
    /\ meddled # {} \/ meddled' # {} => Atomic!Next
    /\ meddled = {} /\ meddled' = {} =>
        /\ /\ \A s \in Strings \intersect (IF Busy THEN {src, dest} ELSE {}) :
                 Content'[s] = Content[s]
           /\ held' = held /\ Busy' = Busy /\ src' = src /\ dest' = dest
           /\ Taken' = Taken /\ Made' = Made
           => Atomic!Next
        /\ /\ ~Busy /\ Busy' /\ dest' # src'
           /\ \A s \in Strings \ {dest'} : Content'[s] = Content[s]
           /\ held' = held /\ Taken' = Taken /\ Made' = Made
           => Atomic!Next
        /\ /\ Busy /\ src # Nil /\ Taken < Len(Content[src])
           /\ held' = Append(held, Content[src][Taken + 1])
           /\ Taken' = Taken + 1
           /\ Content' = Content /\ Busy' = Busy /\ src' = src /\ dest' = dest
           /\ Made' = Made
           => Atomic!Next
        /\ /\ Busy /\ held # <<>>
           /\ Made' = Append(Made, Head(held)) /\ held' = Tail(held)
           /\ Content' = Content /\ Busy' = Busy /\ src' = src /\ dest' = dest
           /\ Taken' = Taken
           => Atomic!Next
        /\ /\ Busy /\ Busy' = FALSE
           /\ \A s \in Strings \ {src, dest} : Content'[s] = Content[s]
           /\ \/ /\ src # Nil =>
                       Content'[src]
                           = SubSeq(Content[src], Taken + 1, Len(Content[src]))
                 /\ Content'[dest] = Made
              \/ src # Nil => Content'[src] = Content[src]
           /\ Taken' = 0 /\ Made' = <<>> /\ held' = held
           => Atomic!Next
<1>1. meddled # {} \/ meddled' # {} => Atomic!Next
    BY DEF Atomic!Next, Atomic!Break
<1>2. ASSUME meddled = {}, meddled' = {},
             \A s \in Strings \intersect (IF Busy THEN {src, dest} ELSE {}) :
                 Content'[s] = Content[s],
             held' = held, Busy' = Busy, src' = src, dest' = dest,
             Taken' = Taken, Made' = Made
      PROVE  Atomic!Next
    BY <1>2 DEF Atomic!Next, Atomic!Mutate, Atomic!Used, Content, Taken, Made
<1>3. ASSUME meddled = {}, meddled' = {},
             ~Busy, Busy', dest' # src',
             \A s \in Strings \ {dest'} : Content'[s] = Content[s],
             held' = held, Taken' = Taken, Made' = Made
      PROVE  Atomic!Next
    BY <1>3 DEF Atomic!Next, Atomic!Begin, Content, Taken, Made, Busy
<1>4. ASSUME meddled = {}, meddled' = {},
             Busy, src # Nil, Taken < Len(Content[src]),
             held' = Append(held, Content[src][Taken + 1]), Taken' = Taken + 1,
             Content' = Content, Busy' = Busy, src' = src, dest' = dest,
             Made' = Made
      PROVE  Atomic!Next
    BY <1>4 DEF Atomic!Next, Atomic!Consume, Content, Taken, Made
<1>5. ASSUME meddled = {}, meddled' = {},
             Busy, held # <<>>, Made' = Append(Made, Head(held)),
             held' = Tail(held), Content' = Content, Busy' = Busy, src' = src,
             dest' = dest, Taken' = Taken
      PROVE  Atomic!Next
    BY <1>5 DEF Atomic!Next, Atomic!Produce, Content, Taken, Made
<1>6. ASSUME meddled = {}, meddled' = {},
             Busy, Busy' = FALSE,
             \A s \in Strings \ {src, dest} : Content'[s] = Content[s],
             \/ /\ src # Nil =>
                       Content'[src]
                           = SubSeq(Content[src], Taken + 1, Len(Content[src]))
                /\ Content'[dest] = Made
             \/ src # Nil => Content'[src] = Content[src],
             Taken' = 0, Made' = <<>>, held' = held
      PROVE  Atomic!Next
    BY <1>6 DEF Atomic!Next, Atomic!End, Content, Taken, Made
<1>. QED  BY <1>1, <1>2, <1>3, <1>4, <1>5, <1>6

\* The Strings of a call before and after a step.
LEMMA ContentOf ==
    /\ \A s \in Strings :
          Content[s] = IF Busy /\ s = dest THEN <<>> ELSE Text(mem, s)
    /\ \A s \in Strings :
          Content'[s] = IF Busy' /\ s = dest' THEN <<>> ELSE Text(mem', s)
BY DEF Content

\* A call that begins.
LEMMA AtomicCall ==
    ASSUME IInv, ~wild, meddled = {}, meddled' = {},
           NEW s \in Strings \union {Nil}, NEW d \in Strings,
           NEW n \in 0 .. MaxDest, Call(s, d, n)
    PROVE  Atomic!Next
<1>1. /\ pc = "idle" /\ pc' = "args" /\ src' = s /\ dest' = d
      /\ meddled' = meddled \union (IF s = d THEN {"same"} ELSE {})
      /\ held' = held
    BY DEF Call
<1>2. /\ \A t \in Strings : Text(mem', t) = Text(mem, t)
      /\ stream'.next_in.off = 0
    BY CallStep
<1>3. ~Busy /\ Busy' /\ dest' # src'
    BY <1>1 DEF Busy
<1>4. \A t \in Strings \ {dest'} : Content'[t] = Content[t]
    BY <1>2, <1>3, ContentOf
<1>5. Taken' = Taken /\ Made' = Made
    BY <1>1, <1>2, <1>3 DEF Taken, Made
<1>. QED  BY <1>1, <1>3, <1>4, <1>5, AtomicActions

\* dest gets its room.
LEMMA AtomicReserve ==
    ASSUME IInv, ~wild, meddled = {}, meddled' = {}, Reserve
    PROVE  Atomic!Next
<1>1. /\ pc = "args" /\ pc' = "action"
      /\ UNCHANGED <<held, src, dest>>
    BY DEF Reserve
<1>2. /\ \A s \in Strings \ {dest} : Text(mem', s) = Text(mem, s)
      /\ stream'.next_in = stream.next_in /\ stream'.next_out.off = 0
    BY ReserveStep
<1>3. Busy /\ Busy' /\ Busy' = Busy
    BY <1>1 DEF Busy
<1>4. \A s \in Strings : Content'[s] = Content[s]
    BY <1>1, <1>2, <1>3, ContentOf
<1>5. SubSeq(mem'.heap[stream'.next_out.buf], 1, 0) = <<>>
    BY SubSeqEmpty
<1>6. Taken' = Taken /\ Made' = Made
    BY <1>1, <1>2, <1>3, <1>5 DEF Taken, Made
<1>. QED  BY <1>1, <1>3, <1>4, <1>6, AtomicActions

\* A byte goes into the coder.
LEMMA AtomicConsume ==
    ASSUME IInv, ~wild, meddled = {}, meddled' = {}, Consume
    PROVE  Atomic!Next
<1>1. /\ pc = "coding" /\ pc' = "coding" /\ UNCHANGED <<mem, src, dest>>
    BY DEF Consume, callVars
<1>2. /\ stream'.next_in.off = stream.next_in.off + 1
      /\ stream'.next_out = stream.next_out
      /\ src # Nil /\ stream.next_in.off < Len(Text(mem, src))
      /\ held' = Append(held, Text(mem, src)[stream.next_in.off + 1])
    BY ConsumeStep DEF Clean
<1>3. src # dest /\ src \in Strings
    BY <1>1, <1>2 DEF IInv, TypeOK, Placed, Clean
<1>4. Busy /\ Busy' = Busy
    BY <1>1 DEF Busy
<1>5. Content[src] = Text(mem, src)
    BY <1>3, ContentOf
<1>6. Content' = Content
    BY <1>1, <1>4 DEF Content
<1>7. Taken = stream.next_in.off /\ Taken' = Taken + 1 /\ Made' = Made
    BY <1>1, <1>2, <1>4 DEF Taken, Made
<1>. QED
    BY <1>1, <1>2, <1>4, <1>5, <1>6, <1>7, AtomicActions

\* A byte comes out of it.
LEMMA AtomicProduce ==
    ASSUME IInv, ~wild, meddled = {}, meddled' = {}, Produce
    PROVE  Atomic!Next
<1>1. /\ pc = "coding" /\ pc' = "coding" /\ UNCHANGED <<src, dest>>
      /\ held # <<>> /\ held' = Tail(held)
    BY DEF Produce, callVars
<1>2. Clean /\ meddled \subseteq {"same"}
    BY DEF Clean
<1>3. /\ stream'.next_in = stream.next_in
      /\ \A s \in Strings \ {dest} : Text(mem', s) = Text(mem, s)
      /\ SubSeq(mem'.heap[stream.next_out.buf], 1, stream.next_out.off + 1)
             = Append(SubSeq(mem.heap[stream.next_out.buf], 1,
                             stream.next_out.off), Head(held))
      /\ stream'.next_out.buf = stream.next_out.buf
      /\ stream'.next_out.off = stream.next_out.off + 1
    BY <1>2, ProduceStep
<1>4. Busy /\ Busy' = Busy
    BY <1>1 DEF Busy
<1>5. Content' = Content
    <2>1. \A s \in Strings : (IF Busy' /\ s = dest' THEN <<>> ELSE Text(mem', s))
                           = (IF Busy /\ s = dest THEN <<>> ELSE Text(mem, s))
        BY <1>1, <1>3, <1>4
    <2>. QED  BY <2>1 DEF Content
<1>6. Taken' = Taken /\ Made' = Append(Made, Head(held))
    BY <1>1, <1>3, <1>4 DEF Taken, Made
<1>. QED  BY <1>1, <1>4, <1>5, <1>6, AtomicActions

\* The call returns: src is the input that is left, dest is the output.
LEMMA AtomicReturn ==
    ASSUME IInv, ~wild, meddled = {}, meddled' = {}, Return
    PROVE  Atomic!Next
<1>1. /\ pc = "coding" /\ pc' = "idle" /\ held' = held
    BY DEF Return, Leave
<1>2. /\ \A s \in Strings \ {src, dest} : Text(mem', s) = Text(mem, s)
    BY ReturnStep
<1>3. Clean /\ Busy /\ Busy' = FALSE
    BY <1>1 DEF Clean, Busy
<1>4. /\ TypeOK /\ WellFormed(mem) /\ mem \in Memory /\ dest \in Strings
      /\ src \in Strings \union {Nil} /\ stream.next_in.off \in Nat
      /\ stream.avail_in \in Nat /\ stream.next_out.off \in Nat
      /\ stream.avail_out \in Nat /\ maxdest \in Nat
    BY <1>1, Memories2, StreamFields DEF TypeOK, IInv, Control
<1>5. /\ src # dest
      /\ src # Nil => /\ stream.next_in.buf = mem.ref[src]
                      /\ stream.next_in.off + stream.avail_in = mem.len[src]
                      /\ ~mem.shared[src]
      /\ stream.next_out.buf = mem.ref[dest] /\ ~mem.shared[dest]
      /\ stream.next_out.off + stream.avail_out = maxdest
    BY <1>1, <1>3 DEF IInv, Placed, Owned
<1>6. /\ WellFormed(mem') /\ mem'.ref = mem.ref
      /\ src # Nil => mem'.len[src] = stream.avail_in
      /\ mem'.len[dest] = maxdest - stream.avail_out
      /\ \A b \in Buffers :
            (src # Nil => b # mem.ref[src]) => mem'.heap[b] = mem.heap[b]
      /\ src # Nil =>
            \A i \in 1 .. stream.avail_in :
               mem'.heap[mem.ref[src]][i]
                  = mem.heap[stream.next_in.buf][stream.next_in.off + i]
    BY <1>5, ReturnFacts
<1>7. Text(mem', dest) = Made
    <2>1. mem.ref[dest] \in Buffers /\ (src # Nil => mem.ref[dest] # mem.ref[src])
        BY <1>4, <1>5, MemoryParts DEF WellFormed
    <2>2. mem'.heap[mem.ref[dest]] = mem.heap[mem.ref[dest]]
        BY <1>6, <2>1
    <2>3. maxdest - stream.avail_out = stream.next_out.off
        BY <1>4, <1>5
    <2>. QED  BY <1>1, <1>5, <1>6, <2>2, <2>3 DEF Text, Made
<1>8. ASSUME src # Nil
      PROVE  Text(mem', src)
                 = SubSeq(Text(mem, src), Taken + 1, Len(Text(mem, src)))
    <2>. DEFINE x == Text(mem, src)
                y == Text(mem', src)
                k == stream.next_in.off
                z == SubSeq(x, k + 1, Len(x))
    <2>1. /\ src \in Strings /\ Taken = k /\ k + stream.avail_in = mem.len[src]
          /\ mem.len[src] \in Nat
        BY <1>3, <1>4, <1>5, <1>8, MemoryParts DEF Taken
    <2>2. /\ x \in Seq(Nat) /\ Len(x) = mem.len[src]
          /\ \A i \in 1 .. mem.len[src] : x[i] = mem.heap[mem.ref[src]][i]
        BY <1>4, <2>1, TextFacts
    <2>3. /\ y \in Seq(Nat) /\ Len(y) = stream.avail_in
          /\ \A i \in 1 .. stream.avail_in : y[i] = mem'.heap[mem.ref[src]][i]
        BY <1>6, <1>8, <2>1, TextFacts
    <2>4. Len(x) - k = stream.avail_in /\ k \in 0 .. Len(x)
        BY <1>4, <2>1, <2>2
    <2>. HIDE DEF x, y
    <2>5. /\ z \in Seq(Nat) /\ Len(z) = stream.avail_in
          /\ \A i \in 1 .. stream.avail_in : z[i] = x[k + i]
        BY <2>2, <2>4, SubSeqSuffix
    <2>. HIDE DEF z
    <2>6. \A i \in 1 .. stream.avail_in : y[i] = z[i]
        <3>. TAKE i \in 1 .. stream.avail_in
        <3>1. k + i \in 1 .. mem.len[src]
            BY <1>4, <2>1
        <3>2. y[i] = mem.heap[mem.ref[src]][k + i]
            BY <1>5, <1>6, <1>8, <2>3
        <3>. QED  BY <2>2, <2>5, <3>1, <3>2
    <2>7. y = z
        BY <2>3, <2>5, <2>6, SeqEqual
    <2>. QED  BY <2>1, <2>7 DEF x, y, z
<1>9. /\ \A s \in Strings : Content'[s] = Text(mem', s)
      /\ \A s \in Strings \ {dest} : Content[s] = Text(mem, s)
    BY <1>3, ContentOf
<1>10. Taken' = 0 /\ Made' = <<>>
    BY <1>1, <1>3 DEF Taken, Made
<1>11. /\ \A s \in Strings \ {src, dest} : Content'[s] = Content[s]
       /\ Content'[dest] = Made
       /\ src # Nil =>
             Content'[src] = SubSeq(Content[src], Taken + 1, Len(Content[src]))
    BY <1>2, <1>4, <1>5, <1>7, <1>8, <1>9
<1>. QED  BY <1>1, <1>3, <1>10, <1>11, AtomicActions

\* An exception ends the call.
LEMMA AtomicRaise ==
    ASSUME IInv, ~wild, meddled = {}, meddled' = {}, Raise
    PROVE  Atomic!Next
<1>1. pc # "idle" /\ pc' = "idle" /\ held' = held
    BY DEF Raise, Leave
<1>2. \A s \in Strings : Text(mem', s) = Text(mem, s)
    BY RaiseStep
<1>3. Busy /\ Busy' = FALSE
    BY <1>1 DEF Busy
<1>4. src \in Strings \union {Nil} /\ src # dest
    BY <1>1 DEF IInv, TypeOK, Placed, Clean
<1>5. \A s \in Strings \ {dest} : Content'[s] = Content[s]
    BY <1>2, <1>3, ContentOf
<1>6. /\ \A s \in Strings \ {src, dest} : Content'[s] = Content[s]
      /\ src # Nil => Content'[src] = Content[src]
    BY <1>4, <1>5
<1>7. Taken' = 0 /\ Made' = <<>>
    BY <1>1, <1>3 DEF Taken, Made
<1>. QED  BY <1>1, <1>3, <1>6, <1>7, AtomicActions

\* Other code keeps off the Strings of the call.
LEMMA AtomicOther ==
    ASSUME IInv, ~wild, meddled = {}, meddled' = {}, OtherCode
    PROVE  Atomic!Next
<1>1. UNCHANGED <<stream, held, callVars, wild>>
    BY DEF OtherCode, Dup, Replace, Clear, Extend, Other
<1>2. /\ \A u \in Kept \intersect Strings : Text(mem', u) = Text(mem, u)
      /\ pc \in {"action", "coding"} =>
            mem'.heap[stream.next_out.buf] = mem.heap[stream.next_out.buf]
    BY OtherCodeStep
<1>3. Busy' = Busy /\ pc' = pc /\ src' = src /\ dest' = dest
    BY <1>1 DEF Busy, callVars
<1>4. \A s \in Strings \intersect (IF Busy THEN {src, dest} ELSE {}) :
          Content'[s] = Content[s]
    <2>. TAKE s \in Strings \intersect (IF Busy THEN {src, dest} ELSE {})
    <2>1. CASE s = dest
        BY <1>3, <2>1, ContentOf
    <2>2. CASE s # dest
        <3>1. Busy /\ s = src
            BY <2>2
        <3>2. s \in Kept \intersect Strings
            BY <3>1 DEF Busy, Kept
        <3>. QED  BY <1>2, <1>3, <2>2, <3>2, ContentOf
    <2>. QED  BY <2>1, <2>2
<1>5. Taken' = Taken /\ Made' = Made
    BY <1>1, <1>2, <1>3 DEF Taken, Made
<1>. QED  BY <1>1, <1>3, <1>4, <1>5, AtomicActions

\* Without interference a call is what Encoder and Decoder take it for: input
\* leaves src in order and output arrives in dest; after an exception src is
\* what it was, and the coder keeps what it took.
THEOREM AtomicImplemented == Spec => ImplementsAtomic
<1>1. Init => Atomic!Init
    BY DEF Init, Atomic!Init, Busy
<1>2. IInv /\ IInv' /\ [Next]_vars => [Atomic!Next]_Atomic!codeVars
    <2>. SUFFICES ASSUME IInv, IInv', [Next]_vars
                  PROVE  Atomic!Next \/ UNCHANGED Atomic!codeVars
        OBVIOUS
    <2>1. CASE meddled # {} \/ meddled' # {}
        BY <2>1, AtomicActions
    <2>2. CASE meddled = {} /\ meddled' = {} /\ Next
        <3>0. ~wild
            BY <2>2 DEF Next
        <3>1. CASE \E s \in Strings \union {Nil}, d \in Strings,
                      n \in 0 .. MaxDest : Call(s, d, n)
            BY <2>2, <3>0, <3>1, AtomicCall
        <3>2. CASE Reserve
            BY <2>2, <3>0, <3>2, AtomicReserve
        <3>3. CASE Enter
            BY <3>3
               DEF Enter, Atomic!codeVars, Busy
        <3>4. CASE Consume
            BY <2>2, <3>0, <3>4, AtomicConsume
        <3>5. CASE Produce
            BY <2>2, <3>0, <3>5, AtomicProduce
        <3>6. CASE Return
            BY <2>2, <3>0, <3>6, AtomicReturn
        <3>7. CASE ReturnWild
            <4>1. wild'
                BY <3>0, <3>7, WildStep
            <4>. QED  BY <2>2, <4>1 DEF IInv, MemorySafe
        <3>8. CASE Raise
            BY <2>2, <3>0, <3>8, AtomicRaise
        <3>9. CASE OtherCode
            BY <2>2, <3>0, <3>9, AtomicOther
        <3>. QED
            BY <2>2, <3>1, <3>2, <3>3, <3>4, <3>5, <3>6, <3>7, <3>8, <3>9
               DEF Next, Step
    <2>3. CASE UNCHANGED vars
        BY <2>3 DEF vars, callVars, Atomic!codeVars, Busy
    <2>. QED  BY <2>1, <2>2, <2>3
<1>. QED
    BY <1>1, <1>2, Invariance, PTL DEF Spec, ImplementsAtomic, Atomic!Spec
=============================================================================
