-------------------------- MODULE RubyStringProofs --------------------------
(***************************************************************************)
(* Lemmas about the operations on Strings of module RubyString: what they  *)
(* do to the String they are for, and that no other String notices.        *)
(***************************************************************************)
EXTENDS RubyString, FiniteSets, SequenceTheorems, FunctionTheorems,
        FiniteSetTheorems, TLAPS

\* The first elements of a sequence.
LEMMA SubSeqPrefix ==
    ASSUME NEW S, NEW s \in Seq(S), NEW k \in 0 .. Len(s)
    PROVE  /\ SubSeq(s, 1, k) \in Seq(S)
           /\ Len(SubSeq(s, 1, k)) = k
           /\ \A i \in 1 .. k : SubSeq(s, 1, k)[i] = s[i]
<1>1. Len(s) \in Nat /\ k \in Int
    BY LenProperties
<1>2. \A i \in 1 .. k : s[i] \in S
    BY <1>1, ElementOfSeq
<1>. DEFINE u == SubSeq(s, 1, k)
<1>3. /\ u \in Seq(S)
      /\ Len(u) = IF 1 <= k THEN k - 1 + 1 ELSE 0
      /\ \A i \in 1 .. k - 1 + 1 : u[i] = s[1 + i - 1]
    BY <1>1, <1>2, SubSeqProperties
<1>. QED  BY <1>1, <1>3

\* There is a buffer left for a String that needs one.
Room(m) == \E b \in Buffers : b \notin m.raw /\ ~Live(m, b)

\* From m to n only String s changes: every other one keeps its buffer, its
\* length and the cells of its buffer.
OnlyTouches(m, n, s) ==
    /\ n.raw = m.raw
    /\ \A t \in Strings \ {s} :
          /\ n.ref[t] = m.ref[t] /\ n.len[t] = m.len[t]
          /\ n.heap[m.ref[t]] = m.heap[m.ref[t]]

\* The parts of a memory.
LEMMA MemoryParts ==
    ASSUME NEW m \in Memory
    PROVE  /\ m.ref \in [Strings -> Buffers] /\ m.len \in [Strings -> Nat]
           /\ m.shared \in [Strings -> BOOLEAN]
           /\ m.heap \in [Buffers -> Seq(Nat)] /\ m.raw \subseteq Buffers
           /\ \A s \in Strings :
                 /\ m.ref[s] \in Buffers /\ m.len[s] \in Nat
                 /\ m.shared[s] \in BOOLEAN /\ m.heap[m.ref[s]] \in Seq(Nat)
                 /\ Len(m.heap[m.ref[s]]) \in Nat
                 /\ Live(m, m.ref[s])
<1>1. /\ m.ref \in [Strings -> Buffers] /\ m.len \in [Strings -> Nat]
      /\ m.shared \in [Strings -> BOOLEAN]
      /\ m.heap \in [Buffers -> Seq(Nat)] /\ m.raw \subseteq Buffers
    BY DEF Memory
<1>. QED  BY <1>1, LenProperties DEF Live

\* malloc finds a buffer that belongs to nobody.
LEMMA FreshBuffer ==
    ASSUME NEW m \in Memory, Room(m)
    PROVE  /\ Fresh(m) \in Buffers /\ Fresh(m) \notin m.raw
           /\ \A s \in Strings : m.ref[s] # Fresh(m)
<1>1. \E b \in Buffers \ m.raw : ~Live(m, b)
    BY DEF Room
<1>2. Fresh(m) \in Buffers \ m.raw /\ ~Live(m, Fresh(m))
    BY <1>1 DEF Fresh
<1>. QED  BY <1>2 DEF Live

\* Freeing what nobody refers to leaves the rest alone.
LEMMA SweptFields ==
    ASSUME NEW m \in Memory
    PROVE  LET n == Swept(m)
           IN  /\ n \in Memory
               /\ n.ref = m.ref /\ n.len = m.len /\ n.shared = m.shared
               /\ n.raw = m.raw
               /\ \A s \in Strings : n.heap[m.ref[s]] = m.heap[m.ref[s]]
<1>. DEFINE h == [b \in Buffers |-> IF Live(m, b) THEN m.heap[b] ELSE <<>>]
            n == Swept(m)
<1>1. h \in [Buffers -> Seq(Nat)]
    <2>1. \A b \in Buffers : m.heap[b] \in Seq(Nat)
        BY MemoryParts
    <2>. QED  BY <2>1, EmptySeq
<1>2. \A s \in Strings : h[m.ref[s]] = m.heap[m.ref[s]]
    BY MemoryParts
<1>3. n = [m EXCEPT !.heap = h]
    BY DEF Swept
<1>. HIDE DEF h
<1>4. /\ n.ref = m.ref /\ n.len = m.len /\ n.shared = m.shared
      /\ n.raw = m.raw /\ n.heap = h
    BY <1>3 DEF Memory
<1>5. n \in Memory
    BY <1>1, <1>3 DEF Memory
<1>. QED  BY <1>2, <1>4, <1>5

\* A String with a new buffer of its own.
LEMMA StoredFields ==
    ASSUME NEW m \in Memory, Room(m), NEW s \in Strings,
           NEW cells \in Seq(Nat), NEW k \in Nat
    PROVE  LET n == Stored(m, s, cells, k)
           IN  /\ n \in Memory /\ OnlyTouches(m, n, s)
               /\ n.ref[s] = Fresh(m) /\ n.len[s] = k /\ ~n.shared[s]
               /\ n.heap[n.ref[s]] = cells
               /\ \A t \in Strings \ {s} : n.shared[t] = m.shared[t]
<1>. DEFINE b == Fresh(m)
            p == [m EXCEPT !.ref[s] = b, !.len[s] = k, !.shared[s] = FALSE,
                           !.heap[b] = cells]
            n == Stored(m, s, cells, k)
<1>1. b \in Buffers /\ b \notin m.raw /\ \A t \in Strings : m.ref[t] # b
    BY FreshBuffer
<1>2. n = Swept(p)
    BY DEF Stored
<1>. HIDE DEF b
<1>3. /\ p.ref = [m.ref EXCEPT ![s] = b] /\ p.len = [m.len EXCEPT ![s] = k]
      /\ p.shared = [m.shared EXCEPT ![s] = FALSE]
      /\ p.heap = [m.heap EXCEPT ![b] = cells] /\ p.raw = m.raw
    BY DEF Memory
<1>4. p \in Memory
    <2>1. /\ [m.ref EXCEPT ![s] = b] \in [Strings -> Buffers]
          /\ [m.len EXCEPT ![s] = k] \in [Strings -> Nat]
          /\ [m.shared EXCEPT ![s] = FALSE] \in [Strings -> BOOLEAN]
        BY <1>1, MemoryParts
    <2>2. [m.heap EXCEPT ![b] = cells] \in [Buffers -> Seq(Nat)]
        BY <1>1, MemoryParts
    <2>. QED  BY <2>1, <2>2 DEF Memory
<1>. HIDE DEF p
<1>5. /\ n \in Memory /\ n.ref = p.ref /\ n.len = p.len
      /\ n.shared = p.shared /\ n.raw = p.raw
      /\ \A t \in Strings : n.heap[p.ref[t]] = p.heap[p.ref[t]]
    BY <1>2, <1>4, SweptFields
<1>6. p.ref[s] = b /\ p.heap[b] = cells
    BY <1>1, <1>3, MemoryParts
<1>7. \A t \in Strings \ {s} :
          /\ p.ref[t] = m.ref[t] /\ p.len[t] = m.len[t]
          /\ p.heap[m.ref[t]] = m.heap[m.ref[t]]
    <2>1. \A t \in Strings \ {s} : p.ref[t] = m.ref[t] /\ p.len[t] = m.len[t]
        BY <1>3, MemoryParts
    <2>2. \A c \in Buffers \ {b} : p.heap[c] = m.heap[c]
        BY <1>3, MemoryParts
    <2>3. \A t \in Strings : m.ref[t] \in Buffers \ {b}
        BY <1>1, MemoryParts
    <2>. QED  BY <2>1, <2>2, <2>3
<1>8. OnlyTouches(m, n, s)
    BY <1>3, <1>5, <1>7 DEF OnlyTouches
<1>9. p.len[s] = k /\ p.shared[s] = FALSE
      /\ \A t \in Strings \ {s} : p.shared[t] = m.shared[t]
    BY <1>3, MemoryParts
<1>. QED  BY <1>5, <1>6, <1>8, <1>9 DEF b

\* A pointer that comes or goes changes no String.
LEMMA RawOnly ==
    ASSUME NEW m, WellFormed(m), NEW X \in SUBSET Buffers
    PROVE  LET n == [m EXCEPT !.raw = X]
           IN  /\ WellFormed(n) /\ n.raw = X
               /\ n.ref = m.ref /\ n.len = m.len /\ n.shared = m.shared
               /\ n.heap = m.heap
               /\ \A s \in Strings : Text(n, s) = Text(m, s)
<1>. DEFINE n == [m EXCEPT !.raw = X]
<1>1. m \in Memory
    BY DEF WellFormed
<1>2. /\ n \in Memory /\ n.raw = X
      /\ n.ref = m.ref /\ n.len = m.len /\ n.shared = m.shared
      /\ n.heap = m.heap
    BY <1>1 DEF Memory
<1>. HIDE DEF n
<1>3. WellFormed(n)
    BY <1>2 DEF WellFormed
<1>4. \A s \in Strings : Text(n, s) = Text(m, s)
    BY <1>2 DEF Text
<1>. QED  BY <1>2, <1>3, <1>4 DEF n

\* C code writes into a buffer without changing its size.
LEMMA Rewritten ==
    ASSUME NEW m, WellFormed(m), NEW b \in Buffers, NEW c \in Seq(Nat),
           Len(c) = Len(m.heap[b])
    PROVE  LET n == [m EXCEPT !.heap[b] = c]
           IN  /\ WellFormed(n) /\ n.raw = m.raw
               /\ n.ref = m.ref /\ n.len = m.len /\ n.shared = m.shared
               /\ n.heap[b] = c
               /\ \A d \in Buffers \ {b} : n.heap[d] = m.heap[d]
<1>. DEFINE n == [m EXCEPT !.heap[b] = c]
<1>1. m \in Memory /\ m.heap \in [Buffers -> Seq(Nat)]
    BY MemoryParts DEF WellFormed
<1>2. [m.heap EXCEPT ![b] = c] \in [Buffers -> Seq(Nat)]
    BY <1>1
<1>3. /\ n \in Memory /\ n.heap = [m.heap EXCEPT ![b] = c]
      /\ n.ref = m.ref /\ n.len = m.len /\ n.shared = m.shared
      /\ n.raw = m.raw
    BY <1>1, <1>2 DEF Memory
<1>. HIDE DEF n
<1>4. n.heap[b] = c /\ \A d \in Buffers \ {b} : n.heap[d] = m.heap[d]
    BY <1>1, <1>3
<1>5. \A s \in Strings : n.len[s] <= Len(n.heap[n.ref[s]])
    <2>. TAKE s \in Strings
    <2>1. Len(n.heap[m.ref[s]]) = Len(m.heap[m.ref[s]])
        BY <1>1, <1>4, MemoryParts
    <2>. QED  BY <1>3, <2>1 DEF WellFormed
<1>6. WellFormed(n)
    BY <1>3, <1>5 DEF WellFormed
<1>. QED  BY <1>3, <1>4, <1>6 DEF n

\* rb_str_set_len
LEMMA LengthSet ==
    ASSUME NEW m, WellFormed(m), NEW s \in Strings, NEW k \in Nat,
           k <= Len(m.heap[m.ref[s]])
    PROVE  LET n == [m EXCEPT !.len[s] = k]
           IN  /\ WellFormed(n) /\ n.raw = m.raw
               /\ n.ref = m.ref /\ n.heap = m.heap /\ n.shared = m.shared
               /\ n.len[s] = k
               /\ \A t \in Strings \ {s} : n.len[t] = m.len[t]
<1>. DEFINE n == [m EXCEPT !.len[s] = k]
<1>1. m \in Memory /\ m.len \in [Strings -> Nat]
    BY MemoryParts DEF WellFormed
<1>2. [m.len EXCEPT ![s] = k] \in [Strings -> Nat]
    BY <1>1
<1>3. /\ n \in Memory /\ n.len = [m.len EXCEPT ![s] = k]
      /\ n.ref = m.ref /\ n.heap = m.heap /\ n.shared = m.shared
      /\ n.raw = m.raw
    BY <1>1, <1>2 DEF Memory
<1>. HIDE DEF n
<1>4. n.len[s] = k /\ \A t \in Strings \ {s} : n.len[t] = m.len[t]
    BY <1>1, <1>3
<1>5. \A t \in Strings : n.len[t] <= Len(n.heap[n.ref[t]])
    <2>. TAKE t \in Strings
    <2>1. CASE t = s
        BY <1>3, <1>4, <2>1
    <2>2. CASE t # s
        BY <1>3, <1>4, <2>2 DEF WellFormed
    <2>. QED  BY <2>1, <2>2
<1>6. WellFormed(n)
    BY <1>3, <1>5 DEF WellFormed
<1>. QED  BY <1>3, <1>4, <1>6 DEF n

\* The content of a String.
LEMMA TextFacts ==
    ASSUME NEW m, WellFormed(m), NEW s \in Strings
    PROVE  /\ Text(m, s) \in Seq(Nat) /\ Len(Text(m, s)) = m.len[s]
           /\ \A i \in 1 .. m.len[s] : Text(m, s)[i] = m.heap[m.ref[s]][i]
<1>1. /\ m.heap[m.ref[s]] \in Seq(Nat) /\ m.len[s] \in Nat
      /\ m.len[s] <= Len(m.heap[m.ref[s]]) /\ Len(m.heap[m.ref[s]]) \in Nat
    BY MemoryParts DEF WellFormed
<1>2. m.len[s] \in 0 .. Len(m.heap[m.ref[s]])
    BY <1>1
<1>. QED  BY <1>1, <1>2, SubSeqPrefix DEF Text

\* No other String notices.
LEMMA TextsKept ==
    ASSUME NEW m, NEW n, NEW s, OnlyTouches(m, n, s)
    PROVE  \A t \in Strings \ {s} : Text(n, t) = Text(m, t)
BY DEF OnlyTouches, Text

\* A String with a new buffer shares it with nobody.
LEMMA StoredWell ==
    ASSUME NEW m, WellFormed(m), Room(m), NEW s \in Strings,
           NEW cells \in Seq(Nat), NEW k \in Nat, k <= Len(cells)
    PROVE  LET n == Stored(m, s, cells, k)
           IN  /\ WellFormed(n) /\ OnlyTouches(m, n, s)
               /\ ~n.shared[s] /\ n.len[s] = k /\ n.heap[n.ref[s]] = cells
               /\ \A t \in Strings \ {s} : n.shared[t] = m.shared[t]
<1>. DEFINE n == Stored(m, s, cells, k)
<1>1. m \in Memory
    BY DEF WellFormed
<1>2. /\ n \in Memory /\ OnlyTouches(m, n, s)
      /\ n.ref[s] = Fresh(m) /\ n.len[s] = k /\ ~n.shared[s]
      /\ n.heap[n.ref[s]] = cells
      /\ \A t \in Strings \ {s} : n.shared[t] = m.shared[t]
    BY <1>1, StoredFields
<1>. HIDE DEF n
<1>3. \A t \in Strings \ {s} : n.ref[t] = m.ref[t]
    BY <1>2 DEF OnlyTouches
<1>4. \A t \in Strings \ {s} : n.ref[t] = m.ref[t] /\ n.ref[t] # n.ref[s]
    BY <1>1, <1>2, <1>3, FreshBuffer
<1>5. ASSUME NEW t \in Strings
      PROVE  n.len[t] <= Len(n.heap[n.ref[t]])
    <2>1. CASE t = s
        BY <1>2, <2>1
    <2>2. CASE t # s
        BY <1>2, <1>4, <2>2 DEF OnlyTouches, WellFormed
    <2>. QED  BY <2>1, <2>2
<1>6. ASSUME NEW t \in Strings, NEW u \in Strings, t # u, n.ref[t] = n.ref[u]
      PROVE  n.shared[t] /\ n.shared[u]
    <2>1. t # s /\ u # s
        BY <1>4, <1>6
    <2>. QED  BY <1>2, <1>4, <1>6, <2>1 DEF WellFormed
<1>7. WellFormed(n)
    BY <1>2, <1>5, <1>6 DEF WellFormed
<1>. QED  BY <1>2, <1>7 DEF n

\* rb_str_modify makes s independent and keeps its content.
LEMMA ModifiedFacts ==
    ASSUME NEW m, WellFormed(m), Room(m), NEW s \in Strings
    PROVE  LET n == Modified(m, s)
           IN  /\ WellFormed(n) /\ OnlyTouches(m, n, s)
               /\ ~n.shared[s] /\ n.len[s] = m.len[s]
               /\ Text(n, s) = Text(m, s)
               /\ Len(n.heap[n.ref[s]]) >= Capacity(m, s)
               /\ \A t \in Strings \ {s} : n.shared[t] = m.shared[t]
<1>1. m \in Memory /\ m.len[s] \in Nat
    BY MemoryParts DEF WellFormed
<1>2. CASE m.shared[s]
    <2>. DEFINE x == Text(m, s)
                n == Stored(m, s, x, m.len[s])
    <2>1. x \in Seq(Nat) /\ Len(x) = m.len[s]
        BY TextFacts
    <2>2. /\ WellFormed(n) /\ OnlyTouches(m, n, s)
          /\ ~n.shared[s] /\ n.len[s] = m.len[s] /\ n.heap[n.ref[s]] = x
          /\ \A t \in Strings \ {s} : n.shared[t] = m.shared[t]
        BY <1>1, <2>1, StoredWell
    <2>. HIDE DEF n
    <2>3. Text(n, s) = SubSeq(x, 1, Len(x))
        BY <2>1, <2>2 DEF Text
    <2>. HIDE DEF x
    <2>4. Text(n, s) = x
        BY <2>1, <2>3, SubSeqFull
    <2>5. Modified(m, s) = n /\ Capacity(m, s) = m.len[s]
        BY <1>2 DEF Modified, Capacity, n, x
    <2>. QED  BY <1>1, <2>1, <2>2, <2>4, <2>5 DEF x
<1>3. CASE ~m.shared[s]
    BY <1>1, <1>3, MemoryParts DEF Modified, OnlyTouches, Capacity
<1>. QED  BY <1>2, <1>3

\* rb_str_modify_expand does the same and makes room.
LEMMA ExpandedFacts ==
    ASSUME NEW m, WellFormed(m), Room(m), NEW s \in Strings,
           NEW k \in Nat, m.len[s] <= k
    PROVE  LET n == Expanded(m, s, k)
           IN  /\ WellFormed(n) /\ OnlyTouches(m, n, s)
               /\ ~n.shared[s] /\ n.len[s] = m.len[s]
               /\ Text(n, s) = Text(m, s)
               /\ Len(n.heap[n.ref[s]]) = k
               /\ \A t \in Strings \ {s} : n.shared[t] = m.shared[t]
<1>. DEFINE x == Text(m, s)
            cells == [i \in 1 .. k |-> IF i <= m.len[s] THEN x[i] ELSE Unset]
            n == Stored(m, s, cells, m.len[s])
<1>1. m.len[s] \in Nat /\ x \in Seq(Nat) /\ Len(x) = m.len[s]
    BY TextFacts, MemoryParts DEF WellFormed
<1>2. \A i \in 1 .. k : (IF i <= m.len[s] THEN x[i] ELSE Unset) \in Nat
    BY <1>1, ElementOfSeq DEF Unset
<1>. HIDE DEF x
<1>3. /\ cells \in Seq(Nat) /\ Len(cells) = k
      /\ \A i \in 1 .. m.len[s] : cells[i] = x[i]
    BY <1>1, <1>2, IsASeq
<1>. HIDE DEF cells
<1>4. /\ WellFormed(n) /\ OnlyTouches(m, n, s)
      /\ ~n.shared[s] /\ n.len[s] = m.len[s] /\ n.heap[n.ref[s]] = cells
      /\ \A t \in Strings \ {s} : n.shared[t] = m.shared[t]
    BY <1>1, <1>3, StoredWell
<1>. HIDE DEF n
<1>5. Text(n, s) = x
    <2>1. Text(n, s) = SubSeq(cells, 1, m.len[s])
        BY <1>4 DEF Text
    <2>2. m.len[s] \in 0 .. Len(cells)
        BY <1>1, <1>3
    <2>3. /\ SubSeq(cells, 1, m.len[s]) \in Seq(Nat)
          /\ Len(SubSeq(cells, 1, m.len[s])) = m.len[s]
          /\ \A i \in 1 .. m.len[s] : SubSeq(cells, 1, m.len[s])[i] = x[i]
        BY <1>3, <2>2, SubSeqPrefix
    <2>4. SubSeq(cells, 1, m.len[s]) = x
        BY <1>1, <2>3, SeqEqual
    <2>. QED  BY <2>1, <2>4
<1>6. Expanded(m, s, k) = n
    BY DEF Expanded, n, cells, x
<1>. QED  BY <1>3, <1>4, <1>5, <1>6 DEF x

\* s.clear gives s an empty buffer of its own.
LEMMA ClearedFacts ==
    ASSUME NEW m, WellFormed(m), Room(m), NEW s \in Strings
    PROVE  LET n == Cleared(m, s)
           IN  /\ WellFormed(n) /\ OnlyTouches(m, n, s)
               /\ \A t \in Strings \ {s} : n.shared[t] = m.shared[t]
<1>. DEFINE n == Cleared(m, s)
            c == <<>>
<1>1. c \in Seq(Nat) /\ 0 \in Nat /\ 0 <= Len(c)
    BY EmptySeq
<1>2. n = Stored(m, s, c, 0)
    BY DEF Cleared
<1>. HIDE DEF n, c
<1>. QED  BY <1>1, <1>2, StoredWell DEF n

\* s << x writes behind the content of a buffer that only s refers to, or
\* into a new one.
LEMMA AppendedFacts ==
    ASSUME NEW m, WellFormed(m), Room(m), NEW s \in Strings, NEW x \in Nat
    PROVE  LET n == Appended(m, s, x)
           IN  /\ WellFormed(n) /\ OnlyTouches(m, n, s)
               /\ \A t \in Strings \ {s} : n.shared[t] = m.shared[t]
<1>. DEFINE n == Appended(m, s, x)
            b == m.ref[s]
            k == m.len[s]
<1>1. m \in Memory /\ b \in Buffers /\ k \in Nat /\ m.heap[b] \in Seq(Nat)
      /\ Len(m.heap[b]) \in Nat
    BY MemoryParts DEF WellFormed
<1>2. CASE k < Capacity(m, s)
    <2>. DEFINE c == [m.heap[b] EXCEPT ![k + 1] = x]
    <2>1. ~m.shared[s] /\ k < Len(m.heap[b])
        BY <1>1, <1>2 DEF Capacity
    <2>2. n = [m EXCEPT !.heap[b][k + 1] = x, !.len[s] = @ + 1]
        BY <1>2 DEF Appended
    <2>3. c \in Seq(Nat) /\ Len(c) = Len(m.heap[b])
        BY <1>1, <2>1, ExceptSeq
    <2>. HIDE DEF c
    <2>4. /\ n.ref = m.ref /\ n.shared = m.shared /\ n.raw = m.raw
          /\ n.len = [m.len EXCEPT ![s] = k + 1]
          /\ n.heap = [m.heap EXCEPT ![b] = c]
        BY <1>1, <2>2 DEF Memory, c
    <2>. HIDE DEF n
    <2>5. n \in Memory
        <3>1. [m.heap EXCEPT ![b] = c] \in [Buffers -> Seq(Nat)]
            BY <1>1, <2>3, MemoryParts
        <3>2. [m.len EXCEPT ![s] = k + 1] \in [Strings -> Nat]
            BY <1>1, MemoryParts
        <3>3. n = [ref |-> n.ref, len |-> n.len, shared |-> n.shared,
                   heap |-> n.heap, raw |-> n.raw]
            BY <1>1, <2>2 DEF Memory, n
        <3>. QED  BY <1>1, <2>4, <3>1, <3>2, <3>3 DEF Memory
    <2>6. \A t \in Strings \ {s} : m.ref[t] # b
        BY <2>1 DEF WellFormed
    <2>7. /\ n.heap[b] = c /\ n.len[s] = k + 1
          /\ \A t \in Strings \ {s} : n.len[t] = m.len[t]
          /\ \A t \in Strings \ {s} : n.heap[m.ref[t]] = m.heap[m.ref[t]]
        BY <1>1, <2>4, <2>6, MemoryParts
    <2>8. OnlyTouches(m, n, s)
        BY <2>4, <2>7 DEF OnlyTouches
    <2>9. \A t \in Strings : n.len[t] <= Len(n.heap[n.ref[t]])
        <3>. SUFFICES ASSUME NEW t \in Strings
                      PROVE  n.len[t] <= Len(n.heap[n.ref[t]])
            OBVIOUS
        <3>1. CASE t = s
            BY <1>1, <2>1, <2>3, <2>4, <2>7, <3>1
        <3>2. CASE t # s
            BY <2>4, <2>7, <3>2 DEF WellFormed
        <3>. QED  BY <3>1, <3>2
    <2>10. WellFormed(n)
        BY <2>4, <2>5, <2>9 DEF WellFormed
    <2>. QED  BY <2>4, <2>8, <2>10 DEF n
<1>3. CASE ~(k < Capacity(m, s))
    <2>. DEFINE c == Append(Text(m, s), x)
    <2>1. c \in Seq(Nat) /\ Len(c) = k + 1 /\ k + 1 \in Nat /\ k + 1 <= Len(c)
        BY <1>1, TextFacts, AppendProperties
    <2>2. n = Stored(m, s, c, k + 1)
        BY <1>3 DEF Appended
    <2>. HIDE DEF c, n
    <2>. QED  BY <2>1, <2>2, StoredWell DEF n
<1>. QED  BY <1>2, <1>3

\* t = s.dup: two Strings, one buffer, and both know it.
LEMMA DuppedFacts ==
    ASSUME NEW m, WellFormed(m), NEW s \in Strings, NEW t \in Strings, s # t
    PROVE  LET n == Dupped(m, s, t)
           IN  /\ WellFormed(n) /\ OnlyTouches(m, n, t)
               /\ \A u \in Strings \ {s, t} : n.shared[u] = m.shared[u]
<1>. DEFINE p == [m EXCEPT !.ref[t] = m.ref[s], !.len[t] = m.len[s],
                           !.shared[t] = TRUE, !.shared[s] = TRUE]
            n == Dupped(m, s, t)
<1>. HIDE DEF p
<1>1. m \in Memory /\ m.ref[s] \in Buffers /\ m.len[s] \in Nat
    BY MemoryParts DEF WellFormed
<1>2. n = Swept(p)
    BY DEF Dupped, p
<1>3. /\ p \in Memory
      /\ p.ref = [m.ref EXCEPT ![t] = m.ref[s]]
      /\ p.len = [m.len EXCEPT ![t] = m.len[s]]
      /\ p.shared = [m.shared EXCEPT ![t] = TRUE, ![s] = TRUE]
      /\ p.heap = m.heap /\ p.raw = m.raw
    <2>. DEFINE q == [m EXCEPT !.ref[t] = m.ref[s], !.len[t] = m.len[s],
                               !.shared[t] = TRUE]
    <2>1. /\ [m.ref EXCEPT ![t] = m.ref[s]] \in [Strings -> Buffers]
          /\ [m.len EXCEPT ![t] = m.len[s]] \in [Strings -> Nat]
          /\ [m.shared EXCEPT ![t] = TRUE] \in [Strings -> BOOLEAN]
        BY <1>1, MemoryParts
    <2>2. q.ref = [m.ref EXCEPT ![t] = m.ref[s]]
          /\ q.len = [m.len EXCEPT ![t] = m.len[s]]
          /\ q.shared = [m.shared EXCEPT ![t] = TRUE]
          /\ q.heap = m.heap /\ q.raw = m.raw
        BY <1>1 DEF Memory
    <2>3. q \in Memory
        BY <1>1, <2>1 DEF Memory
    <2>4. p = [q EXCEPT !.shared[s] = TRUE]
        BY DEF p
    <2>. HIDE DEF q
    <2>5. /\ p.shared = [q.shared EXCEPT ![s] = TRUE]
          /\ p.ref = q.ref /\ p.len = q.len /\ p.heap = q.heap /\ p.raw = q.raw
        BY <2>3, <2>4 DEF Memory
    <2>6. [q.shared EXCEPT ![s] = TRUE] \in [Strings -> BOOLEAN]
        BY <2>1, <2>2
    <2>7. p \in Memory
        BY <2>3, <2>4, <2>6 DEF Memory
    <2>. QED  BY <2>2, <2>5, <2>7
<1>4. p \in Memory
    BY <1>3
<1>5. /\ n \in Memory /\ n.ref = p.ref /\ n.len = p.len
      /\ n.shared = p.shared /\ n.raw = p.raw
      /\ \A u \in Strings : n.heap[p.ref[u]] = p.heap[p.ref[u]]
    BY <1>2, <1>4, SweptFields
<1>. HIDE DEF n
<1>6. /\ p.ref[t] = m.ref[s] /\ p.len[t] = m.len[s]
      /\ p.shared[s] = TRUE /\ p.shared[t] = TRUE
      /\ \A u \in Strings \ {t} : p.ref[u] = m.ref[u] /\ p.len[u] = m.len[u]
      /\ \A u \in Strings \ {s, t} : p.shared[u] = m.shared[u]
    <2>1. /\ m.ref \in [Strings -> Buffers] /\ m.len \in [Strings -> Nat]
          /\ m.shared \in [Strings -> BOOLEAN]
        BY <1>1, MemoryParts
    <2>2. /\ p.ref[t] = m.ref[s] /\ p.len[t] = m.len[s]
          /\ \A u \in Strings \ {t} : p.ref[u] = m.ref[u] /\ p.len[u] = m.len[u]
        BY <1>3, <2>1
    <2>3. /\ p.shared[s] = TRUE /\ p.shared[t] = TRUE
          /\ \A u \in Strings \ {s, t} : p.shared[u] = m.shared[u]
        BY <1>3, <2>1, Zenon
    <2>. QED  BY <2>2, <2>3
<1>7. OnlyTouches(m, n, t)
    BY <1>3, <1>5, <1>6 DEF OnlyTouches
<1>8. \A u \in Strings : n.len[u] <= Len(n.heap[n.ref[u]])
    <2>1. n.len[t] <= Len(n.heap[n.ref[t]])
        BY <1>3, <1>5, <1>6 DEF WellFormed
    <2>2. \A u \in Strings \ {t} :
              n.len[u] = m.len[u] /\ n.heap[n.ref[u]] = m.heap[m.ref[u]]
        <3>. TAKE u \in Strings \ {t}
        <3>1. n.ref[u] = m.ref[u] /\ n.len[u] = m.len[u] /\ p.ref[u] = m.ref[u]
            BY <1>5, <1>6
        <3>2. n.heap[p.ref[u]] = p.heap[p.ref[u]]
            BY <1>5
        <3>. QED  BY <1>3, <3>1, <3>2
    <2>3. \A u \in Strings \ {t} : n.len[u] <= Len(n.heap[n.ref[u]])
        BY <2>2 DEF WellFormed
    <2>. QED  BY <2>1, <2>3
<1>9. ASSUME NEW u \in Strings, NEW v \in Strings, u # v, n.ref[u] = n.ref[v]
      PROVE  n.shared[u]
    <2>1. CASE u \in {s, t}
        BY <1>5, <1>6, <2>1
    <2>2. CASE u \notin {s, t} /\ v # t
        BY <1>5, <1>6, <1>9, <2>2 DEF WellFormed
    <2>3. CASE u \notin {s, t} /\ v = t
        BY <1>5, <1>6, <1>9, <2>3 DEF WellFormed
    <2>. QED  BY <2>1, <2>2, <2>3
<1>10. WellFormed(n)
    BY <1>5, <1>8, <1>9 DEF WellFormed
<1>. QED  BY <1>5, <1>6, <1>7, <1>10 DEF n

\* With more buffers than Strings and pointers malloc never fails.
LEMMA EnoughRoom ==
    ASSUME NEW m \in Memory, IsFiniteSet(Strings), NEW k \in Nat,
           IsFiniteSet(m.raw), Cardinality(m.raw) <= k,
           \/ ~IsFiniteSet(Buffers)
           \/ Cardinality(Buffers) > Cardinality(Strings) + k
    PROVE  Room(m)
<1>. DEFINE R == {m.ref[s] : s \in Strings}
            U == R \union m.raw
<1>1. m.ref \in [Strings -> Buffers] /\ m.raw \subseteq Buffers
    BY MemoryParts
<1>2. m.ref \in Surjection(Strings, R)
    <2>1. m.ref \in [Strings -> R]
        BY <1>1
    <2>2. \A r \in R : \E s \in Strings : m.ref[s] = r
        OBVIOUS
    <2>. QED  BY <2>1, <2>2, Fun_IsSurj
<1>. HIDE DEF R
<1>3. IsFiniteSet(R) /\ Cardinality(R) <= Cardinality(Strings)
    BY <1>2, FS_Surjection
<1>4. /\ Cardinality(R) \in Nat /\ Cardinality(Strings) \in Nat
      /\ Cardinality(m.raw) \in Nat /\ Cardinality(R \cap m.raw) \in Nat
    <2>1. IsFiniteSet(R \cap m.raw)
        BY <1>3, FS_Intersection
    <2>. QED  BY <1>3, <2>1, FS_CardinalityType
<1>5. /\ IsFiniteSet(U)
      /\ Cardinality(U) = Cardinality(R) + Cardinality(m.raw)
                          - Cardinality(R \cap m.raw)
    BY <1>3, FS_Union
<1>6. Cardinality(U) <= Cardinality(Strings) + k
    BY <1>3, <1>4, <1>5
<1>7. ~(Buffers \subseteq U)
    <2>. SUFFICES ASSUME Buffers \subseteq U PROVE FALSE
        OBVIOUS
    <2>1. IsFiniteSet(Buffers) /\ Cardinality(Buffers) <= Cardinality(U)
        BY <1>5, FS_Subset
    <2>2. Cardinality(Buffers) \in Nat /\ Cardinality(U) \in Nat
        BY <1>5, <2>1, FS_CardinalityType
    <2>. QED  BY <1>4, <1>6, <2>1, <2>2
<1>8. PICK b \in Buffers : b \notin R /\ b \notin m.raw
    BY <1>7
<1>. QED  BY <1>8 DEF R, Room, Live
=============================================================================
