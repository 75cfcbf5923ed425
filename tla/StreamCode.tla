----------------------------- MODULE StreamCode -----------------------------
(***************************************************************************)
(* LZMA::Stream#code (stream_code of ext/stream.c) at the level of String  *)
(* buffers.  The call takes raw pointers into src and dest, and other Ruby *)
(* code runs while it keeps them: to_int of maxdest (pc "args") and of     *)
(* action (pc "action"), and every other thread while lzma_code runs       *)
(* without the interpreter lock (pc "coding").  Nothing locks the Strings. *)
(*                                                                         *)
(* The coder is a queue of bytes; a byte is a number, Unset a cell nobody  *)
(* wrote.  One call at a time uses the lzma_stream, as liblzma demands.    *)
(***************************************************************************)
EXTENDS RubyString, FiniteSets

CONSTANTS
    Nil,
    MaxDest,     \* bound: the largest maxdest
    MaxHeld,     \* bound: what the coder holds back
    Memories,    \* the Strings before the first call
    MaxCalls,    \* bound: calls
    MaxOther     \* bound: steps of other Ruby code

ASSUME StreamCodeAssumption ==
    /\ Nil \notin Strings /\ Nil \notin Buffers
    /\ MaxDest \in Nat /\ MaxHeld \in Nat /\ MaxCalls \in Nat /\ MaxOther \in Nat
    /\ \A m \in Memories : WellFormed(m) /\ m.raw = {}

\* malloc does not fail: there are more buffers than Strings and the two
\* pointers of a call.
ASSUME EnoughBuffers ==
    /\ IsFiniteSet(Strings)
    /\ \/ ~IsFiniteSet(Buffers)
       \/ Cardinality(Buffers) > Cardinality(Strings) + 2

VARIABLES
    mem,          \* the Strings (module RubyString)
    stream,       \* the lzma_stream
    held,         \* bytes inside the coder
    pc, src, dest, maxdest,
    calls,        \* calls so far
    others,       \* steps of other Ruby code so far
    \* history, read by the properties only
    meddled,      \* what other code did to Strings the call points into
    wild          \* an access hit memory that is not the String's

callVars == <<calls, pc, src, dest, maxdest>>
vars == <<mem, stream, held, callVars, others, meddled, wild>>

\* next_in and next_out: a buffer and an offset; NULL has no buffer.
Pointer(b) == [buf |-> b, off |-> 0]
Pointers == [buf : Buffers \union {Nil}, off : Nat]

TypeOK ==
    /\ mem \in Memory
    /\ stream \in [next_in : Pointers, avail_in : Nat,
                   next_out : Pointers, avail_out : 0 .. MaxDest]
    /\ held \in Seq(Nat)
    /\ pc \in {"idle", "args", "action", "coding"}
    /\ {src, dest} \subseteq Strings \union {Nil}
    /\ maxdest \in 0 .. MaxDest
    /\ calls \in 0 .. MaxCalls /\ others \in 0 .. MaxOther
    /\ meddled \subseteq {"changed", "shared", "same"} /\ wild \in BOOLEAN
    /\ \A s \in Strings : mem.len[s] <= Len(mem.heap[mem.ref[s]])

\* The Strings a raw pointer of the call goes into.
Kept == CASE pc = "idle" -> {}
          [] pc = "args" -> {src}
          [] OTHER       -> {src, dest}

\* LZMA_STREAM_INIT
NoPointers == [next_in |-> Pointer(Nil), avail_in |-> 0,
               next_out |-> Pointer(Nil), avail_out |-> 0]

Init ==
    /\ mem \in Memories
    /\ stream = NoPointers /\ held = <<>>
    /\ pc = "idle" /\ src = Nil /\ dest = Nil /\ maxdest = 0
    /\ calls = 0 /\ others = 0
    /\ meddled = {} /\ wild = FALSE

-----------------------------------------------------------------------------
(* The call.                                                               *)

\* code(s, d, n, action) up to NUM2SIZET(maxdest): src is made independent
\* and next_in points into it.
Call(s, d, n) ==
    /\ pc = "idle" /\ pc' = "args"
    /\ calls < MaxCalls /\ calls' = calls + 1
    /\ src' = s /\ dest' = d /\ maxdest' = n
    /\ LET m == IF s = Nil THEN mem ELSE Modified(mem, s)
           b == IF s = Nil THEN Nil ELSE m.ref[s]
       IN  /\ mem' = [m EXCEPT !.raw = {b} \ {Nil}]
           /\ stream' = [stream EXCEPT !.next_in = Pointer(b),
                                       !.avail_in = IF s = Nil THEN 0 ELSE m.len[s]]
    /\ meddled' = meddled \union (IF s = d THEN {"same"} ELSE {})
    /\ UNCHANGED <<held, others, wild>>

\* Mutant: a dest with enough room that is not made independent.
aux_str_reserve_shared(m, s, n) ==
    IF Len(m.heap[m.ref[s]]) < n THEN Expanded(m, s, n) ELSE m

aux_str_reserve(m, s, n) ==
    IF Capacity(m, s) < n THEN Expanded(m, s, n) ELSE Modified(m, s)

\* Mutant: an off-by-one between the room made and the room told.
ReserveOneMore ==
    /\ pc = "args" /\ pc' = "action"
    /\ LET m == aux_str_reserve(mem, dest, maxdest)
       IN  /\ mem' = [m EXCEPT !.raw = @ \union {m.ref[dest]}]
           /\ stream' = [stream EXCEPT !.next_out = Pointer(m.ref[dest]),
                                       !.avail_out = maxdest + 1]
    /\ UNCHANGED <<held, src, dest, maxdest, calls, others, meddled, wild>>

\* dest gets room for maxdest bytes, next_out points into it.
Reserve ==
    /\ pc = "args" /\ pc' = "action"
    /\ LET m == aux_str_reserve(mem, dest, maxdest)
       IN  /\ mem' = [m EXCEPT !.raw = @ \union {m.ref[dest]}]
           /\ stream' = [stream EXCEPT !.next_out = Pointer(m.ref[dest]),
                                       !.avail_out = maxdest]
    /\ UNCHANGED <<held, src, dest, maxdest, calls, others, meddled, wild>>

\* aux_lzma_code: the interpreter lock is released.
Enter ==
    /\ pc = "action" /\ pc' = "coding"
    /\ UNCHANGED <<mem, stream, held, src, dest, maxdest, calls, others, meddled, wild>>

\* p points at n cells of a buffer that is still there.
Valid(p, n) == n > 0 => p.off + n <= Len(mem.heap[p.buf])

Consume ==
    /\ pc = "coding" /\ stream.avail_in > 0 /\ Len(held) < MaxHeld
    /\ LET p == stream.next_in
       IN  IF Valid(p, 1)
           THEN held' = Append(held, mem.heap[p.buf][p.off + 1])
                /\ UNCHANGED wild
           ELSE wild' = TRUE /\ UNCHANGED held
    /\ stream' = [stream EXCEPT !.next_in.off = @ + 1, !.avail_in = @ - 1]
    /\ UNCHANGED <<mem, callVars, others, meddled>>

Produce ==
    /\ pc = "coding" /\ stream.avail_out > 0 /\ held # <<>>
    /\ LET p == stream.next_out
       IN  IF Valid(p, 1)
           THEN mem' = [mem EXCEPT !.heap[p.buf][p.off + 1] = Head(held)]
                /\ UNCHANGED wild
           ELSE wild' = TRUE /\ UNCHANGED mem
    /\ held' = Tail(held)
    /\ stream' = [stream EXCEPT !.next_out.off = @ + 1, !.avail_out = @ - 1]
    /\ UNCHANGED <<callVars, others, meddled>>

\* The call is over.  The pointers stay in the lzma_stream, but every call
\* sets them before lzma_code uses them, so they count as gone.
Leave(m) ==
    /\ mem' = [m EXCEPT !.raw = {}] /\ stream' = NoPointers
    /\ pc' = "idle" /\ src' = Nil /\ dest' = Nil /\ maxdest' = 0
    /\ meddled' = {}
    /\ UNCHANGED <<held, calls, others>>

\* memmove(RSTRING_PTR(src), p->next_in, srcrest)
Shifted ==
    LET from == stream.next_in
        cells == mem.heap[mem.ref[src]]
    IN  [mem EXCEPT !.heap[mem.ref[src]] =
            [i \in 1 .. Len(cells) |->
                IF i <= stream.avail_in THEN mem.heap[from.buf][from.off + i]
                                        ELSE cells[i]]]

\* Whether the memmove and both rb_str_set_len stay inside the buffers.
Fits ==
    /\ src # Nil => /\ Valid(stream.next_in, stream.avail_in)
                    /\ stream.avail_in <= Len(mem.heap[mem.ref[src]])
    /\ maxdest - stream.avail_out <= Len(mem.heap[mem.ref[dest]])

\* Mutant: no memmove, so that src keeps its head instead of its rest.
ReturnKeepsHead ==
    /\ pc = "coding" /\ Fits
    /\ LET n == IF src = Nil THEN mem
                ELSE [mem EXCEPT !.len[src] = stream.avail_in]
       IN  IF src # Nil /\ mem.shared[src] THEN Leave(mem)
           ELSE IF mem.shared[dest] THEN Leave(n)
           ELSE Leave([n EXCEPT !.len[dest] = maxdest - stream.avail_out])
    /\ UNCHANGED wild

\* The input that is left moves to the front of src, and src and dest get
\* their lengths.  A length cannot be set in a String that is shared.
Return ==
    /\ pc = "coding" /\ Fits
    /\ LET m == IF src = Nil THEN mem ELSE Shifted
           n == IF src = Nil THEN m ELSE [m EXCEPT !.len[src] = stream.avail_in]
       IN  IF src # Nil /\ mem.shared[src] THEN Leave(m)
           ELSE IF mem.shared[dest] THEN Leave(n)
           ELSE Leave([n EXCEPT !.len[dest] = maxdest - stream.avail_out])
    /\ UNCHANGED wild

\* The same steps beyond a buffer.
ReturnWild ==
    /\ pc = "coding" /\ ~Fits
    /\ wild' = TRUE
    /\ UNCHANGED <<mem, stream, held, callVars, others, meddled>>

\* An exception: TypeError of an argument or of its to_int, or an interrupt
\* that is delivered when lzma_code is done and the lock is taken again.
Raise ==
    /\ pc # "idle"
    /\ Leave(mem)
    /\ UNCHANGED wild

-----------------------------------------------------------------------------
(* Other Ruby code: to_int, another thread, or the program between calls.  *)

Other(s, kind, m) ==
    /\ others < MaxOther /\ others' = others + 1
    /\ mem' = m
    /\ meddled' = meddled \union (IF s \in Kept THEN {kind} ELSE {})
    /\ UNCHANGED <<stream, held, callVars, wild>>

Dup(s, t) == s # t /\ t \notin Kept /\ Other(s, "shared", Dupped(mem, s, t))
Replace(s, t) == s # t /\ t \in Kept /\ Other(t, "changed", Dupped(mem, s, t))
Clear(s) == Other(s, "changed", Cleared(mem, s))
Extend(s) == Other(s, "changed", Appended(mem, s, Unset))

-----------------------------------------------------------------------------
Step == Reserve \/ Enter \/ Consume \/ Produce \/ Return \/ ReturnWild \/ Raise

OtherCode ==
    \/ \E s, t \in Strings : Dup(s, t) \/ Replace(s, t)
    \/ \E s \in Strings : Clear(s) \/ Extend(s)

\* Nothing is said of what follows a wild access.
Next ==
    /\ ~wild
    /\ \/ \E s \in Strings \union {Nil}, d \in Strings, n \in 0 .. MaxDest :
              Call(s, d, n)
       \/ Step \/ OtherCode

Spec == Init /\ [][Next]_vars

-----------------------------------------------------------------------------
(* Properties.                                                             *)

\* The coder, the memmove and the new lengths stay inside the buffers of src
\* and dest, unless other code changed one of them during a call or they were
\* the same String.  Sharing them (dup) is not enough to break this, and
\* neither is any exception.
MemorySafe == wild => meddled \intersect {"changed", "same"} # {}

\* A String that is not part of the call keeps its content, whether it was
\* once a dup of src or of dest, unless other code shares one of them during
\* the call.
OthersKeepText ==
    [][Step /\ meddled \subseteq {"same"} /\ ~wild' =>
          \A s \in Strings \ {src, dest} : Text(mem', s) = Text(mem, s)]_vars

\* Without meddling a call is what Encoder and Decoder take it for.
Busy == pc # "idle"

Atomic == INSTANCE AtomicCode WITH
    text <- [s \in Strings |-> IF Busy /\ s = dest THEN <<>> ELSE Text(mem, s)],
    busy <- Busy,
    taken <- IF Busy THEN stream.next_in.off ELSE 0,
    made <- IF pc \in {"action", "coding"} /\ meddled = {}
            THEN SubSeq(mem.heap[stream.next_out.buf], 1, stream.next_out.off)
            ELSE <<>>,
    broken <- meddled # {}

ImplementsAtomic == Atomic!Spec
=============================================================================
