----------------------------- MODULE RubyString -----------------------------
(***************************************************************************)
(* Ruby Strings as ext/stream.c and ext/utils.c rely on them: an object    *)
(* refers to a buffer that it owns or, after dup, shares; whoever modifies *)
(* a sharing String gives it a buffer of its own first.  Ruby is not part  *)
(* of the repository.                                                      *)
(*                                                                         *)
(* A memory is a record m:                                                 *)
(*   m.ref[s], m.len[s]  the buffer and the length of String s             *)
(*   m.shared[s]         the buffer belongs to more Strings than s, or did *)
(*   m.heap[b]           the cells of buffer b; a freed buffer has none    *)
(*   m.raw               buffers C code may still point into               *)
(* A buffer in m.raw is not handed out again, so that an access through a  *)
(* dangling pointer is one beyond the cells of its buffer.  Strings are    *)
(* long enough to live on the heap, and a buffer that grows moves (what    *)
(* realloc may do).                                                        *)
(***************************************************************************)
EXTENDS Naturals, Sequences

CONSTANTS Strings, Buffers

ASSUME RubyStringAssumption == Strings # {} /\ Buffers # {}

\* A cell nobody has written.
Unset == 0

Memory == [ref : [Strings -> Buffers], len : [Strings -> Nat],
           shared : [Strings -> BOOLEAN], heap : [Buffers -> Seq(Nat)],
           raw : SUBSET Buffers]

\* What Ruby guarantees: the content lies inside the buffer, and Strings with
\* the same buffer know that they share it.
WellFormed(m) ==
    /\ m \in Memory
    /\ \A s \in Strings : m.len[s] <= Len(m.heap[m.ref[s]])
    /\ \A s, t \in Strings :
          s # t /\ m.ref[s] = m.ref[t] => m.shared[s] /\ m.shared[t]

\* The content of s.
Text(m, s) == SubSeq(m.heap[m.ref[s]], 1, m.len[s])

Live(m, b) == \E s \in Strings : m.ref[s] = b

\* malloc finds a buffer.
Fresh(m) == CHOOSE b \in Buffers \ m.raw : ~Live(m, b)

\* m after the buffers nobody refers to were freed.
Swept(m) ==
    [m EXCEPT !.heap = [b \in Buffers |-> IF Live(m, b) THEN @[b] ELSE <<>>]]

\* s gets a buffer of its own with these cells, of which n are its content.
Stored(m, s, cells, n) ==
    LET b == Fresh(m)
    IN  Swept([m EXCEPT !.ref[s] = b, !.len[s] = n, !.shared[s] = FALSE,
                        !.heap[b] = cells])

\* rb_str_capacity
Capacity(m, s) == IF m.shared[s] THEN m.len[s] ELSE Len(m.heap[m.ref[s]])

\* rb_str_modify
Modified(m, s) == IF m.shared[s] THEN Stored(m, s, Text(m, s), m.len[s]) ELSE m

\* rb_str_modify_expand, up to n cells in all
Expanded(m, s, n) ==
    Stored(m, s,
           [i \in 1 .. n |-> IF i <= m.len[s] THEN Text(m, s)[i] ELSE Unset],
           m.len[s])

\* t = s.dup
Dupped(m, s, t) ==
    Swept([m EXCEPT !.ref[t] = m.ref[s], !.len[t] = m.len[s],
                    !.shared[t] = TRUE, !.shared[s] = TRUE])

\* s.clear and s << x
Cleared(m, s) == Stored(m, s, <<>>, 0)

Appended(m, s, x) ==
    IF m.len[s] < Capacity(m, s)
    THEN [m EXCEPT !.heap[m.ref[s]][m.len[s] + 1] = x, !.len[s] = @ + 1]
    ELSE Stored(m, s, Append(Text(m, s), x), m.len[s] + 1)
=============================================================================
