-------------------------------- MODULE Crc --------------------------------
(***************************************************************************)
(* Checksums: crc32/crc64 of ext/utils.c, which read a String through a    *)
(* raw pointer without the interpreter lock and without locking the        *)
(* String, and the Digest-like CRC32 and CRC64 objects over them, whose    *)
(* update reads state, computes, and assigns state.                        *)
(*                                                                         *)
(* A checksum is the sequence of the bytes it is computed from: a perfect  *)
(* checksum, for which crc(b, crc(a)) is that of a followed by b.          *)
(***************************************************************************)
EXTENDS RubyString, FiniteSets

CONSTANTS
    Threads,
    Memories,      \* the Strings at the beginning
    MaxUpdates,    \* bound: calls of update
    MaxOther       \* bound: modifications of Strings, and resets

ASSUME CrcAssumption ==
    /\ \A m \in Memories : WellFormed(m) /\ m.raw = {}
    /\ MaxUpdates \in Nat /\ MaxOther \in Nat

\* malloc does not fail: there are more buffers than Strings and pointers.
ASSUME EnoughBuffers ==
    /\ IsFiniteSet(Strings) /\ IsFiniteSet(Threads)
    /\ \/ ~IsFiniteSet(Buffers)
       \/ Cardinality(Buffers) > Cardinality(Strings) + Cardinality(Threads)

VARIABLES
    mem,
    state,       \* the member of the Struct; init is 0, the empty sequence
    pc,          \* of every thread: "idle", "calc" or "assign"
    arg,         \* the String given to update
    next, rest,  \* pointer into it and number of bytes left
    crc,         \* the checksum so far
    updates, others,
    \* history, read by the properties only
    from, text,  \* state and content of the String when update was called
    whole,       \* what state should be
    changed,     \* the String itself was modified under its update
    careless      \* two threads have used the object at the same time

jobVars == <<pc, arg, next, rest, crc, from, text, changed>>
vars == <<mem, state, jobVars, updates, others, whole, careless>>

TypeOK ==
    /\ mem \in Memory
    /\ state \in Seq(Nat) /\ whole \in Seq(Nat)
    /\ pc \in [Threads -> {"idle", "calc", "assign"}]
    /\ arg \in [Threads -> Strings]
    /\ next \in [Threads -> [buf : Buffers, off : Nat]]
    /\ rest \in [Threads -> Nat]
    /\ crc \in [Threads -> Seq(Nat)]
    /\ from \in [Threads -> Seq(Nat)] /\ text \in [Threads -> Seq(Nat)]
    /\ changed \in [Threads -> BOOLEAN] /\ careless \in BOOLEAN
    /\ updates \in 0 .. MaxUpdates /\ others \in 0 .. MaxOther

Init ==
    /\ mem \in Memories /\ state = <<>> /\ whole = <<>>
    /\ LET s == CHOOSE s \in Strings : TRUE
           b == CHOOSE b \in Buffers : TRUE
       IN  /\ arg = [t \in Threads |-> s]
           /\ next = [t \in Threads |-> [buf |-> b, off |-> 0]]
    /\ pc = [t \in Threads |-> "idle"]
    /\ rest = [t \in Threads |-> 0]
    /\ crc = [t \in Threads |-> <<>>]
    /\ from = [t \in Threads |-> <<>>] /\ text = [t \in Threads |-> <<>>]
    /\ changed = [t \in Threads |-> FALSE] /\ careless = FALSE
    /\ updates = 0 /\ others = 0

Running == {t \in Threads : pc[t] # "idle"}

-----------------------------------------------------------------------------
\* update(s): state is read and crc_calc takes the pointer and the length.
Update(t, s) ==
    /\ pc[t] = "idle" /\ updates < MaxUpdates
    /\ pc' = [pc EXCEPT ![t] = "calc"]
    /\ arg' = [arg EXCEPT ![t] = s]
    /\ next' = [next EXCEPT ![t] = [buf |-> mem.ref[s], off |-> 0]]
    /\ rest' = [rest EXCEPT ![t] = mem.len[s]]
    /\ crc' = [crc EXCEPT ![t] = state]
    /\ mem' = [mem EXCEPT !.raw = @ \union {mem.ref[s]}]
    /\ from' = [from EXCEPT ![t] = state]
    /\ text' = [text EXCEPT ![t] = Text(mem, s)]
    /\ changed' = [changed EXCEPT ![t] = FALSE]
    /\ careless' = (careless \/ Running # {})
    /\ updates' = updates + 1
    /\ UNCHANGED <<state, others, whole>>

\* Mutant: the byte before the one that is due.
CalcOneBehind(t) ==
    /\ pc[t] = "calc" /\ rest[t] > 0
    /\ LET cells == mem.heap[next[t].buf]
           i     == IF next[t].off = 0 THEN 1 ELSE next[t].off
       IN  crc' = [crc EXCEPT ![t] =
                      Append(@, IF i <= Len(cells) THEN cells[i] ELSE Unset)]
    /\ next' = [next EXCEPT ![t].off = @ + 1]
    /\ rest' = [rest EXCEPT ![t] = @ - 1]
    /\ UNCHANGED <<mem, state, pc, arg, updates, others, from, text, whole,
                   changed, careless>>

\* Mutant: one byte too many.
CalcOneMore(t) ==
    /\ pc[t] = "calc"
    /\ LET cells == mem.heap[next[t].buf]
           i     == next[t].off + 1
       IN  crc' = [crc EXCEPT ![t] =
                      Append(@, IF i <= Len(cells) THEN cells[i] ELSE Unset)]
    /\ next' = [next EXCEPT ![t].off = @ + 1]
    /\ rest' = [rest EXCEPT ![t] = @ - 1]
    /\ UNCHANGED <<mem, state, pc, arg, updates, others, from, text, whole,
                   changed, careless>>

\* lzma_crc32 or lzma_crc64, byte by byte, without the interpreter lock.
\* Behind the buffer there is anything.
Calc(t) ==
    /\ pc[t] = "calc" /\ rest[t] > 0
    /\ LET cells == mem.heap[next[t].buf]
           i     == next[t].off + 1
       IN  crc' = [crc EXCEPT ![t] =
                      Append(@, IF i <= Len(cells) THEN cells[i] ELSE Unset)]
    /\ next' = [next EXCEPT ![t].off = @ + 1]
    /\ rest' = [rest EXCEPT ![t] = @ - 1]
    /\ UNCHANGED <<mem, state, pc, arg, updates, others, from, text, whole,
                   changed, careless>>

\* The pointers of the other threads.
StillRaw(t) == {next[u].buf : u \in {v \in Threads \ {t} : pc[v] = "calc"}}

\* The lock is taken again; the number that is returned is not assigned yet.
CalcDone(t) ==
    /\ pc[t] = "calc" /\ rest[t] = 0
    /\ pc' = [pc EXCEPT ![t] = "assign"]
    /\ mem' = [mem EXCEPT !.raw = StillRaw(t)]
    /\ UNCHANGED <<state, arg, next, rest, crc, updates, others, from, text,
                   whole, changed, careless>>

\* An exception is delivered when the lock is taken again, or afterwards.
Interrupted(t) ==
    /\ pc[t] = "calc" => rest[t] = 0
    /\ pc[t] # "idle"
    /\ pc' = [pc EXCEPT ![t] = "idle"]
    /\ mem' = [mem EXCEPT !.raw = StillRaw(t)]
    /\ UNCHANGED <<state, arg, next, rest, crc, updates, others, from, text,
                   whole, changed, careless>>

\* Mutant: an update that starts over instead of going on from state.
AssignAlone(t) ==
    /\ pc[t] = "assign"
    /\ state' = SubSeq(crc[t], Len(from[t]) + 1, Len(crc[t]))
    /\ whole' = whole \o text[t]
    /\ pc' = [pc EXCEPT ![t] = "idle"]
    /\ UNCHANGED <<mem, arg, next, rest, crc, updates, others, from, text,
                   changed, careless>>

\* self.state = ...
Assign(t) ==
    /\ pc[t] = "assign"
    /\ state' = crc[t]
    /\ whole' = whole \o text[t]
    /\ pc' = [pc EXCEPT ![t] = "idle"]
    /\ UNCHANGED <<mem, arg, next, rest, crc, updates, others, from, text,
                   changed, careless>>

Reset ==
    /\ others < MaxOther /\ others' = others + 1
    /\ state' = <<>> /\ whole' = <<>>
    /\ careless' = (careless \/ Running # {})
    /\ UNCHANGED <<mem, jobVars, updates>>

\* Other Ruby code modifies String s, which becomes m.
Modify(s, m) ==
    /\ others < MaxOther /\ others' = others + 1
    /\ mem' = m
    /\ changed' = [t \in Threads |-> changed[t] \/ (pc[t] = "calc" /\ arg[t] = s)]
    /\ careless' = (careless \/ \E t \in Threads : changed'[t])
    /\ UNCHANGED <<state, pc, arg, next, rest, crc, updates, from, text, whole>>

Other ==
    \E s \in Strings :
        \/ Modify(s, Cleared(mem, s))
        \/ Modify(s, Appended(mem, s, Unset))
        \/ \E t \in Strings \ {s} : Modify(s, Dupped(mem, t, s))

Next ==
    \/ \E t \in Threads, s \in Strings : Update(t, s)
    \/ \E t \in Threads : Calc(t) \/ CalcDone(t) \/ Assign(t) \/ Interrupted(t)
    \/ Reset \/ Other

Spec == Init /\ [][Next]_vars

-----------------------------------------------------------------------------
(* Properties.                                                             *)

\* HISTORY.ja.md:16-17: a String is safe to checksum when it is a dup of the
\* one that other code changes.  An update computes the checksum of what the
\* String was when it was called, unless that object itself was modified
\* meanwhile: changes to the Strings it shares its buffer with do not matter.
DupIsEnough ==
    \A t \in Threads :
        pc[t] = "assign" /\ ~changed[t] => crc[t] = from[t] \o text[t]

\* An object that one thread uses at a time holds the checksum of everything
\* given to it since the last reset, in order; an update that raises leaves
\* no trace.  (Of two updates at the same time one is lost.)
StateIsWhole == ~careless => state = whole
=============================================================================
