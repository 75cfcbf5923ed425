------------------------------ MODULE Lifetime ------------------------------
(***************************************************************************)
(* How long a coder lives: LZMA::Stream objects (ext/stream.c) own the     *)
(* memory of a liblzma coder, which the collector knows nothing of; it is  *)
(* returned when the object is freed, never by close.  An LZMA::Encoder    *)
(* refers to its stream, and so does the proc registered as its finalizer  *)
(* (lib/extlzma.rb).  A constructor that finds no memory starts the        *)
(* collector and tries once more (RETRY_NOMEM), while other threads run.   *)
(*                                                                         *)
(* The collector is exact: it finds what nothing refers to.  A stream is an *)
(* untyped Data object with a function of its own, so CRuby does not free  *)
(* it in the collection: it and the encoders with finalizers wait in a     *)
(* list that one thread at a time works through.  A coder takes one unit   *)
(* of memory, and an attempt fails only when none is left.                 *)
(***************************************************************************)
EXTENDS FiniteSets, Naturals

CONSTANTS
    Streams, Threads, Nil,
    Units                   \* coders that fit into memory

ASSUME LifetimeAssumption ==
    /\ Nil \notin Streams
    /\ Units \in Nat

VARIABLES
    exists,     \* the Stream objects
    zombies,    \* those the collector took, which wait for stream_cleanup
    coder,      \* those whose coder holds memory
    held,       \* those a variable of the program refers to
    encoder,    \* of every stream: its LZMA::Encoder, "none", "held" by the
                \* program, "dropped", or "gone"
    procs,      \* the streams a registered finalizer refers to
    running,    \* those whose finalizer is to run, or runs
    finalizing, \* a thread works through the list of zombies and finalizers
    pc,         \* of every thread: "idle", "attempt", "gc", "final" or "retry"
    making,     \* the stream it constructs
    idle,       \* history: what nothing referred to when the first attempt failed
    skipped     \* history: another thread was finalizing then

swept == <<zombies, running, finalizing>>
vars == <<exists, coder, held, encoder, procs, swept, pc, making, idle, skipped>>

TypeOK ==
    /\ exists \subseteq Streams /\ coder \subseteq Streams /\ zombies \subseteq exists
    /\ held \subseteq exists \ zombies /\ procs \subseteq exists \ zombies
    /\ encoder \in [Streams -> {"none", "held", "dropped", "gone"}]
    /\ running \subseteq procs /\ finalizing \in BOOLEAN
    /\ pc \in [Threads -> {"idle", "attempt", "gc", "final", "retry"}]
    /\ making \in [Threads -> (exists \ zombies) \union {Nil}]
    /\ idle \in [Threads -> SUBSET Streams] /\ skipped \in [Threads -> BOOLEAN]

Init ==
    /\ exists = {} /\ zombies = {} /\ coder = {} /\ held = {}
    /\ encoder = [s \in Streams |-> "none"] /\ procs = {} /\ running = {}
    /\ finalizing = FALSE
    /\ pc = [t \in Threads |-> "idle"] /\ making = [t \in Threads |-> Nil]
    /\ idle = [t \in Threads |-> {}] /\ skipped = [t \in Threads |-> FALSE]

-----------------------------------------------------------------------------
(* What the collector sees.                                                *)

\* The stack of a constructor refers to its stream.
OnStack == {making[t] : t \in Threads} \ {Nil}

\* Mutant: a proc made inside initialize, which would capture the encoder.
EncoderReachableCaptured(s) == encoder[s] = "held" \/ (encoder[s] = "dropped" /\ s \in procs)

\* finalizer_make is a method of the class: its proc captures the five
\* members, not the encoder.
EncoderReachable(s) == encoder[s] = "held"

\* Mutant: a proc that looks its stream up instead of referring to it.
StreamReachableNoProc(s) ==
    s \in held \union OnStack \/ encoder[s] \in {"held", "dropped"}

\* An encoder nobody refers to still refers to its stream until it is freed.
StreamReachable(s) ==
    s \in held \union procs \union OnStack \/ encoder[s] \in {"held", "dropped"}

Unreachable == {s \in exists : ~StreamReachable(s)}
Garbage == Unreachable \ zombies

\* The encoders that are collected.
FreedEncoders == {s \in exists : encoder[s] = "dropped" /\ ~EncoderReachable(s)}

\* Mark and sweep: nothing is freed yet, and no finalizer is run.
Sweep ==
    /\ zombies' = zombies \union Garbage
    /\ encoder' = [s \in Streams |-> CASE s \in Garbage       -> "none"
                                       [] s \in FreedEncoders -> "gone"
                                       [] OTHER               -> encoder[s]]
    /\ running' = running \union FreedEncoders
    /\ UNCHANGED <<exists, coder>>

\* The collector may run at any time.
Collect ==
    /\ Garbage # {} \/ FreedEncoders # {}
    /\ Sweep
    /\ UNCHANGED <<held, procs, finalizing, pc, making, idle, skipped>>

-----------------------------------------------------------------------------
(* The list of what was swept.                                             *)

Waiting == zombies \union running

\* Any thread takes it up at its next chance, unless one is at it.
gc_finalize_deferred ==
    /\ ~finalizing /\ Waiting # {}
    /\ finalizing' = TRUE
    /\ UNCHANGED <<exists, zombies, coder, held, encoder, procs, running, pc, making,
                   idle, skipped>>

\* Mutant: free(p) without lzma_end(p).
stream_cleanup_leaks(s) ==
    /\ finalizing /\ s \in zombies
    /\ zombies' = zombies \ {s} /\ exists' = exists \ {s}
    /\ UNCHANGED <<coder, held, encoder, procs, running, finalizing, pc, making, idle,
                   skipped>>

\* lzma_end(p) and free(p)
stream_cleanup(s) ==
    /\ finalizing /\ s \in zombies
    /\ zombies' = zombies \ {s} /\ exists' = exists \ {s} /\ coder' = coder \ {s}
    /\ UNCHANGED <<held, encoder, procs, running, finalizing, pc, making, idle, skipped>>

\* A finalizer has run, with or without an exception: its proc is forgotten.
\* Other threads may run before it has.
FinalizerDone(s) ==
    /\ finalizing /\ s \in running
    /\ running' = running \ {s} /\ procs' = procs \ {s}
    /\ UNCHANGED <<exists, zombies, coder, held, encoder, finalizing, pc, making, idle,
                   skipped>>

\* The list is empty; an rb_gc that worked through it returns.
Finalized ==
    /\ finalizing /\ Waiting = {}
    /\ finalizing' = FALSE
    /\ pc' = [t \in Threads |-> IF pc[t] = "final" THEN "retry" ELSE pc[t]]
    /\ UNCHANGED <<exists, zombies, coder, held, encoder, procs, running, making, idle,
                   skipped>>

-----------------------------------------------------------------------------
(* The constructors.                                                       *)

stream_alloc(t, s) ==
    /\ pc[t] = "idle" /\ s \notin exists
    /\ exists' = exists \union {s}
    /\ pc' = [pc EXCEPT ![t] = "attempt"]
    /\ making' = [making EXCEPT ![t] = s]
    /\ idle' = [u \in Threads |-> idle[u] \ {s}]
    /\ UNCHANGED <<coder, held, encoder, procs, swept, skipped>>

\* The constructor ends; the stream it made is referred to, if it made one.
Ends(t, failed) ==
    /\ pc' = [pc EXCEPT ![t] = "idle"]
    /\ making' = [making EXCEPT ![t] = Nil]
    /\ held' = IF failed THEN held ELSE held \union {making[t]}
    /\ idle' = [idle EXCEPT ![t] = {}]
    /\ skipped' = [skipped EXCEPT ![t] = FALSE]
    /\ UNCHANGED <<exists, encoder, procs, swept>>

\* The liblzma function allocates a coder.
Built(t) ==
    /\ pc[t] \in {"attempt", "retry"} /\ Cardinality(coder) < Units
    /\ coder' = coder \union {making[t]}
    /\ Ends(t, FALSE)

FirstFails(t) ==
    /\ pc[t] = "attempt" /\ Cardinality(coder) >= Units
    /\ pc' = [pc EXCEPT ![t] = "gc"]
    /\ idle' = [idle EXCEPT ![t] = Unreachable]
    /\ UNCHANGED <<exists, coder, held, encoder, procs, swept, making, skipped>>

\* Mutant: a second attempt without a collection.
rb_gc_skipped(t) ==
    /\ pc[t] = "gc" /\ pc' = [pc EXCEPT ![t] = "retry"]
    /\ UNCHANGED <<exists, coder, held, encoder, procs, swept, making, idle, skipped>>

\* It works through the list, but not when another thread is at it: then it
\* returns with everything in the list.
rb_gc(t) ==
    /\ pc[t] = "gc"
    /\ Sweep
    /\ finalizing' = TRUE
    /\ pc' = [pc EXCEPT ![t] = IF finalizing THEN "retry" ELSE "final"]
    /\ skipped' = [skipped EXCEPT ![t] = finalizing]
    /\ UNCHANGED <<held, procs, making, idle>>

SecondFails(t) ==
    /\ pc[t] = "retry" /\ Cardinality(coder) >= Units
    /\ Ends(t, TRUE)
    /\ UNCHANGED coder

-----------------------------------------------------------------------------
(* The program.                                                            *)

\* LZMA::Encoder.new(s, ...)
finalizer_regist(s) ==
    /\ s \in held \ procs /\ encoder[s] \in {"none", "gone"}
    /\ encoder' = [encoder EXCEPT ![s] = "held"]
    /\ procs' = procs \union {s}
    /\ UNCHANGED <<exists, coder, held, swept, pc, making, idle, skipped>>

DropStream(s) ==
    /\ s \in held /\ held' = held \ {s}
    /\ UNCHANGED <<exists, coder, encoder, procs, swept, pc, making, idle, skipped>>

DropEncoder(s) ==
    /\ encoder[s] = "held" /\ encoder' = [encoder EXCEPT ![s] = "dropped"]
    /\ UNCHANGED <<exists, coder, held, procs, swept, pc, making, idle, skipped>>

-----------------------------------------------------------------------------
Next ==
    \/ \E t \in Threads :
          \/ \E s \in Streams : stream_alloc(t, s)
          \/ Built(t) \/ FirstFails(t) \/ rb_gc(t) \/ SecondFails(t)
    \/ Collect \/ gc_finalize_deferred \/ Finalized
    \/ \E s \in Streams :
          \/ stream_cleanup(s) \/ FinalizerDone(s)
          \/ finalizer_regist(s) \/ DropStream(s) \/ DropEncoder(s)

\* The collector runs again and again, and what it swept is worked through,
\* at the latest when the process exits; finalizers end.  Nothing is assumed
\* of the program.
Fairness ==
    /\ WF_vars(Collect) /\ WF_vars(gc_finalize_deferred)
    /\ \A s \in Streams : WF_vars(stream_cleanup(s)) /\ WF_vars(FinalizerDone(s))

Spec == Init /\ [][Next]_vars
FairSpec == Spec /\ Fairness

-----------------------------------------------------------------------------
(* Properties.                                                             *)

\* Memory is held by objects that exist and there is never more of it than
\* there is: also while finalizers and retries of several threads mix, no
\* coder is left behind that nobody can end.
CoderHasObject == coder \subseteq exists /\ Cardinality(coder) <= Units

\* A MemError is real: what nothing referred to when the first attempt failed
\* has given its memory back before the second one, whatever other threads
\* did meanwhile.  The streams of dropped encoders are not among them, their
\* finalizers refer to them: they need a second collection.  Exempt is, by
\* name, an rb_gc called while another thread ran finalizers (skipped), in
\* lzma_code for example: it leaves memory with what waits in the list, but
\* with nothing else.
MemErrorIsReal ==
    \A t \in Threads : pc[t] = "retry" =>
        idle[t] \intersect coder \subseteq IF skipped[t] THEN zombies ELSE {}

\* A stream the program dropped, and its encoder if it has one, gives its
\* memory back, though a finalizer that refers to it was registered.
DroppedIsFreed ==
    \A s \in Streams :
        [](s \in coder /\ s \notin held /\ encoder[s] # "held" => <>(s \notin coder))

=============================================================================
