---------------------------- MODULE LifetimeProofs ----------------------------
(***************************************************************************)
(* Proofs about Lifetime for every set of streams and threads and every    *)
(* amount of memory, with the inductive invariant IInv they rest on.       *)
(***************************************************************************)
EXTENDS Lifetime, FiniteSetTheorems, TLAPS

\* The finalizer of an encoder stays registered until it has run, which it
\* does after the encoder is gone; an encoder has its stream.
Registered ==
    /\ \A s \in Streams : encoder[s] \in {"held", "dropped"} => s \in procs
    /\ \A s \in running : encoder[s] = "gone"

\* A constructor has its stream on the stack until it ends.
Constructing == \A t \in Threads : (pc[t] = "idle") = (making[t] = Nil)

\* What nothing referred to at the first attempt is still not referred to.
\* When the collection is over it waits in the list at the latest, and it is
\* gone when the list has been worked through.
StaysIdle ==
    \A t \in Threads : \A s \in idle[t] \intersect exists :
        /\ ~StreamReachable(s)
        /\ pc[t] \in {"final", "retry"} => s \in zombies
        /\ pc[t] = "retry" => skipped[t]

\* The coders can be counted, since they are made one at a time, and there
\* are no more of them than fit.
CoderCounted == IsFiniteSet(coder) /\ CoderHasObject

IInv == /\ TypeOK /\ CoderCounted
        /\ Registered /\ Constructing /\ StaysIdle

-----------------------------------------------------------------------------
(* One step.                                                               *)

\* Memory is taken back only together with its object.
LEMMA CleanupShrinks ==
    ASSUME CoderCounted, NEW s, stream_cleanup(s)
    PROVE  CoderCounted'
<1>1. coder' = coder \ {s} /\ coder' \subseteq exists'
    BY DEF CoderCounted, CoderHasObject, stream_cleanup
<1>2. coder' \subseteq coder
    BY <1>1
<1>3. /\ IsFiniteSet(coder') /\ Cardinality(coder') <= Cardinality(coder)
      /\ Cardinality(coder) \in Nat /\ Cardinality(coder') \in Nat
    BY <1>2, FS_Subset, FS_CardinalityType DEF CoderCounted
<1>. QED  BY <1>1, <1>3, LifetimeAssumption DEF CoderCounted, CoderHasObject

\* One step keeps the types: what the collector frees is referred to by no
\* variable, finalizer or constructor.
LEMMA TypeStep ==
    TypeOK /\ Registered /\ Constructing /\ [Next]_vars => TypeOK'
<1>. SUFFICES ASSUME TypeOK, Registered, Constructing, [Next]_vars
              PROVE  TypeOK'
    OBVIOUS
<1>. USE LifetimeAssumption DEF TypeOK, Registered, Constructing,
         OnStack, StreamReachable,
         Unreachable, Garbage, FreedEncoders, EncoderReachable
<1>1. ASSUME NEW t \in Threads, NEW s \in Streams, stream_alloc(t, s)
      PROVE  TypeOK'
    <2>1. making' \in [Threads -> (exists' \ zombies') \union {Nil}]
        BY <1>1 DEF stream_alloc, swept
    <2>2. pc' \in [Threads -> {"idle", "attempt", "gc", "final", "retry"}]
        BY <1>1 DEF stream_alloc, swept
    <2>3. idle' \in [Threads -> SUBSET Streams]
        BY <1>1 DEF stream_alloc, swept
    <2>. QED  BY <1>1, <2>1, <2>2, <2>3 DEF stream_alloc, swept
<1>2. ASSUME NEW t \in Threads, Built(t)
      PROVE  TypeOK'
    BY <1>2 DEF Built, Ends, swept
<1>3. ASSUME NEW t \in Threads, FirstFails(t)
      PROVE  TypeOK'
    BY <1>3 DEF FirstFails, swept
<1>4. ASSUME NEW t \in Threads, rb_gc(t)
      PROVE  TypeOK'
    BY <1>4 DEF rb_gc, Sweep
<1>5. ASSUME NEW t \in Threads, SecondFails(t)
      PROVE  TypeOK'
    BY <1>5 DEF SecondFails, Ends, swept
<1>6. CASE Collect
    BY <1>6 DEF Collect, Sweep
<1>7. ASSUME NEW s \in Streams, FinalizerDone(s)
      PROVE  TypeOK'
    BY <1>7 DEF FinalizerDone
<1>8. ASSUME NEW s \in Streams, finalizer_regist(s)
      PROVE  TypeOK'
    BY <1>8 DEF finalizer_regist, swept
<1>9. ASSUME NEW s \in Streams, DropStream(s)
      PROVE  TypeOK'
    BY <1>9 DEF DropStream, swept
<1>10. ASSUME NEW s \in Streams, DropEncoder(s)
      PROVE  TypeOK'
    BY <1>10 DEF DropEncoder, swept
<1>11. CASE UNCHANGED vars
    BY <1>11 DEF vars, swept
<1>12. ASSUME NEW s \in Streams, stream_cleanup(s)
      PROVE  TypeOK'
    BY <1>12 DEF stream_cleanup
<1>13. CASE gc_finalize_deferred
    BY <1>13 DEF gc_finalize_deferred
<1>14. CASE Finalized
    BY <1>14 DEF Finalized, Waiting
<1>. QED  BY <1>1, <1>2, <1>3, <1>4, <1>5, <1>6, <1>7, <1>8, <1>9, <1>10, <1>11,
             <1>12, <1>13, <1>14 DEF Next

\* An encoder is gone before its finalizer runs, and never comes back.
LEMMA RegisteredStep ==
    TypeOK /\ Registered /\ [Next]_vars => Registered'
<1>. SUFFICES ASSUME TypeOK, Registered, [Next]_vars
              PROVE  Registered'
    OBVIOUS
<1>. USE LifetimeAssumption DEF TypeOK, Registered, OnStack, StreamReachable,
         Unreachable, Garbage, FreedEncoders, EncoderReachable
<1>1. ASSUME NEW t \in Threads, NEW s \in Streams, stream_alloc(t, s)
      PROVE  Registered'
    BY <1>1 DEF stream_alloc, swept
<1>2. ASSUME NEW t \in Threads, Built(t)
      PROVE  Registered'
    BY <1>2 DEF Built, Ends, swept
<1>3. ASSUME NEW t \in Threads, FirstFails(t)
      PROVE  Registered'
    BY <1>3 DEF FirstFails, swept
<1>4. ASSUME NEW t \in Threads, rb_gc(t)
      PROVE  Registered'
    BY <1>4 DEF rb_gc, Sweep
<1>5. ASSUME NEW t \in Threads, SecondFails(t)
      PROVE  Registered'
    BY <1>5 DEF SecondFails, Ends, swept
<1>6. CASE Collect
    BY <1>6 DEF Collect, Sweep
<1>7. ASSUME NEW s \in Streams, FinalizerDone(s)
      PROVE  Registered'
    BY <1>7 DEF FinalizerDone
<1>8. ASSUME NEW s \in Streams, finalizer_regist(s)
      PROVE  Registered'
    BY <1>8 DEF finalizer_regist, swept
<1>9. ASSUME NEW s \in Streams, DropStream(s)
      PROVE  Registered'
    BY <1>9 DEF DropStream, swept
<1>10. ASSUME NEW s \in Streams, DropEncoder(s)
      PROVE  Registered'
    BY <1>10 DEF DropEncoder, swept
<1>11. CASE UNCHANGED vars
    BY <1>11 DEF vars, swept
<1>12. ASSUME NEW s \in Streams, stream_cleanup(s)
      PROVE  Registered'
    BY <1>12 DEF stream_cleanup
<1>13. CASE gc_finalize_deferred
    BY <1>13 DEF gc_finalize_deferred
<1>14. CASE Finalized
    BY <1>14 DEF Finalized, Waiting
<1>. QED  BY <1>1, <1>2, <1>3, <1>4, <1>5, <1>6, <1>7, <1>8, <1>9, <1>10, <1>11,
             <1>12, <1>13, <1>14 DEF Next

\* A constructor has a stream from stream_alloc to its end.
LEMMA ConstructingStep ==
    TypeOK /\ Constructing /\ [Next]_vars => Constructing'
<1>. SUFFICES ASSUME TypeOK, Constructing, [Next]_vars
              PROVE  Constructing'
    OBVIOUS
<1>. USE LifetimeAssumption DEF TypeOK, Constructing
<1>1. ASSUME NEW t \in Threads, NEW s \in Streams, stream_alloc(t, s)
      PROVE  Constructing'
    BY <1>1 DEF stream_alloc, swept
<1>2. ASSUME NEW t \in Threads, Built(t)
      PROVE  Constructing'
    BY <1>2 DEF Built, Ends, swept
<1>3. ASSUME NEW t \in Threads, FirstFails(t)
      PROVE  Constructing'
    BY <1>3 DEF FirstFails, swept
<1>4. ASSUME NEW t \in Threads, rb_gc(t)
      PROVE  Constructing'
    BY <1>4 DEF rb_gc, Sweep
<1>5. ASSUME NEW t \in Threads, SecondFails(t)
      PROVE  Constructing'
    BY <1>5 DEF SecondFails, Ends, swept
<1>6. CASE Collect
    BY <1>6 DEF Collect, Sweep
<1>7. ASSUME NEW s \in Streams, FinalizerDone(s)
      PROVE  Constructing'
    BY <1>7 DEF FinalizerDone
<1>8. ASSUME NEW s \in Streams, finalizer_regist(s)
      PROVE  Constructing'
    BY <1>8 DEF finalizer_regist, swept
<1>9. ASSUME NEW s \in Streams, DropStream(s)
      PROVE  Constructing'
    BY <1>9 DEF DropStream, swept
<1>10. ASSUME NEW s \in Streams, DropEncoder(s)
      PROVE  Constructing'
    BY <1>10 DEF DropEncoder, swept
<1>11. CASE UNCHANGED vars
    BY <1>11 DEF vars, swept
<1>12. ASSUME NEW s \in Streams, stream_cleanup(s)
      PROVE  Constructing'
    BY <1>12 DEF stream_cleanup
<1>13. CASE gc_finalize_deferred
    BY <1>13 DEF gc_finalize_deferred
<1>14. CASE Finalized
    BY <1>14 DEF Finalized, Waiting
<1>. QED  BY <1>1, <1>2, <1>3, <1>4, <1>5, <1>6, <1>7, <1>8, <1>9, <1>10, <1>11,
             <1>12, <1>13, <1>14 DEF Next

\* Memory is taken by a constructor, whose stream exists, one unit at a
\* time and only if there is one.
LEMMA CoderStep ==
    TypeOK /\ Constructing /\ CoderCounted /\ [Next]_vars => CoderCounted'
<1>. SUFFICES ASSUME TypeOK, Constructing, CoderCounted, [Next]_vars
              PROVE  CoderCounted'
    OBVIOUS
<1>. USE LifetimeAssumption DEF CoderCounted, CoderHasObject
<1>1. ASSUME NEW t \in Threads, NEW s \in Streams, stream_alloc(t, s)
      PROVE  CoderCounted'
    BY <1>1 DEF stream_alloc, swept
<1>2. ASSUME NEW t \in Threads, Built(t)
      PROVE  CoderCounted'
    <2>1. /\ making[t] \in exists /\ exists' = exists
          /\ coder' = coder \union {making[t]}
        BY <1>2 DEF Built, Ends, TypeOK, Constructing
    <2>2. Cardinality(coder) \in Nat /\ Cardinality(coder) + 1 <= Units
        BY <1>2, FS_CardinalityType DEF Built
    <2>3. IsFiniteSet(coder') /\ Cardinality(coder') <= Cardinality(coder) + 1
        <3>1. ASSUME NEW x
              PROVE  /\ IsFiniteSet(coder \union {x})
                     /\ \/ Cardinality(coder \union {x}) = Cardinality(coder)
                        \/ Cardinality(coder \union {x}) = Cardinality(coder) + 1
            BY FS_AddElement
        <3>. QED  BY <2>1, <2>2, <3>1
    <2>4. Cardinality(coder') \in Nat
        BY <2>3, FS_CardinalityType
    <2>. QED  BY <2>1, <2>2, <2>3, <2>4
<1>3. ASSUME NEW t \in Threads, FirstFails(t)
      PROVE  CoderCounted'
    BY <1>3 DEF FirstFails, swept
<1>4. ASSUME NEW t \in Threads, rb_gc(t)
      PROVE  CoderCounted'
    BY <1>4 DEF rb_gc, Sweep
<1>5. ASSUME NEW t \in Threads, SecondFails(t)
      PROVE  CoderCounted'
    BY <1>5 DEF SecondFails, Ends, swept
<1>6. CASE Collect
    BY <1>6 DEF Collect, Sweep
<1>7. ASSUME NEW s \in Streams, FinalizerDone(s)
      PROVE  CoderCounted'
    BY <1>7 DEF FinalizerDone
<1>8. ASSUME NEW s \in Streams, finalizer_regist(s)
      PROVE  CoderCounted'
    BY <1>8 DEF finalizer_regist, swept
<1>9. ASSUME NEW s \in Streams, DropStream(s)
      PROVE  CoderCounted'
    BY <1>9 DEF DropStream, swept
<1>10. ASSUME NEW s \in Streams, DropEncoder(s)
      PROVE  CoderCounted'
    BY <1>10 DEF DropEncoder, swept
<1>11. CASE UNCHANGED vars
    BY <1>11 DEF vars, swept
<1>12. ASSUME NEW s \in Streams, stream_cleanup(s)
      PROVE  CoderCounted'
    BY <1>12, CleanupShrinks
<1>13. CASE gc_finalize_deferred
    BY <1>13 DEF gc_finalize_deferred
<1>14. CASE Finalized
    BY <1>14 DEF Finalized, Waiting
<1>. QED  BY <1>1, <1>2, <1>3, <1>4, <1>5, <1>6, <1>7, <1>8, <1>9, <1>10, <1>11,
             <1>12, <1>13, <1>14 DEF Next

\* No step makes a reference to a stream nothing refers to, and a stream
\* that is made anew is in nobody's history.
LEMMA IdleStep ==
    TypeOK /\ Registered /\ Constructing /\ StaysIdle /\ [Next]_vars
        => StaysIdle'
<1>. SUFFICES ASSUME TypeOK, Registered, Constructing, StaysIdle, [Next]_vars
              PROVE  StaysIdle'
    OBVIOUS
<1>. USE LifetimeAssumption DEF TypeOK, Registered, Constructing, StaysIdle,
         OnStack, StreamReachable,
         Unreachable, Garbage, FreedEncoders, EncoderReachable
<1>1. ASSUME NEW t \in Threads, NEW s \in Streams, stream_alloc(t, s)
      PROVE  StaysIdle'
    BY <1>1 DEF stream_alloc, swept
<1>2. ASSUME NEW t \in Threads, Built(t)
      PROVE  StaysIdle'
    BY <1>2 DEF Built, Ends, swept
<1>3. ASSUME NEW t \in Threads, FirstFails(t)
      PROVE  StaysIdle'
    BY <1>3 DEF FirstFails, swept
<1>4. ASSUME NEW t \in Threads, rb_gc(t)
      PROVE  StaysIdle'
    BY <1>4 DEF rb_gc, Sweep
<1>5. ASSUME NEW t \in Threads, SecondFails(t)
      PROVE  StaysIdle'
    BY <1>5 DEF SecondFails, Ends, swept
<1>6. CASE Collect
    BY <1>6 DEF Collect, Sweep
<1>7. ASSUME NEW s \in Streams, FinalizerDone(s)
      PROVE  StaysIdle'
    BY <1>7 DEF FinalizerDone
<1>8. ASSUME NEW s \in Streams, finalizer_regist(s)
      PROVE  StaysIdle'
    BY <1>8 DEF finalizer_regist, swept
<1>9. ASSUME NEW s \in Streams, DropStream(s)
      PROVE  StaysIdle'
    BY <1>9 DEF DropStream, swept
<1>10. ASSUME NEW s \in Streams, DropEncoder(s)
      PROVE  StaysIdle'
    BY <1>10 DEF DropEncoder, swept
<1>11. CASE UNCHANGED vars
    BY <1>11 DEF vars, swept
<1>12. ASSUME NEW s \in Streams, stream_cleanup(s)
      PROVE  StaysIdle'
    BY <1>12 DEF stream_cleanup
<1>13. CASE gc_finalize_deferred
    BY <1>13 DEF gc_finalize_deferred
<1>14. CASE Finalized
    BY <1>14 DEF Finalized, Waiting
<1>. QED  BY <1>1, <1>2, <1>3, <1>4, <1>5, <1>6, <1>7, <1>8, <1>9, <1>10, <1>11,
             <1>12, <1>13, <1>14 DEF Next

-----------------------------------------------------------------------------
(* The theorems.                                                           *)

\* Everything at once.
LEMMA Inductive == Spec => []IInv
<1>1. Init => TypeOK
    BY LifetimeAssumption DEF Init, TypeOK
<1>2. Init => CoderCounted
    BY LifetimeAssumption, FS_EmptySet DEF Init, CoderCounted, CoderHasObject
<1>3. Init => Registered /\ Constructing /\ StaysIdle
    BY DEF Init, Registered, Constructing, StaysIdle
<1>4. IInv /\ [Next]_vars => IInv'
    BY TypeStep, RegisteredStep, ConstructingStep, CoderStep, IdleStep DEF IInv
<1>5. Init => IInv
    BY <1>1, <1>2, <1>3 DEF IInv
<1>. QED  BY <1>4, <1>5, PTL DEF Spec

\* Every variable keeps its type; what is referred to exists (the mark
\* functions and finalizers of ext/stream.c and lib/extlzma.rb).
THEOREM LifetimeTypes == Spec => []TypeOK
BY Inductive, PTL DEF IInv

\* No coder is left without the object that ends it (stream_cleanup), and
\* there are never more coders than memory.
THEOREM CoderOwned == Spec => []CoderHasObject
BY Inductive, PTL DEF IInv, CoderCounted

\* When RETRY_NOMEM gives up, all that nothing referred to at its first
\* attempt has been freed, or waits for a thread that already ran finalizers.
THEOREM RealMemError == Spec => []MemErrorIsReal
<1>1. IInv => MemErrorIsReal
    BY DEF IInv, TypeOK, StaysIdle, CoderCounted, CoderHasObject,
           MemErrorIsReal
<1>. QED  BY <1>1, Inductive, PTL

=============================================================================
