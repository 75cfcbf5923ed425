----------------------------- MODULE FilterProofs -----------------------------
(***************************************************************************)
(* Proofs about Filter for every number of filters, blocks, dictionaries   *)
(* and streams: the inductive invariant IInv and what follows from it.     *)
(***************************************************************************)
EXTENDS Filter, TLAPS

\* Only a filter that exists has options or a variable.
Living ==
    /\ \A f \in Filters : options[f] # Nil \/ ivar[f] # Nil => f \in live
    /\ trying # Nil => trying \in live
    /\ source # Nil => on /\ source \in live

\* The variable of a filter keeps the very dictionary its options point to,
\* unless a call that set one of the two raised before it set the other.
Anchored ==
    \A f \in Filters :
        options[f] # Nil /\ f \notin raised /\ preset_dict[options[f]] # Nil =>
            /\ ivar[f] = preset_dict[options[f]]
            /\ ivar[f] \in alive

\* So it does for a stream built from the filter.
StreamAnchored ==
    source # Nil /\ dict # Nil => ivar[source] = dict /\ dict \in alive

\* The options a constructor has copied are not freed: they are those of the
\* filter it was given, which it refers to, or they are nobody's.
PackHeld ==
    trying # Nil =>
        /\ pack \in used
        /\ \A f \in Filters \ {trying} : options[f] # pack

IInv == /\ TypeOK /\ Living /\ OneOwner /\ NoLeak
        /\ Anchored /\ StreamAnchored /\ PackHeld

-----------------------------------------------------------------------------
(* Replacing the options of a filter, which three callers do.              *)

\* The new block is the filter's and the types are kept.
LEMMA ReplaceTypes ==
    ASSUME TypeOK, NEW f \in Filters, NEW b, NEW d \in Dicts \union {Nil},
           Replace(f, b, d)
    PROVE  /\ used' \subseteq Blocks
           /\ preset_dict' \in [Blocks -> Dicts \union {Nil}]
           /\ options' \in [Filters -> Blocks \union {Nil}]
           /\ twice' \in BOOLEAN
           /\ source' \in Filters \union {Nil}
           /\ UNCHANGED <<live, frozen, trying, pack, on, dict, built>>
<1>1. used' \subseteq Blocks /\ preset_dict' \in [Blocks -> Dicts \union {Nil}]
    BY DEF TypeOK, Replace
<1>2. options' \in [Filters -> Blocks \union {Nil}]
    BY DEF TypeOK, Replace
<1>3. twice' \in BOOLEAN
    BY DEF TypeOK, Replace
<1>4. source' \in Filters \union {Nil}
    BY DEF TypeOK, Replace
<1>. QED  BY <1>1, <1>2, <1>3, <1>4 DEF Replace

\* No block is lost but the one the filter had.
LEMMA ReplaceLeaks ==
    ASSUME TypeOK, NoLeak, NEW f \in Filters, NEW b, NEW d, Replace(f, b, d)
    PROVE  NoLeak'
<1>1. SUFFICES ASSUME ~twice', NEW x \in used'
               PROVE  \E g \in Filters : options'[g] = x
    BY DEF NoLeak
<1>2. options[f] = Nil /\ ~twice
    BY <1>1 DEF Replace, TypeOK
<1>3. CASE x = b
    BY <1>3 DEF Replace, TypeOK
<1>4. CASE x \in used
    <2>1. PICK g \in Filters : options[g] = x
        BY <1>2, <1>4 DEF NoLeak
    <2>2. g # f
        BY <2>1, <1>2, <1>4, FilterAssumption DEF TypeOK
    <2>. QED  BY <2>1, <2>2 DEF Replace, TypeOK
<1>. QED  BY <1>1, <1>3, <1>4 DEF Replace

(* One step.                                                               *)

\* One step keeps the types.
LEMMA TypeStep ==
    TypeOK /\ [Next]_vars => TypeOK'
<1>. SUFFICES ASSUME TypeOK, [Next]_vars
              PROVE  TypeOK'
    OBVIOUS
<1>. USE FilterAssumption DEF Filters, filterVars, memoryVars, streamVars,
         TypeOK
<1>1. ASSUME NEW f \in Filters, Allocate(f)
      PROVE  TypeOK'
    BY <1>1 DEF Allocate, filter_alloc
<1>2. ASSUME NEW f \in Filters, Freeze(f)
      PROVE  TypeOK'
    BY <1>2 DEF Freeze
<1>3. ASSUME NEW f \in Filters, cleanup_filter(f)
      PROVE  TypeOK'
    BY <1>3 DEF cleanup_filter
<1>4. ASSUME NEW f \in Filters, f \in live \intersect Lzma, setup_lzma_preset(f)
      PROVE  TypeOK'
    <2>1. CASE outcome' = "ok" /\ \E b \in Blocks : Replace(f, b, Nil)
        BY <2>1, <1>4, ReplaceTypes DEF TypeOK, setup_lzma_preset
    <2>2. CASE UNCHANGED <<filterVars, memoryVars, streamVars, twice, raised>>
        BY <2>2, <1>4 DEF TypeOK, setup_lzma_preset
    <2>. QED  BY <1>4, <2>1, <2>2 DEF setup_lzma_preset
<1>5. ASSUME NEW f \in Filters, f \in live \intersect Lzma, setup_lzma(f)
      PROVE  TypeOK'
    <2>1. ASSUME NEW b \in Blocks, NEW p \in Predicts, Replace(f, b, p.ptr),
                 ivar' = [ivar EXCEPT ![f] = IF p.str = Nil THEN @ ELSE p.str],
                 alive' = alive \union ({p.ptr} \ {Nil}),
                 raised' = raised \ {f}, outcome' = "ok"
          PROVE  TypeOK'
        <3>1. /\ p.ptr \in Dicts \union {Nil}
              /\ p.str \in Dicts \union {Empty, Nil}
            BY DEF Predicts, NewDicts
        <3>. QED  BY <2>1, <3>1, ReplaceTypes DEF TypeOK
    <2>2. CASE outcome' \in {"raised", "crash"}
        BY <1>5, <2>2 DEF TypeOK, setup_lzma, Predicts, NewDicts
    <2>. QED  BY <1>5, <2>1, <2>2 DEF setup_lzma
<1>6. ASSUME NEW f \in Filters, delta_init(f)
      PROVE  TypeOK'
    <2>1. CASE outcome' = "ok" /\ \E b \in Blocks : Replace(f, b, Nil)
        BY <2>1, <1>6, ReplaceTypes DEF TypeOK, delta_init
    <2>2. CASE outcome' = "raised" /\ twice' = TRUE
        BY <2>2, <1>6 DEF TypeOK, delta_init
    <2>. QED  BY <1>6, <2>1, <2>2 DEF delta_init
<1>7. ASSUME NEW f \in Filters, f \in live \intersect Lzma, ext_set_predict(f)
      PROVE  TypeOK'
    BY <1>7 DEF ext_set_predict, Predicts, NewDicts
<1>8. ASSUME NEW f \in Filters, Accessor(f)
      PROVE  TypeOK'
    BY <1>8 DEF Accessor
<1>9. ASSUME NEW f \in Filters, StreamNoMem(f)
      PROVE  TypeOK'
    BY <1>9 DEF StreamNoMem
<1>10. ASSUME NEW f \in Filters, Build(f)
      PROVE  TypeOK'
    BY <1>10 DEF Build, StreamBuilt
<1>11. ASSUME NEW f \in Filters, NEW g \in Filters, Dup(f, g)
      PROVE  TypeOK'
    BY <1>11 DEF Dup, filter_alloc
<1>12. ASSUME NEW d \in Dicts, CollectString(d)
      PROVE  TypeOK'
    BY <1>12 DEF CollectString
<1>13. CASE Rebuild
    BY <1>13 DEF Rebuild, StreamBuilt
<1>14. CASE BuildFails
    BY <1>14 DEF BuildFails
<1>15. CASE stream_cleanup
    BY <1>15 DEF stream_cleanup
<1>16. CASE UNCHANGED vars
    BY <1>16 DEF vars
<1>. QED  BY <1>1, <1>2, <1>3, <1>4, <1>5, <1>6, <1>7, <1>8, <1>9, <1>10, <1>11,
              <1>12, <1>13, <1>14, <1>15, <1>16
       DEF Next, ext_lzma_init, ext_set_predict

\* A filter gets options or a variable only while it exists and loses both
\* when it is freed; the arguments of a constructor are not freed.
LEMMA LivingStep ==
    TypeOK /\ Living /\ [Next]_vars => Living'
<1>. SUFFICES ASSUME TypeOK, Living, [Next]_vars
              PROVE  Living'
    OBVIOUS
<1>. USE FilterAssumption DEF Filters, filterVars, memoryVars, streamVars,
         TypeOK, Living
<1>1. ASSUME NEW f \in Filters, Allocate(f)
      PROVE  Living'
    BY <1>1 DEF Allocate, filter_alloc
<1>2. ASSUME NEW f \in Filters, Freeze(f)
      PROVE  Living'
    BY <1>2 DEF Freeze
<1>3. ASSUME NEW f \in Filters, cleanup_filter(f)
      PROVE  Living'
    BY <1>3 DEF cleanup_filter
<1>4. ASSUME NEW f \in Filters, f \in live \intersect Lzma, setup_lzma_preset(f)
      PROVE  Living'
    BY <1>4 DEF setup_lzma_preset, Replace
<1>5. ASSUME NEW f \in Filters, f \in live \intersect Lzma, setup_lzma(f)
      PROVE  Living'
    BY <1>5 DEF setup_lzma, Replace, Predicts, NewDicts
<1>6. ASSUME NEW f \in Filters, delta_init(f)
      PROVE  Living'
    BY <1>6 DEF delta_init, Replace
<1>7. ASSUME NEW f \in Filters, f \in live \intersect Lzma, ext_set_predict(f)
      PROVE  Living'
    BY <1>7 DEF ext_set_predict, Predicts, NewDicts
<1>8. ASSUME NEW f \in Filters, Accessor(f)
      PROVE  Living'
    BY <1>8 DEF Accessor
<1>9. ASSUME NEW f \in Filters, StreamNoMem(f)
      PROVE  Living'
    BY <1>9 DEF StreamNoMem
<1>10. ASSUME NEW f \in Filters, Build(f)
      PROVE  Living'
    BY <1>10 DEF Build, StreamBuilt
<1>11. ASSUME NEW f \in Filters, NEW g \in Filters, Dup(f, g)
      PROVE  Living'
    BY <1>11 DEF Dup, filter_alloc
<1>12. ASSUME NEW d \in Dicts, CollectString(d)
      PROVE  Living'
    BY <1>12 DEF CollectString
<1>13. CASE Rebuild
    BY <1>13 DEF Rebuild, StreamBuilt
<1>14. CASE BuildFails
    BY <1>14 DEF BuildFails
<1>15. CASE stream_cleanup
    BY <1>15 DEF stream_cleanup
<1>16. CASE UNCHANGED vars
    BY <1>16 DEF vars
<1>. QED  BY <1>1, <1>2, <1>3, <1>4, <1>5, <1>6, <1>7, <1>8, <1>9, <1>10, <1>11,
              <1>12, <1>13, <1>14, <1>15, <1>16
       DEF Next, ext_lzma_init, ext_set_predict

\* A block that is handed out was free, so nobody else has it; a freed
\* filter takes only its own block along.
LEMMA OwnerStep ==
    TypeOK /\ Living /\ OneOwner /\ [Next]_vars => OneOwner'
<1>. SUFFICES ASSUME TypeOK, Living, OneOwner, [Next]_vars
              PROVE  OneOwner'
    OBVIOUS
<1>. USE FilterAssumption DEF Filters, filterVars, memoryVars, streamVars,
         TypeOK, Living, OneOwner
<1>1. ASSUME NEW f \in Filters, Allocate(f)
      PROVE  OneOwner'
    BY <1>1 DEF Allocate, filter_alloc
<1>2. ASSUME NEW f \in Filters, Freeze(f)
      PROVE  OneOwner'
    BY <1>2 DEF Freeze
<1>3. ASSUME NEW f \in Filters, cleanup_filter(f)
      PROVE  OneOwner'
    BY <1>3 DEF cleanup_filter
<1>4. ASSUME NEW f \in Filters, f \in live \intersect Lzma, setup_lzma_preset(f)
      PROVE  OneOwner'
    BY <1>4 DEF setup_lzma_preset, Replace
<1>5. ASSUME NEW f \in Filters, f \in live \intersect Lzma, setup_lzma(f)
      PROVE  OneOwner'
    BY <1>5 DEF setup_lzma, Replace, Predicts, NewDicts
<1>6. ASSUME NEW f \in Filters, delta_init(f)
      PROVE  OneOwner'
    BY <1>6 DEF delta_init, Replace
<1>7. ASSUME NEW f \in Filters, f \in live \intersect Lzma, ext_set_predict(f)
      PROVE  OneOwner'
    BY <1>7 DEF ext_set_predict, Predicts, NewDicts
<1>8. ASSUME NEW f \in Filters, Accessor(f)
      PROVE  OneOwner'
    BY <1>8 DEF Accessor
<1>9. ASSUME NEW f \in Filters, StreamNoMem(f)
      PROVE  OneOwner'
    BY <1>9 DEF StreamNoMem
<1>10. ASSUME NEW f \in Filters, Build(f)
      PROVE  OneOwner'
    BY <1>10 DEF Build, StreamBuilt
<1>11. ASSUME NEW f \in Filters, NEW g \in Filters, Dup(f, g)
      PROVE  OneOwner'
    BY <1>11 DEF Dup, filter_alloc
<1>12. ASSUME NEW d \in Dicts, CollectString(d)
      PROVE  OneOwner'
    BY <1>12 DEF CollectString
<1>13. CASE Rebuild
    BY <1>13 DEF Rebuild, StreamBuilt
<1>14. CASE BuildFails
    BY <1>14 DEF BuildFails
<1>15. CASE stream_cleanup
    BY <1>15 DEF stream_cleanup
<1>16. CASE UNCHANGED vars
    BY <1>16 DEF vars
<1>. QED  BY <1>1, <1>2, <1>3, <1>4, <1>5, <1>6, <1>7, <1>8, <1>9, <1>10, <1>11,
              <1>12, <1>13, <1>14, <1>15, <1>16
       DEF Next, ext_lzma_init, ext_set_predict

\* A block leaves `options` only together with `used`, or `twice` is set.
LEMMA LeakStep ==
    TypeOK /\ OneOwner /\ NoLeak /\ [Next]_vars => NoLeak'
<1>. SUFFICES ASSUME TypeOK, OneOwner, NoLeak, [Next]_vars
              PROVE  NoLeak'
    OBVIOUS
<1>. USE FilterAssumption DEF Filters, filterVars, memoryVars, streamVars,
         TypeOK, OneOwner, NoLeak
<1>1. ASSUME NEW f \in Filters, Allocate(f)
      PROVE  NoLeak'
    BY <1>1 DEF Allocate, filter_alloc
<1>2. ASSUME NEW f \in Filters, Freeze(f)
      PROVE  NoLeak'
    BY <1>2 DEF Freeze
<1>3. ASSUME NEW f \in Filters, cleanup_filter(f)
      PROVE  NoLeak'
    BY <1>3 DEF cleanup_filter
<1>4. ASSUME NEW f \in Filters, f \in live \intersect Lzma, setup_lzma_preset(f)
      PROVE  NoLeak'
    BY <1>4, ReplaceLeaks DEF NoLeak, setup_lzma_preset
<1>5. ASSUME NEW f \in Filters, f \in live \intersect Lzma, setup_lzma(f)
      PROVE  NoLeak'
    BY <1>5, ReplaceLeaks DEF NoLeak, setup_lzma
<1>6. ASSUME NEW f \in Filters, delta_init(f)
      PROVE  NoLeak'
    BY <1>6, ReplaceLeaks DEF NoLeak, delta_init
<1>7. ASSUME NEW f \in Filters, f \in live \intersect Lzma, ext_set_predict(f)
      PROVE  NoLeak'
    BY <1>7 DEF ext_set_predict, Predicts, NewDicts
<1>8. ASSUME NEW f \in Filters, Accessor(f)
      PROVE  NoLeak'
    BY <1>8 DEF Accessor
<1>9. ASSUME NEW f \in Filters, StreamNoMem(f)
      PROVE  NoLeak'
    BY <1>9 DEF StreamNoMem
<1>10. ASSUME NEW f \in Filters, Build(f)
      PROVE  NoLeak'
    BY <1>10 DEF Build, StreamBuilt
<1>11. ASSUME NEW f \in Filters, NEW g \in Filters, Dup(f, g)
      PROVE  NoLeak'
    BY <1>11 DEF Dup, filter_alloc
<1>12. ASSUME NEW d \in Dicts, CollectString(d)
      PROVE  NoLeak'
    BY <1>12 DEF CollectString
<1>13. CASE Rebuild
    BY <1>13 DEF Rebuild, StreamBuilt
<1>14. CASE BuildFails
    BY <1>14 DEF BuildFails
<1>15. CASE stream_cleanup
    BY <1>15 DEF stream_cleanup
<1>16. CASE UNCHANGED vars
    BY <1>16 DEF vars
<1>. QED  BY <1>1, <1>2, <1>3, <1>4, <1>5, <1>6, <1>7, <1>8, <1>9, <1>10, <1>11,
              <1>12, <1>13, <1>14, <1>15, <1>16
       DEF Next, ext_lzma_init, ext_set_predict

\* The pointer and the variable are set together, and what the variable
\* refers to is not collected, or the filter is among `raised`.
LEMMA AnchoredStep ==
    TypeOK /\ Living /\ OneOwner /\ Anchored /\ [Next]_vars => Anchored'
<1>. SUFFICES ASSUME TypeOK, Living, OneOwner, Anchored, [Next]_vars
              PROVE  Anchored'
    OBVIOUS
<1>. USE FilterAssumption DEF Filters, filterVars, memoryVars, streamVars,
         TypeOK, Living, OneOwner, Anchored
<1>1. ASSUME NEW f \in Filters, Allocate(f)
      PROVE  Anchored'
    BY <1>1 DEF Allocate, filter_alloc
<1>2. ASSUME NEW f \in Filters, Freeze(f)
      PROVE  Anchored'
    BY <1>2 DEF Freeze
<1>3. ASSUME NEW f \in Filters, cleanup_filter(f)
      PROVE  Anchored'
    BY <1>3 DEF cleanup_filter
<1>4. ASSUME NEW f \in Filters, f \in live \intersect Lzma, setup_lzma_preset(f)
      PROVE  Anchored'
    BY <1>4 DEF setup_lzma_preset, Replace
<1>5. ASSUME NEW f \in Filters, f \in live \intersect Lzma, setup_lzma(f)
      PROVE  Anchored'
    BY <1>5 DEF setup_lzma, Replace, Predicts, NewDicts
<1>6. ASSUME NEW f \in Filters, delta_init(f)
      PROVE  Anchored'
    BY <1>6 DEF delta_init, Replace
<1>7. ASSUME NEW f \in Filters, f \in live \intersect Lzma, ext_set_predict(f)
      PROVE  Anchored'
    BY <1>7 DEF ext_set_predict, Predicts, NewDicts
<1>8. ASSUME NEW f \in Filters, Accessor(f)
      PROVE  Anchored'
    BY <1>8 DEF Accessor
<1>9. ASSUME NEW f \in Filters, StreamNoMem(f)
      PROVE  Anchored'
    BY <1>9 DEF StreamNoMem
<1>10. ASSUME NEW f \in Filters, Build(f)
      PROVE  Anchored'
    BY <1>10 DEF Build, StreamBuilt
<1>11. ASSUME NEW f \in Filters, NEW g \in Filters, Dup(f, g)
      PROVE  Anchored'
    BY <1>11 DEF Dup, filter_alloc
<1>12. ASSUME NEW d \in Dicts, CollectString(d)
      PROVE  Anchored'
    BY <1>12 DEF CollectString
<1>13. CASE Rebuild
    BY <1>13 DEF Rebuild, StreamBuilt
<1>14. CASE BuildFails
    BY <1>14 DEF BuildFails
<1>15. CASE stream_cleanup
    BY <1>15 DEF stream_cleanup
<1>16. CASE UNCHANGED vars
    BY <1>16 DEF vars
<1>. QED  BY <1>1, <1>2, <1>3, <1>4, <1>5, <1>6, <1>7, <1>8, <1>9, <1>10, <1>11,
              <1>12, <1>13, <1>14, <1>15, <1>16
       DEF Next, ext_lzma_init, ext_set_predict

\* A stream has its dictionary from such a filter; when the variable of the
\* filter changes, the stream has lost its source.
LEMMA StreamStep ==
    TypeOK /\ Living /\ OneOwner /\ Anchored /\ StreamAnchored /\ [Next]_vars
        => StreamAnchored'
<1>. SUFFICES ASSUME TypeOK, Living, OneOwner, Anchored, StreamAnchored,
                     [Next]_vars
              PROVE  StreamAnchored'
    OBVIOUS
<1>. USE FilterAssumption DEF Filters, filterVars, memoryVars, streamVars,
         TypeOK, Living, OneOwner, Anchored, StreamAnchored
<1>1. ASSUME NEW f \in Filters, Allocate(f)
      PROVE  StreamAnchored'
    BY <1>1 DEF Allocate, filter_alloc
<1>2. ASSUME NEW f \in Filters, Freeze(f)
      PROVE  StreamAnchored'
    BY <1>2 DEF Freeze
<1>3. ASSUME NEW f \in Filters, cleanup_filter(f)
      PROVE  StreamAnchored'
    BY <1>3 DEF cleanup_filter
<1>4. ASSUME NEW f \in Filters, f \in live \intersect Lzma, setup_lzma_preset(f)
      PROVE  StreamAnchored'
    BY <1>4 DEF setup_lzma_preset, Replace
<1>5. ASSUME NEW f \in Filters, f \in live \intersect Lzma, setup_lzma(f)
      PROVE  StreamAnchored'
    BY <1>5 DEF setup_lzma, Replace, Predicts, NewDicts
<1>6. ASSUME NEW f \in Filters, delta_init(f)
      PROVE  StreamAnchored'
    BY <1>6 DEF delta_init, Replace
<1>7. ASSUME NEW f \in Filters, f \in live \intersect Lzma, ext_set_predict(f)
      PROVE  StreamAnchored'
    BY <1>7 DEF ext_set_predict, Predicts, NewDicts
<1>8. ASSUME NEW f \in Filters, Accessor(f)
      PROVE  StreamAnchored'
    BY <1>8 DEF Accessor
<1>9. ASSUME NEW f \in Filters, StreamNoMem(f)
      PROVE  StreamAnchored'
    BY <1>9 DEF StreamNoMem
<1>10. ASSUME NEW f \in Filters, Build(f)
      PROVE  StreamAnchored'
    BY <1>10 DEF Build, StreamBuilt
<1>11. ASSUME NEW f \in Filters, NEW g \in Filters, Dup(f, g)
      PROVE  StreamAnchored'
    BY <1>11 DEF Dup, filter_alloc
<1>12. ASSUME NEW d \in Dicts, CollectString(d)
      PROVE  StreamAnchored'
    BY <1>12 DEF CollectString
<1>13. CASE Rebuild
    BY <1>13 DEF Rebuild, StreamBuilt
<1>14. CASE BuildFails
    BY <1>14 DEF BuildFails
<1>15. CASE stream_cleanup
    BY <1>15 DEF stream_cleanup
<1>16. CASE UNCHANGED vars
    BY <1>16 DEF vars
<1>. QED  BY <1>1, <1>2, <1>3, <1>4, <1>5, <1>6, <1>7, <1>8, <1>9, <1>10, <1>11,
              <1>12, <1>13, <1>14, <1>15, <1>16
       DEF Next, ext_lzma_init, ext_set_predict

\* The block of a constructor under way stays with its filter or gets no
\* other owner who could free it.
LEMMA PackStep ==
    TypeOK /\ Living /\ OneOwner /\ PackHeld /\ [Next]_vars => PackHeld'
<1>. SUFFICES ASSUME TypeOK, Living, OneOwner, PackHeld, [Next]_vars
              PROVE  PackHeld'
    OBVIOUS
<1>. USE FilterAssumption DEF Filters, filterVars, memoryVars, streamVars,
         TypeOK, Living, OneOwner, PackHeld
<1>1. ASSUME NEW f \in Filters, Allocate(f)
      PROVE  PackHeld'
    BY <1>1 DEF Allocate, filter_alloc
<1>2. ASSUME NEW f \in Filters, Freeze(f)
      PROVE  PackHeld'
    BY <1>2 DEF Freeze
<1>3. ASSUME NEW f \in Filters, cleanup_filter(f)
      PROVE  PackHeld'
    BY <1>3 DEF cleanup_filter
<1>4. ASSUME NEW f \in Filters, f \in live \intersect Lzma, setup_lzma_preset(f)
      PROVE  PackHeld'
    BY <1>4 DEF setup_lzma_preset, Replace
<1>5. ASSUME NEW f \in Filters, f \in live \intersect Lzma, setup_lzma(f)
      PROVE  PackHeld'
    BY <1>5 DEF setup_lzma, Replace, Predicts, NewDicts
<1>6. ASSUME NEW f \in Filters, delta_init(f)
      PROVE  PackHeld'
    BY <1>6 DEF delta_init, Replace
<1>7. ASSUME NEW f \in Filters, f \in live \intersect Lzma, ext_set_predict(f)
      PROVE  PackHeld'
    BY <1>7 DEF ext_set_predict, Predicts, NewDicts
<1>8. ASSUME NEW f \in Filters, Accessor(f)
      PROVE  PackHeld'
    BY <1>8 DEF Accessor
<1>9. ASSUME NEW f \in Filters, StreamNoMem(f)
      PROVE  PackHeld'
    BY <1>9 DEF StreamNoMem
<1>10. ASSUME NEW f \in Filters, Build(f)
      PROVE  PackHeld'
    BY <1>10 DEF Build, StreamBuilt
<1>11. ASSUME NEW f \in Filters, NEW g \in Filters, Dup(f, g)
      PROVE  PackHeld'
    BY <1>11 DEF Dup, filter_alloc
<1>12. ASSUME NEW d \in Dicts, CollectString(d)
      PROVE  PackHeld'
    BY <1>12 DEF CollectString
<1>13. CASE Rebuild
    BY <1>13 DEF Rebuild, StreamBuilt
<1>14. CASE BuildFails
    BY <1>14 DEF BuildFails
<1>15. CASE stream_cleanup
    BY <1>15 DEF stream_cleanup
<1>16. CASE UNCHANGED vars
    BY <1>16 DEF vars
<1>. QED  BY <1>1, <1>2, <1>3, <1>4, <1>5, <1>6, <1>7, <1>8, <1>9, <1>10, <1>11,
              <1>12, <1>13, <1>14, <1>15, <1>16
       DEF Next, ext_lzma_init, ext_set_predict

-----------------------------------------------------------------------------
(* The theorems.                                                           *)

\* Everything at once.
LEMMA Inductive == Spec => []IInv
<1>1. Init => TypeOK
    <2>1. Init => /\ frozen \in [Filters -> BOOLEAN]
                  /\ on \in BOOLEAN /\ twice \in BOOLEAN
        BY DEF Init
    <2>. QED  BY <2>1, FilterAssumption DEF Init, TypeOK
<1>2. Init => Living /\ OneOwner /\ NoLeak
    BY FilterAssumption DEF Init, Living, OneOwner, NoLeak
<1>3. Init => Anchored /\ StreamAnchored /\ PackHeld
    BY FilterAssumption DEF Init, Anchored, StreamAnchored, PackHeld
<1>4. IInv /\ [Next]_vars => IInv'
    BY TypeStep, LivingStep, OwnerStep, LeakStep, AnchoredStep, StreamStep,
       PackStep DEF IInv
<1>5. Init => IInv
    BY <1>1, <1>2, <1>3 DEF IInv
<1>. QED  BY <1>4, <1>5, PTL DEF Spec

\* Every variable keeps its type (ext/filter.c).
THEOREM FilterTypes == Spec => []TypeOK
BY Inductive, PTL DEF IInv

\* No block is freed twice and no filter is left with freed options
\* (cleanup_filter), whatever is duplicated, replaced or collected.
THEOREM FreedOnce == Spec => []OneOwner
BY Inductive, PTL DEF IInv

\* No block is lost, but for the two known ways (setup_lzma, delta_init).
THEOREM NothingLeaks == Spec => []NoLeak
BY Inductive, PTL DEF IInv

\* The dictionary of a filter is alive (aux_set_predict_0), unless a call
\* raised between its two halves.
THEOREM DictionaryAlive == Spec => []DictKept
<1>1. IInv => DictKept
    BY DEF IInv, TypeOK, Anchored, DictKept
<1>. QED  BY <1>1, Inductive, PTL

\* So is the one a stream reads again after a flush, and a constructor that
\* tries again after a collection (RETRY_NOMEM) reads no freed options.
THEOREM StreamDictionaryAlive == Spec => []StreamDictKept
<1>1. IInv => StreamDictKept
    BY FilterAssumption
       DEF IInv, TypeOK, Living, Anchored, StreamAnchored, PackHeld,
           StreamDictKept, Filters
<1>. QED  BY <1>1, Inductive, PTL
=============================================================================
