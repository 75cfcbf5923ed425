------------------------------- MODULE Filter -------------------------------
(***************************************************************************)
(* LZMA::Filter objects (ext/filter.c) and what keeps their memory alive:  *)
(* the options block a filter owns, the preset dictionary the block points *)
(* to, the String (instance variable extlzma.predict) that holds the bytes *)
(* of the dictionary, and a stream built from the filter, which keeps the  *)
(* pointer to the dictionary: an xz encoder reads it when it is set up and *)
(* again for every block after a FULL_FLUSH.  stream_mark marks nothing.   *)
(*                                                                         *)
(* The collector may run at any time.  A dictionary is a frozen copy that  *)
(* only instance variables keep alive.  Numeric options are left out, but  *)
(* for the exception a bad one raises.  After a crash nothing happens.     *)
(***************************************************************************)
EXTENDS Naturals, FiniteSets

CONSTANTS
    Lzma, Delta,    \* filter objects, by class
    Blocks,         \* memory blocks for options (bound on what is leaked)
    Dicts,          \* dictionaries: frozen Strings
    Nil, Empty,     \* nil or a NULL pointer, and the empty String
    MaxUsed         \* bound: streams built

Filters == Lzma \union Delta

ASSUME FilterAssumption ==
    /\ Lzma \intersect Delta = {} /\ MaxUsed \in Nat
    /\ Nil \notin Blocks \union Dicts \union Filters
    /\ Empty \notin Dicts /\ Empty # Nil

VARIABLES
    live,         \* the filter objects that exist
    frozen,       \* Object#freeze was called
    options,      \* lzma_filter.options: a block or Nil
    ivar,         \* extlzma.predict: a dictionary, Empty or Nil
    used,         \* the blocks that are allocated
    preset_dict,  \* of every block: a dictionary or Nil
    alive,        \* dictionaries the collector has not freed
    trying,       \* the filter of a constructor between two attempts ...
    pack,         \* ... and the options pointer it has copied
    on,           \* the stream exists
    dict,         \* the dictionary pointer liblzma keeps for it
    built,        \* streams built so far
    outcome,      \* how the last call ended
    \* history, read by the properties only
    twice,        \* a block was replaced, or a Delta.new raised
    raised,       \* filters whose dictionary a call changed and then raised
    source        \* the filter of the stream, while it has its dictionary

filterVars == <<live, frozen, options, ivar>>
memoryVars == <<used, preset_dict, alive>>
streamVars == <<trying, pack, on, dict, built, source>>
vars == <<filterVars, memoryVars, streamVars, outcome, twice, raised>>

TypeOK ==
    /\ live \subseteq Filters
    /\ frozen \in [Filters -> BOOLEAN]
    /\ options \in [Filters -> Blocks \union {Nil}]
    /\ ivar \in [Filters -> Dicts \union {Empty, Nil}]
    /\ used \subseteq Blocks
    /\ preset_dict \in [Blocks -> Dicts \union {Nil}]
    /\ alive \subseteq Dicts
    /\ trying \in Filters \union {Nil} /\ pack \in Blocks \union {Nil}
    /\ on \in BOOLEAN /\ dict \in Dicts \union {Nil} /\ built \in 0 .. MaxUsed
    /\ outcome \in {"ok", "raised", "crash"}
    /\ twice \in BOOLEAN /\ raised \subseteq Filters
    /\ source \in Filters \union {Nil}

Init ==
    /\ live = {}
    /\ frozen = [f \in Filters |-> FALSE]
    /\ options = [f \in Filters |-> Nil]
    /\ ivar = [f \in Filters |-> Nil]
    /\ used = {} /\ preset_dict = [b \in Blocks |-> Nil] /\ alive = {}
    /\ trying = Nil /\ pack = Nil /\ on = FALSE /\ dict = Nil /\ built = 0
    /\ outcome = "ok" /\ twice = FALSE /\ raised = {} /\ source = Nil

-----------------------------------------------------------------------------
(* Life of a filter object.                                                *)

\* filter_alloc: all members are 0, as they are in a filter that is not.
filter_alloc(f) ==
    /\ f \notin live
    /\ live' = live \union {f}
    /\ UNCHANGED <<frozen, options, memoryVars, streamVars, outcome, twice, raised>>

Allocate(f) == filter_alloc(f) /\ UNCHANGED ivar

\* Mutant: a dup that copies the struct.
DupShallow(f, g) ==
    /\ f \in live /\ g \notin live /\ {f, g} \subseteq Lzma
    /\ live' = live \union {g}
    /\ options' = [options EXCEPT ![g] = options[f]]
    /\ ivar' = [ivar EXCEPT ![g] = ivar[f]]
    /\ UNCHANGED <<frozen, memoryVars, streamVars, outcome, twice, raised>>

\* g = f.dup: no initialize_copy is defined, so only the variable is copied.
Dup(f, g) ==
    /\ f \in live /\ ({f, g} \subseteq Lzma \/ {f, g} \subseteq Delta)
    /\ filter_alloc(g)
    /\ ivar' = [ivar EXCEPT ![g] = ivar[f]]

Freeze(f) ==
    /\ f \in live \intersect Lzma /\ ~frozen[f]
    /\ frozen' = [frozen EXCEPT ![f] = TRUE]
    /\ UNCHANGED <<live, options, ivar, memoryVars, streamVars, outcome, twice,
                   raised>>

\* Mutant: the options are left behind.
cleanup_filter_shallow(f) ==
    /\ f \in live /\ f # trying
    /\ live' = live \ {f}
    /\ frozen' = [frozen EXCEPT ![f] = FALSE]
    /\ options' = [options EXCEPT ![f] = Nil]
    /\ ivar' = [ivar EXCEPT ![f] = Nil]
    /\ raised' = raised \ {f}
    /\ source' = IF source = f THEN Nil ELSE source
    /\ UNCHANGED <<memoryVars, trying, pack, on, dict, built, outcome, twice>>

\* Mutant: the arguments of a constructor are not kept.
cleanup_filter_argument(f) ==
    /\ f \in live
    /\ live' = live \ {f}
    /\ used' = used \ {options[f]}
    /\ preset_dict' = [b \in Blocks |-> IF b = options[f] THEN Nil
                                                        ELSE preset_dict[b]]
    /\ frozen' = [frozen EXCEPT ![f] = FALSE]
    /\ options' = [options EXCEPT ![f] = Nil]
    /\ ivar' = [ivar EXCEPT ![f] = Nil]
    /\ raised' = raised \ {f}
    /\ source' = IF source = f THEN Nil ELSE source
    /\ UNCHANGED <<alive, trying, pack, on, dict, built, outcome, twice>>

\* The collector frees a filter nobody refers to, and its options.  The
\* arguments of a constructor are referred to.
cleanup_filter(f) ==
    /\ f \in live /\ f # trying
    /\ live' = live \ {f}
    /\ used' = used \ {options[f]}
    /\ preset_dict' = [b \in Blocks |-> IF b = options[f] THEN Nil
                                                        ELSE preset_dict[b]]
    /\ frozen' = [frozen EXCEPT ![f] = FALSE]
    /\ options' = [options EXCEPT ![f] = Nil]
    /\ ivar' = [ivar EXCEPT ![f] = Nil]
    /\ raised' = raised \ {f}
    /\ source' = IF source = f THEN Nil ELSE source
    /\ UNCHANGED <<alive, trying, pack, on, dict, built, outcome, twice>>

\* So it does with a String no filter refers to.
CollectString(d) ==
    /\ d \in alive /\ \A f \in live : ivar[f] # d
    /\ alive' = alive \ {d}
    /\ UNCHANGED <<filterVars, used, preset_dict, streamVars, outcome, twice,
                   raised>>

-----------------------------------------------------------------------------
(* initialize and the accessors.                                           *)

\* f gets a new block; the one it had is forgotten.
Replace(f, b, d) ==
    /\ b \in Blocks \ used
    /\ used' = used \union {b}
    /\ preset_dict' = [preset_dict EXCEPT ![b] = d]
    /\ options' = [options EXCEPT ![f] = b]
    /\ twice' = (twice \/ options[f] # Nil)
    /\ source' = IF source = f THEN Nil ELSE source
    /\ UNCHANGED <<live, frozen, trying, pack, on, dict, built>>

\* initialize(preset): a preset that is no number, or not one, is refused.
setup_lzma_preset(f) ==
    \/ /\ \E b \in Blocks : Replace(f, b, Nil)
       /\ outcome' = "ok"
       /\ UNCHANGED <<ivar, alive, raised>>
    \/ /\ outcome' = "raised"
       /\ UNCHANGED <<filterVars, memoryVars, streamVars, twice, raised>>

\* A new frozen String, which no pointer is left to from an earlier one.
NewDicts == {d \in Dicts \ alive : d # dict /\ \A b \in Blocks : preset_dict[b] # d}

\* What aux_set_predict_0 makes of its argument: the pointer and the variable.
Predicts == {[ptr |-> Nil, str |-> Nil], [ptr |-> Nil, str |-> Empty]}
                \union {[ptr |-> d, str |-> d] : d \in NewDicts}

\* initialize(preset, opts).  The variable is set before the other options
\* are looked at, one of which may raise, and the block is replaced at the
\* end.  A predict of nil leaves the variable alone; the variable of a frozen
\* object cannot be set.  A bad preset raises a class that was never assigned.
setup_lzma(f) ==
    \/ \E b \in Blocks, p \in Predicts :
          /\ p.str # Nil => ~frozen[f]
          /\ ivar' = [ivar EXCEPT ![f] = IF p.str = Nil THEN @ ELSE p.str]
          /\ alive' = alive \union ({p.ptr} \ {Nil})
          /\ \/ /\ Replace(f, b, p.ptr)
                /\ outcome' = "ok"
                /\ raised' = raised \ {f}
             \/ /\ outcome' = "raised"
                /\ raised' = IF p.str = Nil THEN raised ELSE raised \union {f}
                /\ source' = IF source = f /\ p.str # Nil THEN Nil ELSE source
                /\ UNCHANGED <<live, frozen, options, used, preset_dict,
                               trying, pack, on, dict, built, twice>>
    \/ /\ outcome' \in {"raised", "crash"}
       /\ UNCHANGED <<filterVars, memoryVars, streamVars, twice, raised>>

ext_lzma_init(f) ==
    f \in live \intersect Lzma /\ (setup_lzma_preset(f) \/ setup_lzma(f))

\* Delta: the block is allocated before the argument is looked at.
delta_init(f) ==
    /\ f \in live \intersect Delta
    /\ \E b \in Blocks \ used :
          \/ Replace(f, b, Nil) /\ outcome' = "ok"
          \/ /\ used' = used \union {b} /\ twice' = TRUE
             /\ outcome' = "raised"
             /\ UNCHANGED <<live, frozen, options, preset_dict, streamVars>>
    /\ UNCHANGED <<ivar, alive, raised>>

\* Mutant: the instance variable is forgotten.
ext_set_predict_pointer(f) ==
    /\ f \in live \intersect Lzma /\ options[f] # Nil
    /\ \E p \in Predicts :
          /\ preset_dict' = [preset_dict EXCEPT ![options[f]] = p.ptr]
          /\ alive' = alive \union ({p.ptr} \ {Nil})
    /\ outcome' = "ok"
    /\ source' = IF source = f THEN Nil ELSE source
    /\ UNCHANGED <<filterVars, used, trying, pack, on, dict, built, twice, raised>>

\* Mutant: the empty String is pointed to like any other.
ext_set_predict_empty(f) ==
    /\ f \in live \intersect Lzma /\ options[f] # Nil /\ ~frozen[f]
    /\ \E p \in Predicts :
          /\ preset_dict' = [preset_dict EXCEPT ![options[f]] = p.str]
          /\ alive' = alive \union ({p.ptr} \ {Nil})
          /\ ivar' = [ivar EXCEPT ![f] = p.str]
    /\ outcome' = "ok" /\ raised' = raised \ {f}
    /\ source' = IF source = f THEN Nil ELSE source
    /\ UNCHANGED <<live, frozen, options, used, trying, pack, on, dict, built, twice>>

\* predict=: the pointer is set first; the variable of a frozen object cannot
\* be set.
ext_set_predict(f) ==
    /\ f \in live \intersect Lzma /\ options[f] # Nil
    /\ \E p \in Predicts :
          /\ preset_dict' = [preset_dict EXCEPT ![options[f]] = p.ptr]
          /\ alive' = alive \union ({p.ptr} \ {Nil})
          /\ IF frozen[f]
             THEN /\ outcome' = "raised" /\ raised' = raised \union {f}
                  /\ UNCHANGED <<ivar, source>>
             ELSE /\ outcome' = "ok"
                  /\ ivar' = [ivar EXCEPT ![f] = p.str]
                  /\ raised' = raised \ {f}
                  /\ source' = IF source = f THEN Nil ELSE source
    /\ UNCHANGED <<live, frozen, options, used, trying, pack, on, dict, built, twice>>

\* The accessors of the numeric options, and predict= with something that is
\* no String: a bad value raises.  An object that was never initialized has no
\* options to look into.
Accessor(f) ==
    /\ f \in live \intersect Lzma
    /\ outcome' \in {"raised"} \union (IF options[f] = Nil THEN {"crash"} ELSE {"ok"})
    /\ UNCHANGED <<filterVars, memoryVars, streamVars, twice, raised>>

\* predict
ext_get_predict(f) == ivar[f]

-----------------------------------------------------------------------------
(* A stream built from one filter (a constructor of ext/stream.c).         *)

\* liblzma cannot allocate; RETRY_NOMEM collects garbage and tries again with
\* the copy of the filter it made.  Finalizers and other threads run there.
StreamNoMem(f) ==
    /\ f \in live /\ options[f] # Nil /\ trying = Nil /\ ~on
    /\ built < MaxUsed
    /\ trying' = f /\ pack' = options[f]
    /\ UNCHANGED <<filterVars, memoryVars, on, dict, built, source, outcome,
                   twice, raised>>

\* lzma_stream_encoder reads the dictionary and keeps the pointer.
StreamBuilt(f, b) ==
    /\ b # Nil /\ ~on /\ built < MaxUsed /\ built' = built + 1
    /\ on' = TRUE /\ dict' = preset_dict[b]
    /\ source' = IF options[f] = b /\ f \notin raised THEN f ELSE Nil
    /\ trying' = Nil /\ pack' = Nil /\ outcome' = "ok"
    /\ UNCHANGED <<filterVars, memoryVars, twice, raised>>

Build(f) == f \in live /\ trying = Nil /\ StreamBuilt(f, options[f])

Rebuild == trying # Nil /\ StreamBuilt(trying, pack)

\* The second attempt fails too; options that are not there are refused, but
\* for those of a raw coder, which reads them.
BuildFails ==
    /\ \/ trying # Nil /\ outcome' = "raised"
       \/ /\ trying = Nil /\ \E f \in Filters : f \in live /\ options[f] = Nil
          /\ outcome' \in {"raised", "crash"}
    /\ trying' = Nil /\ pack' = Nil
    /\ UNCHANGED <<filterVars, memoryVars, on, dict, built, source, twice, raised>>

\* stream_cleanup
stream_cleanup ==
    /\ on
    /\ on' = FALSE /\ dict' = Nil /\ source' = Nil
    /\ UNCHANGED <<filterVars, memoryVars, trying, pack, built, outcome, twice,
                   raised>>

-----------------------------------------------------------------------------
Next ==
    /\ outcome # "crash"
    /\ \/ \E f \in Filters :
             \/ Allocate(f) \/ Freeze(f) \/ cleanup_filter(f)
             \/ ext_lzma_init(f) \/ delta_init(f)
             \/ ext_set_predict(f) \/ Accessor(f)
             \/ StreamNoMem(f) \/ Build(f)
       \/ \E f, g \in Filters : Dup(f, g)
       \/ \E d \in Dicts : CollectString(d)
       \/ Rebuild \/ BuildFails \/ stream_cleanup

Spec == Init /\ [][Next]_vars

-----------------------------------------------------------------------------
(* Properties.                                                             *)

\* cleanup_filter frees every block once: no two filters have the same
\* options, and no filter has options that were freed.
OneOwner ==
    \A f \in Filters : options[f] # Nil =>
        /\ options[f] \in used
        /\ \A g \in Filters \ {f} : options[g] # options[f]

\* Every block belongs to a filter, which frees it, whatever raised on the
\* way.  Two things lose a block: initialize called a second time, and a
\* Delta.new whose argument is no number.
NoLeak == ~twice => used \subseteq {options[f] : f \in Filters}

\* The dictionary of a filter is never freed under it, unless setting it
\* raised half-way: predict= of a frozen filter, or a second initialize with
\* a new dictionary and a bad option.
DictKept ==
    \A f \in Filters :
        options[f] # Nil /\ f \notin raised =>
            preset_dict[options[f]] \in alive \union {Nil}

\* A stream can read its dictionary again as long as its filter is referred
\* to and still has that dictionary, and a constructor that tries again after
\* a collection finds what it found before.
StreamDictKept ==
    /\ on /\ source # Nil => dict \in alive \union {Nil}
    /\ trying # Nil =>
          /\ pack \in used
          /\ pack = options[trying] /\ trying \notin raised =>
                preset_dict[pack] \in alive \union {Nil}
=============================================================================
