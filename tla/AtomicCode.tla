----------------------------- MODULE AtomicCode -----------------------------
(***************************************************************************)
(* What LZMA::Stream#code promises its callers, without pointers: the      *)
(* coder takes a part of src and gives a part of what it holds to dest.    *)
(* Modules Encoder and Decoder are written over this view of a call.       *)
(* Module StreamCode implements it as long as nobody interferes with the   *)
(* two Strings of a call (broken).                                         *)
(***************************************************************************)
EXTENDS Naturals, Sequences

CONSTANTS Strings, Nil

VARIABLES
    text,         \* the content of every String
    held,         \* bytes inside the coder
    busy,         \* a call is in progress
    src, dest,    \* its Strings; src may be Nil
    taken, made,  \* input consumed and output produced since it began
    broken        \* the call was interfered with

codeVars == <<text, held, busy, src, dest, taken, made, broken>>

\* The Strings a call in progress works on.
Used == IF busy THEN {src, dest} ELSE {}

Init ==
    /\ held = <<>> /\ busy = FALSE /\ taken = 0 /\ made = <<>>
    /\ src = Nil /\ dest = Nil /\ broken = FALSE

\* The program changes Strings, but not those of a call in progress.
Mutate ==
    /\ ~broken
    /\ \A s \in Strings \intersect Used : text'[s] = text[s]
    /\ UNCHANGED <<held, busy, src, dest, taken, made, broken>>

Begin ==
    /\ ~broken /\ ~busy /\ busy' = TRUE
    /\ dest' # src'
    /\ \A s \in Strings \ {dest'} : text'[s] = text[s]
    /\ UNCHANGED <<held, taken, made, broken>>

Consume ==
    /\ ~broken /\ busy /\ src # Nil /\ taken < Len(text[src])
    /\ held' = Append(held, text[src][taken + 1]) /\ taken' = taken + 1
    /\ UNCHANGED <<text, busy, src, dest, made, broken>>

Produce ==
    /\ ~broken /\ busy /\ held # <<>>
    /\ made' = Append(made, Head(held)) /\ held' = Tail(held)
    /\ UNCHANGED <<text, busy, src, dest, taken, broken>>

\* The call ends.  If it returns, src keeps what was not consumed and dest is
\* the output; if an exception ends it, src keeps everything and dest is
\* anything.
End ==
    /\ ~broken /\ busy /\ busy' = FALSE
    /\ \A s \in Strings \ {src, dest} : text'[s] = text[s]
    /\ \/ /\ src # Nil => text'[src] = SubSeq(text[src], taken + 1, Len(text[src]))
          /\ text'[dest] = made
       \/ src # Nil => text'[src] = text[src]
    /\ taken' = 0 /\ made' = <<>>
    /\ UNCHANGED <<held, broken>>

\* A call that is interfered with may do anything until it is over.
Break == broken \/ broken'

Next == Mutate \/ Begin \/ Consume \/ Produce \/ End \/ Break

Spec == Init /\ [][Next]_codeVars
=============================================================================
