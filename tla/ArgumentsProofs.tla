--------------------------- MODULE ArgumentsProofs ---------------------------
(***************************************************************************)
(* Proofs about Arguments for every set of filters and every argument      *)
(* list: the inductive invariant IInv follows the values of one call from  *)
(* the arguments through argv and chain to the filters copied.             *)
(***************************************************************************)
EXTENDS Arguments, SequenceTheorems, TLAPS

\* v is what a factory hands on in front of the keywords: the positional
\* arguments, or the filter it makes.
Handed(v) ==
    \/ v = Positional /\ (entry = "encoder" => v # <<>>)
    \/ /\ entry \in Factories
       /\ \/ Positional = <<>> /\ v = <<[preset |-> Nil, opts |-> Nil]>>
          \/ Positional = <<Num>> /\ v = <<[preset |-> Num, opts |-> Nil]>>

\* What has not happened yet at each step.
Stages ==
    /\ pc # "end" => outcome = ""
    /\ pc \in {"call", "scan", "setup"} => attempts = 0
    /\ pc = "init" => attempts <= 1
    /\ pc \in {"call", "scan"} => filterpack = <<>>

\* What reached initialize.
ArgvInv ==
    pc \in {"scan", "setup", "init"} \/ outcome = "done" =>
        \E v \in {Positional} \union {<<m>> : m \in Made} :
            Handed(v) /\ argv = v \o Keywords

\* What the scanning has made of it.
ChainInv ==
    pc = "setup" \/ (Class \in TakesChain /\ (pc = "init" \/ outcome = "done")) =>
        /\ Class \in TakesChain
        /\ Class = "Encoder" =>
              /\ chain = Counted /\ Scanned \in 1 .. FiltersMax
              /\ check = IF HasOpts THEN conv_checkmethod(Last(argv)) ELSE "CRC64"
              /\ HasOpts => Last(argv).check # "bad"
        /\ Class # "Encoder" => chain = argv /\ Len(argv) \in 1 .. FiltersMax

\* What filter_setup has copied, the filters at the front of the chain.
CopyInv ==
    /\ Len(filterpack) <= Len(chain)
    /\ \A i \in DOMAIN filterpack : filterpack[i] = chain[i] /\ IsFilter(chain[i])
    /\ Class \in TakesChain /\ (pc = "init" \/ outcome = "done") =>
           filterpack = chain

\* What an exception says of the call.
OutcomeInv ==
    /\ outcome \in DOMAIN STATUS => STATUS[outcome] = status
    /\ outcome \in {"TypeError", "ArgumentError", "crash"} => ~ProperCall
    /\ CrashNeedsMisuse

IInv == TypeOK /\ Stages /\ ArgvInv /\ ChainInv /\ CopyInv /\ OutcomeInv

-----------------------------------------------------------------------------
(* The ends of a list, and what kinds of values there are.                 *)

\* The last value of a list, and the values before it.
LEMMA FrontAndLast ==
    ASSUME NEW S, NEW s \in Seq(S), s # <<>>
    PROVE  /\ Len(s) \in Nat \ {0} /\ Last(s) = s[Len(s)] /\ Last(s) \in S
           /\ Front(s) \in Seq(S) /\ Len(Front(s)) = Len(s) - 1
           /\ \A i \in 1 .. Len(s) - 1 : Front(s)[i] = s[i]
<1>1. Len(s) \in Nat \ {0}
    BY LenProperties, EmptySeq
<1>2. Last(s) = s[Len(s)] /\ Last(s) \in S
    BY <1>1, ElementOfSeq DEF Last
<1>3. \A i \in 1 .. Len(s) - 1 : s[i] \in S
    BY <1>1, ElementOfSeq
<1>. DEFINE n == Len(s) - 1
<1>4. /\ SubSeq(s, 1, n) \in Seq(S)
      /\ Len(SubSeq(s, 1, n)) = n
      /\ \A i \in 1 .. n : SubSeq(s, 1, n)[i] = s[i]
    <2>1. n \in Nat /\ \A i \in 1 .. n : s[i] \in S
        BY <1>1, <1>3
    <2>. HIDE DEF n
    <2>2. 1 \in Int /\ n \in Int /\ n - 1 + 1 = n /\ (1 <= n \/ n = 0)
          /\ \A i \in 1 .. n : 1 + i - 1 = i
        BY <2>1
    <2>. QED  BY <2>1, <2>2, SubSeqProperties
<1>. QED  BY <1>1, <1>2, <1>4 DEF Front

\* A list with one more value behind it.
LEMMA OneMore ==
    ASSUME NEW S, NEW s \in Seq(S), NEW x \in S
    PROVE  /\ s \o <<x>> \in Seq(S) /\ s \o <<x>> # <<>>
           /\ Len(s) \in Nat /\ Len(s \o <<x>>) = Len(s) + 1
           /\ Last(s \o <<x>>) = x /\ Front(s \o <<x>>) = s
           /\ \A i \in 1 .. Len(s) : (s \o <<x>>)[i] = s[i]
           /\ (s \o <<x>>)[Len(s) + 1] = x
<1>. DEFINE t == s \o <<x>>
<1>1. <<x>> \in Seq(S) /\ Len(<<x>>) = 1 /\ <<x>>[1] = x /\ Len(s) \in Nat
    BY LenProperties
<1>2. /\ t \in Seq(S) /\ Len(t) = Len(s) + 1
      /\ \A i \in 1 .. Len(s) + 1 :
            t[i] = IF i <= Len(s) THEN s[i] ELSE <<x>>[i - Len(s)]
    BY <1>1, ConcatProperties
<1>3. /\ \A i \in 1 .. Len(s) : t[i] = s[i]
      /\ t[Len(s) + 1] = x
    BY <1>1, <1>2
<1>4. t # <<>>
    BY <1>1, <1>2, EmptySeq
<1>. HIDE DEF t
<1>5. /\ Last(t) = t[Len(t)] /\ Front(t) \in Seq(S) /\ Len(Front(t)) = Len(t) - 1
      /\ \A i \in 1 .. Len(t) - 1 : Front(t)[i] = t[i]
    BY <1>2, <1>4, FrontAndLast
<1>6. Front(t) = s
    BY <1>1, <1>2, <1>3, <1>5, SeqEqual
<1>. QED  BY <1>1, <1>2, <1>3, <1>4, <1>5, <1>6 DEF t

\* Only filters are filters.
LEMMA Kinds ==
    /\ \A h \in Hashes : ~IsFilter(h) /\ h \notin {Blank, Num, BadNum, Nil, Object}
    /\ \A m \in Made : IsFilter(m) /\ m \notin Hashes
    /\ ~IsFilter(Num) /\ ~IsFilter(BadNum) /\ ~IsFilter(Nil) /\ ~IsFilter(Object)
    /\ \A v \in Values \union Made :
          IsFilter(v) => v \in Filters \union {Blank} \union Made
<1>1. \A h \in Hashes, m \in Made : h # m
    BY DEF Hashes, Made
<1>. QED  BY <1>1, ArgumentsAssumption DEF IsFilter

\* The two filters a factory makes.
LEMMA MadeFilters ==
    /\ [preset |-> Nil, opts |-> Nil] \in Made
    /\ [preset |-> Num, opts |-> Nil] \in Made
BY DEF Made

-----------------------------------------------------------------------------
(* What reaches initialize.                                                *)

\* The arguments of a call are its positional ones and, of Stream.encoder,
\* a Hash that may follow them.
LEMMA ArgsShape ==
    ASSUME args \in Seq(Values)
    PROVE  /\ Positional \in Seq(Values)
           /\ entry # "encoder" => Positional = args /\ Keywords = <<>>
           /\ entry = "encoder" => \E h \in Hashes :
                 /\ Keywords = <<h>>
                 /\ \/ HasHash(args) /\ h = Last(args) /\ args = Positional \o <<h>>
                       /\ Positional = Front(args)
                    \/ ~HasHash(args) /\ h.check = "missing" /\ Positional = args
<1>1. CASE entry # "encoder"
    BY <1>1 DEF Positional, Keywords
<1>2. CASE entry = "encoder" /\ ~HasHash(args)
    <2>1. [check |-> "missing"] \in Hashes
        BY DEF Hashes, Checks
    <2>. QED  BY <1>2, <2>1 DEF Positional, Keywords
<1>3. CASE entry = "encoder" /\ HasHash(args)
    <2>1. args # <<>> /\ Last(args) \in Hashes /\ Last(args) \in Values
        BY <1>3 DEF HasHash, Values
    <2>2. Front(args) \in Seq(Values) /\ Len(Front(args)) = Len(args) - 1
          /\ Len(args) \in Nat \ {0} /\ Last(args) = args[Len(args)]
          /\ \A i \in 1 .. Len(args) - 1 : Front(args)[i] = args[i]
        BY <2>1, FrontAndLast
    <2>. DEFINE t == Front(args) \o <<Last(args)>>
    <2>3. /\ t \in Seq(Values) /\ Len(t) = Len(Front(args)) + 1
          /\ \A i \in 1 .. Len(Front(args)) : t[i] = Front(args)[i]
          /\ t[Len(Front(args)) + 1] = Last(args)
        BY <2>1, <2>2, OneMore
    <2>. HIDE DEF t
    <2>4. \A i \in 1 .. Len(args) : t[i] = args[i]
        BY <2>2, <2>3
    <2>5. args = t
        BY <2>2, <2>3, <2>4, SeqEqual
    <2>. QED  BY <1>3, <2>1, <2>2, <2>5 DEF t, Positional, Keywords
<1>. QED  BY <1>1, <1>2, <1>3

\* What a factory hands on is a list of values and filters it made.
LEMMA HandedTypes ==
    ASSUME args \in Seq(Values), NEW v, Handed(v)
    PROVE  /\ v \in Seq(Values \union Made)
           /\ v = Positional \/ \E m \in Made : v = <<m>>
           /\ entry = "encoder" => v # <<>>
<1>1. Positional \in Seq(Values \union Made)
    BY ArgsShape, SeqMonotonic
<1>2. CASE v = Positional /\ (entry = "encoder" => v # <<>>)
    BY <1>1, <1>2
<1>3. CASE \E m \in Made : v = <<m>>
    <2>1. PICK m \in Made : v = <<m>>
        BY <1>3
    <2>2. m \in Values \union Made
        OBVIOUS
    <2>. QED  BY <2>1, <2>2
<1>. QED  BY <1>2, <1>3, MadeFilters DEF Handed

\* initialize gets the arguments as they are, or, from Stream.encoder, with
\* a Hash behind them, which the scanning takes off again.
LEMMA ArgvShape ==
    ASSUME args \in Seq(Values), NEW v, Handed(v), argv = v \o Keywords
    PROVE  /\ argv \in Seq(Values \union Made)
           /\ entry # "encoder" => argv = v
           /\ entry = "encoder" =>
                 /\ HasOpts /\ Counted = v /\ Scanned = Len(v)
                 /\ Last(argv) \in Hashes /\ Keywords = <<Last(argv)>>
<1>1. v \in Seq(Values \union Made)
    BY HandedTypes
<1>2. CASE entry # "encoder"
    <2>1. argv = v
        BY <1>1, <1>2, ArgsShape, ConcatEmptySeq
    <2>. QED  BY <1>1, <1>2, <2>1
<1>3. CASE entry = "encoder"
    <2>1. PICK h \in Hashes : Keywords = <<h>>
        BY <1>3, ArgsShape
    <2>2. h \in Values \union Made
        BY DEF Values
    <2>3. /\ argv \in Seq(Values \union Made) /\ Len(argv) = Len(v) + 1
          /\ Len(v) \in Nat /\ Last(argv) = h /\ Front(argv) = v
        BY <1>1, <2>1, <2>2, OneMore
    <2>4. v # <<>>
        BY <1>3, HandedTypes
    <2>5. Len(v) # 0
        BY <1>1, <2>4, EmptySeq
    <2>6. HasOpts
        BY <2>3, <2>5 DEF HasOpts
    <2>. QED  BY <1>3, <2>1, <2>3, <2>6 DEF Counted, Scanned
<1>. QED  BY <1>2, <1>3

\* What the scanning leaves of argv is what the factory handed on, or, of a
\* call of Encoder.new, the arguments without the Hash.
LEMMA ScannedShape ==
    ASSUME args \in Seq(Values), NEW v, Handed(v), argv = v \o Keywords
    PROVE  /\ Counted \in Seq(Values \union Made)
           /\ Class = "Encoder" =>
                 entry = "encoder" \/ (entry = "Encoder" /\ argv = args)
           /\ Class # "Encoder" => argv = v
           /\ HasOpts => /\ Counted = Front(argv) /\ Scanned = Len(argv) - 1
                         /\ Last(argv) \in Hashes
           /\ ~HasOpts => Counted = argv
<1>1. argv \in Seq(Values \union Made) /\ Len(argv) \in Nat
    BY ArgvShape, LenProperties
<1>2. HasOpts => argv # <<>>
    BY <1>1, EmptySeq DEF HasOpts
<1>3. Counted \in Seq(Values \union Made)
    BY <1>1, <1>2, FrontAndLast DEF Counted
<1>4. Class = "Encoder" => entry = "encoder" \/ entry = "Encoder"
    BY DEF Class, ClassOf, Factories
<1>5. entry = "Encoder" => Positional = args /\ v = args
    BY ArgsShape DEF Handed, Factories, ClassOf
<1>6. Class # "Encoder" => entry # "encoder"
    BY DEF Class, ClassOf, Factories
<1>7. entry = "Encoder" => argv = args
    BY <1>5, ArgvShape
<1>8. HasOpts => /\ Counted = Front(argv) /\ Scanned = Len(argv) - 1
                 /\ Last(argv) \in Hashes
    BY DEF Counted, Scanned, HasOpts
<1>. QED  BY <1>3, <1>4, <1>6, <1>7, <1>8, ArgvShape DEF Counted

-----------------------------------------------------------------------------
(* The documented calls.                                                   *)

\* A list of filters does not end with a Hash.
LEMMA ProperEnd ==
    ASSUME args \in Seq(Values), Proper(args)
    PROVE  args # <<>> /\ Last(args) \notin Hashes
<1>1. args # <<>> /\ DOMAIN args = 1 .. Len(args)
    BY LenProperties, EmptySeq DEF Proper
<1>2. Last(args) = args[Len(args)] /\ Len(args) \in Nat \ {0}
    BY <1>1, FrontAndLast
<1>3. Len(args) \in 1 .. Len(args)
    BY <1>2
<1>. QED  BY <1>1, <1>2, <1>3, Kinds DEF Proper, IsFilter

\* What they hand to a factory is proper, so it makes no filter of its own.
LEMMA ProperPositional ==
    ASSUME args \in Seq(Values), ProperCall, entry \in Factories
    PROVE  Proper(Positional) /\ Positional # <<BadNum>>
           /\ \A v : Handed(v) => v = Positional
<1>1. Proper(Positional)
    <2>1. CASE entry # "encoder"
        <3>1. Class # "Encoder"
            BY <2>1 DEF Class, ClassOf, Factories
        <3>. QED  BY <2>1, <3>1, ArgsShape DEF ProperCall
    <2>2. CASE entry = "encoder" /\ HasHash(args)
        <3>1. ~Proper(args)
            BY <2>2, ProperEnd DEF HasHash
        <3>. QED  BY <2>2, <3>1, ArgsShape DEF ProperCall
    <2>3. CASE entry = "encoder" /\ ~HasHash(args)
        BY <2>3, ArgsShape DEF ProperCall
    <2>. QED  BY <2>1, <2>2, <2>3
<1>2. \A x : Proper(<<x>>) => IsFilter(x)
    BY DEF Proper, IsFilter
<1>3. ~Proper(<<>>)
    BY EmptySeq DEF Proper
<1>. QED  BY <1>1, <1>2, <1>3, Kinds DEF Handed

\* They pass the scanning, and what it leaves is a proper chain.
LEMMA ProperScan ==
    ASSUME args \in Seq(Values), NEW v, Handed(v), argv = v \o Keywords,
           ProperCall
    PROVE  /\ Class \in TakesChain
           /\ Class = "Encoder" => /\ Scanned \in 1 .. FiltersMax
                                   /\ HasOpts => Last(argv).check # "bad"
                                   /\ Proper(Counted)
           /\ Class # "Encoder" => Proper(argv)
<1>0. Class \in TakesChain /\ Len(args) \in Nat
    BY LenProperties DEF ProperCall, TakesChain
<1>1. CASE Class # "Encoder"
    <2>1. Proper(args) /\ argv = v /\ entry # "encoder" /\ Positional = args
        BY <1>1, ScannedShape, ArgsShape
           DEF ProperCall, Class, ClassOf, Factories
    <2>2. v = args
        BY <2>1, ProperPositional DEF Handed
    <2>. QED  BY <1>0, <1>1, <2>1, <2>2
<1>2. CASE Class = "Encoder" /\ entry = "encoder"
    <2>1. /\ HasOpts /\ Counted = v /\ Scanned = Len(v) /\ v = Positional
          /\ Proper(v) /\ Keywords = <<Last(argv)>>
        BY <1>2, ArgvShape, ProperPositional DEF Factories, ClassOf
    <2>2. PICK h \in Hashes :
              /\ Keywords = <<h>>
              /\ \/ HasHash(args) /\ h = Last(args)
                 \/ ~HasHash(args) /\ h.check = "missing"
        BY <1>2, ArgsShape
    <2>3. h = Last(argv)
        BY <2>1, <2>2
    <2>4. HasHash(args) => Last(args).check # "bad"
        BY ProperEnd DEF ProperCall, HasHash
    <2>. QED  BY <1>0, <1>2, <2>1, <2>2, <2>3, <2>4 DEF Proper
<1>3. CASE Class = "Encoder" /\ entry = "Encoder" /\ Proper(args)
    <2>1. argv = args /\ Len(args) \in 1 .. FiltersMax
        BY <1>3, ScannedShape DEF Proper
    <2>2. ~HasOpts
        BY <1>3, <2>1, ProperEnd DEF HasOpts
    <2>3. \A n \in 1 .. FiltersMax : n # FiltersMax + 1
        BY DEF FiltersMax
    <2>4. Counted = args /\ Scanned = Len(args)
        BY <2>1, <2>2, <2>3 DEF Counted, Scanned
    <2>. QED  BY <1>0, <1>3, <2>1, <2>2, <2>4
<1>4. CASE Class = "Encoder" /\ entry = "Encoder" /\ ~Proper(args)
    <2>1. /\ argv = args /\ args # <<>> /\ Last(args) \in Hashes
          /\ Last(args).check # "bad" /\ Proper(Front(args))
        BY <1>4, ScannedShape DEF ProperCall, HasHash
    <2>2. Len(Front(args)) = Len(args) - 1 /\ Len(Front(args)) \in 1 .. FiltersMax
        BY <2>1, FrontAndLast DEF Proper
    <2>3. HasOpts
        BY <1>0, <2>1, <2>2 DEF HasOpts, FiltersMax
    <2>. QED  BY <1>0, <1>4, <2>1, <2>2, <2>3 DEF Counted, Scanned
<1>5. Class = "Encoder" => entry = "encoder" \/ entry = "Encoder"
    BY ScannedShape
<1>. QED  BY <1>1, <1>2, <1>3, <1>4, <1>5

-----------------------------------------------------------------------------
(* The steps.                                                              *)

\* Every status but LZMA_OK has its exception, and the exception the status.
LEMMA Exceptions ==
    /\ DOMAIN STATUS = {"UnsupportedCheck", "MemError", "MemlimitError",
                        "OptionsError", "ProgError"}
    /\ DOMAIN lookup_exception =
           {"OK", "UNSUPPORTED_CHECK", "MEM_ERROR", "MEMLIMIT_ERROR",
            "OPTIONS_ERROR", "PROG_ERROR"}
    /\ \A s \in DOMAIN lookup_exception \ {"OK"} :
           /\ lookup_exception[s] \in DOMAIN STATUS
           /\ STATUS[lookup_exception[s]] = s
BY DEF STATUS, lookup_exception

\* A factory hands something on, or refuses a number that is no preset.
LEMMA BuildStep ==
    ASSUME New \/ Build
    PROVE  /\ pc = "call"
           /\ \/ \E v : Handed(v) /\ Passes(v)
              \/ /\ entry \in Factories /\ Positional = <<BadNum>>
                 /\ Raises("ArgumentError")
<1>1. CASE New
    <2>1. Positional = args /\ entry # "encoder"
        BY <1>1 DEF New, Positional, Classes, ClassOf, Factories
    <2>. QED  BY <1>1, <2>1 DEF New, Handed
<1>2. CASE Build
    <2>1. CASE Positional = <<>>
        BY <1>2, <2>1 DEF Build, Handed
    <2>2. CASE Positional = <<Num>>
        <3>1. Positional # <<>>
            BY <2>2
        <3>. QED  BY <1>2, <2>2, <3>1 DEF Build, Handed
    <2>3. CASE Positional = <<BadNum>>
        <3>1. Positional # <<>> /\ Positional # <<Num>>
            BY <2>3, ArgumentsAssumption
        <3>. QED  BY <1>2, <2>3, <3>1 DEF Build
    <2>4. CASE Positional # <<>> /\ Positional # <<Num>>
               /\ Positional # <<BadNum>>
        BY <1>2, <2>4 DEF Build, Handed
    <2>. QED  BY <1>2, <2>1, <2>2, <2>3, <2>4 DEF Build
<1>. QED  BY <1>1, <1>2

\* A call of the function of liblzma.
Coder == \/ encoder_init \/ rawencoder_init \/ rawdecoder_init
         \/ decoder_init \/ autodecoder_init

\* It is repeated once for lack of memory, and ends the constructor otherwise.
LEMMA CoderStep ==
    ASSUME TypeOK, Stages, Coder
    PROVE  /\ pc = "init" /\ outcome = ""
           /\ status' \in DOMAIN lookup_exception /\ attempts' \in 1 .. 2
           /\ UNCHANGED <<entry, args, argv, chain, filterpack, check>>
           /\ \/ pc' = "init" /\ outcome' = "" /\ attempts' = 1
              \/ pc' = "end" /\ outcome' = "done"
              \/ /\ pc' = "end" /\ outcome' \in DOMAIN STATUS
                 /\ STATUS[outcome'] = status'
<1>1. \E errors \in SUBSET {"UNSUPPORTED_CHECK", "MEM_ERROR", "OPTIONS_ERROR",
                             "PROG_ERROR"} : Attempt(errors)
    <2>1. CASE encoder_init
        BY <2>1 DEF encoder_init
    <2>2. CASE rawencoder_init \/ rawdecoder_init
        BY <2>2 DEF rawencoder_init, rawdecoder_init
    <2>3. CASE decoder_init \/ autodecoder_init
        BY <2>3 DEF decoder_init, autodecoder_init
    <2>. QED  BY <2>1, <2>2, <2>3 DEF Coder
<1>2. /\ pc = "init" /\ attempts' = attempts + 1
      /\ UNCHANGED <<entry, args, argv, chain, filterpack, check>>
      /\ status' \in DOMAIN lookup_exception
      /\ \/ attempts = 0 /\ UNCHANGED <<pc, outcome>>
         \/ /\ pc' = "end"
            /\ outcome' = IF status' = "OK" THEN "done" ELSE lookup_exception[status']
    BY <1>1, Exceptions DEF Attempt, Ends
<1>3. attempts \in 0 .. 2 /\ attempts <= 1
    BY <1>2 DEF Stages, TypeOK
<1>4. attempts' \in 1 .. 2 /\ (attempts = 0 => attempts' = 1)
    BY <1>2, <1>3
<1>5. outcome = ""
    BY <1>2 DEF Stages
<1>6. outcome' = lookup_exception[status'] /\ status' # "OK" =>
          outcome' \in DOMAIN STATUS /\ STATUS[outcome'] = status'
    BY <1>2, Exceptions
<1>. QED  BY <1>2, <1>4, <1>5, <1>6

\* Nothing changes the call itself, and with it what was handed on.
LEMMA SameCall ==
    ASSUME UNCHANGED <<entry, args>>
    PROVE  /\ Class' = Class /\ Positional' = Positional /\ Keywords' = Keywords
           /\ ProperCall' = ProperCall
           /\ \A v : Handed(v)' = Handed(v)
<1>1. Class' = Class /\ Positional' = Positional /\ Keywords' = Keywords
    BY DEF Class, Positional, Keywords
<1>2. ProperCall' = ProperCall
    BY <1>1 DEF ProperCall
<1>3. \A v : Handed(v)' = Handed(v)
    BY <1>1 DEF Handed
<1>. QED  BY <1>1, <1>2, <1>3

\* The same argv is scanned the same way.
LEMMA SameArgv ==
    ASSUME UNCHANGED argv
    PROVE  HasOpts' = HasOpts /\ Counted' = Counted /\ Scanned' = Scanned
BY DEF HasOpts, Counted, Scanned

\* The steps of a call, those of liblzma taken together.
LEMMA Steps ==
    ASSUME [Next]_vars
    PROVE  /\ UNCHANGED <<entry, args>>
           /\ \/ New \/ Build
              \/ ScanEncoder \/ ScanRaw \/ ext_decoder_init_scanargs
              \/ TooLong \/ Dereference \/ Copy \/ Terminate \/ Coder
              \/ UNCHANGED vars
<1>1. Next \/ UNCHANGED vars
    OBVIOUS
<1>2. CASE Coder
    <2>1. UNCHANGED <<entry, args>>
        BY <1>2 DEF Coder, encoder_init, rawencoder_init, rawdecoder_init,
           decoder_init, autodecoder_init, Attempt
    <2>. QED  BY <1>2, <2>1
<1>3. CASE New \/ Build
    <2>1. UNCHANGED <<entry, args>>
        BY <1>3, BuildStep DEF Passes, Raises
    <2>. QED  BY <1>3, <2>1
<1>4. CASE ~Coder /\ ~New /\ ~Build
    BY <1>1, <1>4 DEF Next, Coder, ScanEncoder, ScanRaw, TooLong, Dereference, Copy,
       Terminate, ext_decoder_init_scanargs, Raises, vars
<1>. QED  BY <1>2, <1>3, <1>4

\* Every step keeps the types.
LEMMA TypeStep ==
    ASSUME TypeOK, Stages, ArgvInv, ChainInv, CopyInv, [Next]_vars
    PROVE  TypeOK'
<1>0. entry' = entry /\ args' = args
    BY Steps
<1>. USE <1>0 DEF Outcomes
<1>1. CASE New \/ Build
    <2>1. CASE \E v : Handed(v) /\ Passes(v)
        <3>1. PICK v : Handed(v) /\ Passes(v)
            BY <2>1
        <3>2. argv' = v \o Keywords
            BY <3>1 DEF Passes
        <3>3. /\ v \in Seq(Values \union Made) /\ args \in Seq(Values)
            BY <3>1, HandedTypes DEF TypeOK
        <3>4. Keywords \in Seq(Values \union Made)
            <4>1. CASE entry = "encoder"
                <5>1. PICK h \in Hashes : Keywords = <<h>>
                    BY <3>3, <4>1, ArgsShape
                <5>2. h \in Values \union Made
                    BY DEF Values
                <5>. QED  BY <5>1, <5>2
            <4>2. CASE entry # "encoder"
                BY <3>3, <4>2, ArgsShape, EmptySeq
            <4>. QED  BY <4>1, <4>2
        <3>5. argv' \in Seq(Values \union Made)
            BY <3>2, <3>3, <3>4, ConcatProperties
        <3>. QED  BY <3>1, <3>5 DEF Passes, TypeOK
    <2>2. CASE Raises("ArgumentError")
        BY <2>2 DEF Raises, Ends, TypeOK
    <2>. QED  BY <1>1, <2>1, <2>2, BuildStep
<1>2. CASE ScanEncoder
    <2>1. CASE \E e \in {"ArgumentError", "TypeError"} : Raises(e)
        BY <2>1 DEF Raises, Ends, TypeOK
    <2>2. CASE /\ chain' = Counted /\ pc' = "setup"
               /\ check' = IF HasOpts THEN conv_checkmethod(Last(argv)) ELSE "CRC64"
               /\ UNCHANGED <<entry, args, argv, filterpack, attempts, status,
                              outcome>>
        <3>1. Counted \in Seq(Values \union Made)
            <4>1. PICK v : Handed(v) /\ argv = v \o Keywords
                BY <1>2 DEF ScanEncoder, ArgvInv
            <4>. QED  BY <4>1, ScannedShape DEF TypeOK
        <3>2. check' \in {"", "NONE", "CRC32", "CRC64", "SHA256", "number"}
            BY <2>2 DEF conv_checkmethod
        <3>. QED  BY <2>2, <3>1, <3>2 DEF TypeOK
    <2>. QED  BY <1>2, <2>1, <2>2 DEF ScanEncoder
<1>3. CASE \/ ScanRaw \/ ext_decoder_init_scanargs \/ TooLong
           \/ Dereference \/ Terminate
    BY <1>3 DEF ScanRaw, ext_decoder_init_scanargs, TooLong, Dereference,
       Terminate, Raises, Ends, TypeOK
<1>4. CASE Copy
    <2>. DEFINE f == chain[Len(filterpack) + 1]
    <2>1. CASE Raises("TypeError")
        BY <2>1 DEF Raises, Ends, TypeOK
    <2>2. CASE /\ IsFilter(f) /\ filterpack' = Append(filterpack, f)
               /\ UNCHANGED <<entry, args, argv, pc, chain, check, attempts,
                              status, outcome>>
        <3>1. /\ Len(filterpack) \in Nat /\ Len(chain) \in Nat
              /\ Len(filterpack) < Len(chain) /\ Len(chain) <= FiltersMax
            BY <1>4, LenProperties DEF Copy, TypeOK
        <3>2. Len(filterpack) + 1 \in 1 .. Len(chain)
            BY <3>1
        <3>3. f \in Filters \union {Blank} \union Made
            BY <2>2, <3>2, ElementOfSeq, Kinds DEF TypeOK
        <3>4. /\ Append(filterpack, f) \in Seq(Filters \union {Blank} \union Made)
              /\ Len(Append(filterpack, f)) = Len(filterpack) + 1
            BY <3>3, AppendProperties DEF TypeOK
        <3>5. Len(filterpack') <= FiltersMax
            BY <2>2, <3>1, <3>4 DEF FiltersMax
        <3>. QED  BY <2>2, <3>4, <3>5 DEF TypeOK
    <2>. QED  BY <1>4, <2>1, <2>2 DEF Copy
<1>5. CASE Coder
    <2>1. /\ status' \in DOMAIN lookup_exception /\ attempts' \in 1 .. 2
          /\ UNCHANGED <<entry, args, argv, chain, filterpack, check>>
          /\ pc' \in {"init", "end"}
          /\ outcome' \in {"", "done"} \union DOMAIN STATUS
        BY <1>5, CoderStep
    <2>2. \A n \in 1 .. 2 : n \in 0 .. 2
        OBVIOUS
    <2>. QED  BY <2>1, <2>2 DEF TypeOK
<1>6. CASE UNCHANGED vars
    BY <1>6 DEF vars, TypeOK
<1>. QED  BY <1>1, <1>2, <1>3, <1>4, <1>5, <1>6, Steps

\* Every step keeps the order of the stages.
LEMMA StagesStep ==
    ASSUME TypeOK, Stages, [Next]_vars
    PROVE  Stages'
<1>1. CASE New \/ Build
    BY <1>1, BuildStep DEF Passes, Raises, Ends, Stages
<1>2. CASE ScanEncoder \/ ScanRaw \/ TooLong \/ Dereference \/ Copy
    BY <1>2 DEF ScanEncoder, ScanRaw, TooLong, Dereference, Copy, Raises, Ends,
       Stages
<1>3. CASE ext_decoder_init_scanargs \/ Terminate
    <2>1. attempts = 0 /\ outcome = ""
        BY <1>3 DEF ext_decoder_init_scanargs, Terminate, Stages
    <2>2. attempts' = attempts /\ pc' \in {"init", "end"}
          /\ (pc' = "init" => outcome' = outcome)
        BY <1>3 DEF ext_decoder_init_scanargs, Terminate, Raises, Ends
    <2>3. \A n : n = 0 => n <= 1
        OBVIOUS
    <2>4. attempts' <= 1
        BY <2>1, <2>2, <2>3
    <2>. QED  BY <2>1, <2>2, <2>4 DEF Stages
<1>4. CASE Coder
    <2>1. pc' = "init" => outcome' = "" /\ attempts' = 1
        BY <1>4, CoderStep, Exceptions
    <2>2. pc' \in {"init", "end"}
        BY <1>4, CoderStep
    <2>3. attempts' = 1 => attempts' <= 1
        OBVIOUS
    <2>. QED  BY <2>1, <2>2, <2>3 DEF Stages
<1>5. CASE UNCHANGED vars
    BY <1>5 DEF vars, Stages
<1>. QED  BY <1>1, <1>2, <1>3, <1>4, <1>5, Steps

\* argv stays what was handed on.
LEMMA ArgvStep ==
    ASSUME TypeOK, Stages, ArgvInv, [Next]_vars
    PROVE  ArgvInv'
<1>0. UNCHANGED <<entry, args>>
    BY Steps
<1>1. CASE New \/ Build
    <2>1. CASE \E v : Handed(v) /\ Passes(v)
        <3>1. PICK v : Handed(v) /\ argv' = v \o Keywords
            BY <2>1 DEF Passes
        <3>2. v = Positional \/ \E m \in Made : v = <<m>>
            BY <3>1, HandedTypes DEF TypeOK
        <3>3. v \in {Positional'} \union {<<m>> : m \in Made}
              /\ Handed(v)' /\ argv' = v \o Keywords'
            BY <1>0, <3>1, <3>2, SameCall DEF Made
        <3>. QED  BY <3>3 DEF ArgvInv, Made
    <2>2. CASE Raises("ArgumentError")
        BY <2>2 DEF Raises, Ends, ArgvInv
    <2>. QED  BY <1>1, <2>1, <2>2, BuildStep
<1>2. CASE ~New /\ ~Build
    <2>1. argv' = argv
        BY <1>2, Steps, CoderStep DEF ScanEncoder, ScanRaw, TooLong, Dereference,
           Copy, Terminate, ext_decoder_init_scanargs, Raises, vars
    <2>2. pc' \in {"scan", "setup", "init"} \/ outcome' = "done" =>
              pc \in {"scan", "setup", "init"} \/ outcome = "done"
        <3>1. CASE Coder
            BY <3>1, CoderStep
        <3>2. CASE ~Coder
            BY <1>2, <3>2, Steps DEF ScanEncoder, ScanRaw, TooLong, Dereference,
               Copy, Terminate, ext_decoder_init_scanargs, Raises, Ends, vars
        <3>. QED  BY <3>1, <3>2
    <2>. QED  BY <1>0, <2>1, <2>2, SameCall DEF ArgvInv, Made
<1>. QED  BY <1>1, <1>2

\* The chain stays what the scanning made of argv.
LEMMA ChainStep ==
    ASSUME TypeOK, Stages, ArgvInv, ChainInv, [Next]_vars
    PROVE  ChainInv'
<1>0. UNCHANGED <<entry, args>> /\ Class' = Class
    BY Steps, SameCall
<1>1. CASE New \/ Build
    BY <1>1, BuildStep DEF Passes, Raises, Ends, Stages, ChainInv
<1>2. CASE ScanEncoder
    <2>1. CASE \E e \in {"ArgumentError", "TypeError"} : Raises(e)
        BY <2>1 DEF Raises, Ends, ChainInv
    <2>2. CASE /\ Scanned \in 1 .. FiltersMax
               /\ ~(HasOpts /\ Last(argv).check = "bad")
               /\ chain' = Counted
               /\ check' = IF HasOpts THEN conv_checkmethod(Last(argv)) ELSE "CRC64"
               /\ UNCHANGED argv
        <3>1. HasOpts' = HasOpts /\ Counted' = Counted /\ Scanned' = Scanned
            BY <2>2, SameArgv
        <3>2. Class = "Encoder" /\ Class \in TakesChain
            BY <1>2 DEF ScanEncoder, TakesChain
        <3>. QED  BY <1>0, <2>2, <3>1, <3>2 DEF ChainInv
    <2>. QED  BY <1>2, <2>1, <2>2 DEF ScanEncoder
<1>3. CASE ScanRaw
    <2>1. Class \in TakesChain /\ Class # "Encoder"
        BY <1>3 DEF ScanRaw, TakesChain
    <2>2. CASE Raises("ArgumentError")
        BY <2>2 DEF Raises, Ends, ChainInv
    <2>3. CASE Len(argv) \in 1 .. FiltersMax /\ chain' = argv /\ UNCHANGED argv
        BY <1>0, <2>1, <2>3 DEF ChainInv
    <2>. QED  BY <1>3, <2>2, <2>3 DEF ScanRaw
<1>4. CASE ext_decoder_init_scanargs
    <2>1. Class \notin TakesChain
        BY <1>4 DEF ext_decoder_init_scanargs, TakesChain
    <2>2. pc' # "setup"
        BY <1>4 DEF ext_decoder_init_scanargs, Raises, Ends
    <2>. QED  BY <1>0, <2>1, <2>2 DEF ChainInv
<1>5. CASE \/ TooLong \/ Dereference \/ Copy \/ Terminate \/ Coder
           \/ UNCHANGED vars
    <2>1. UNCHANGED <<argv, chain, check>>
        BY <1>5, CoderStep DEF TooLong, Dereference, Copy, Terminate, Raises,
           vars
    <2>2. HasOpts' = HasOpts /\ Counted' = Counted /\ Scanned' = Scanned
        BY <2>1, SameArgv
    <2>3. pc' = "setup" => pc = "setup"
        BY <1>5, CoderStep DEF TooLong, Dereference, Copy, Terminate,
               Raises, Ends, vars
    <2>4. pc' = "init" \/ outcome' = "done" =>
              pc \in {"setup", "init"} \/ outcome = "done"
        <3>1. CASE Coder
            BY <3>1, CoderStep
        <3>2. CASE ~Coder
            BY <1>5, <3>2 DEF TooLong, Dereference, Copy, Terminate,
               Raises, Ends, vars
        <3>. QED  BY <3>1, <3>2
    <2>. QED  BY <1>0, <2>1, <2>2, <2>3, <2>4 DEF ChainInv
<1>. QED  BY <1>1, <1>2, <1>3, <1>4, <1>5, Steps

\* filterpack stays the front of the chain.
LEMMA CopyStep ==
    ASSUME TypeOK, Stages, ChainInv, CopyInv, TypeOK', [Next]_vars
    PROVE  CopyInv'
<1>0. Class' = Class /\ Len(chain) \in Nat /\ Len(chain') \in Nat
    BY Steps, SameCall, LenProperties DEF TypeOK
<1>1. ASSUME filterpack' = <<>>, outcome' # "done",
             Class \in TakesChain => pc' # "init"
      PROVE  CopyInv'
    <2>1. Len(filterpack') = 0 /\ DOMAIN filterpack' = {}
        BY <1>1, EmptySeq
    <2>. QED  BY <1>0, <1>1, <2>1 DEF CopyInv
<1>2. CASE New \/ Build
    BY <1>1, <1>2, BuildStep DEF Passes, Raises, Ends, Stages
<1>3. CASE ScanEncoder \/ ScanRaw
    BY <1>1, <1>3 DEF ScanEncoder, ScanRaw, Raises, Ends, Stages
<1>4. CASE ext_decoder_init_scanargs
    <2>1. Class \notin TakesChain
        BY <1>4 DEF ext_decoder_init_scanargs, TakesChain
    <2>. QED
        BY <1>1, <1>4, <2>1
           DEF ext_decoder_init_scanargs, Raises, Ends, Stages
<1>5. CASE Copy
    <2>. DEFINE f == chain[Len(filterpack) + 1]
    <2>0. outcome = "" /\ pc = "setup"
        BY <1>5 DEF Copy, Stages
    <2>3. Len(filterpack) < Len(chain) /\ Len(chain) \in Nat
        BY <1>0, <1>5 DEF Copy
    <2>1. CASE Raises("TypeError")
        BY <1>0, <2>1 DEF Raises, Ends, CopyInv
    <2>2. CASE /\ IsFilter(f) /\ filterpack' = Append(filterpack, f)
               /\ UNCHANGED <<pc, chain, outcome>>
        <3>1. Len(filterpack) \in Nat /\ filterpack \in Seq(Values \union Made)
            <4>1. Filters \union {Blank} \union Made \subseteq Values \union Made
                BY DEF Values
            <4>. QED  BY <4>1, LenProperties, SeqMonotonic DEF TypeOK
        <3>2. Len(filterpack) + 1 \in 1 .. Len(chain)
            BY <2>3, <3>1
        <3>3. f \in Values \union Made
            BY <3>2, ElementOfSeq DEF TypeOK
        <3>4. /\ filterpack' \in Seq(Values \union Made)
              /\ Len(filterpack') = Len(filterpack) + 1
              /\ \A i \in 1 .. Len(filterpack) : filterpack'[i] = filterpack[i]
              /\ filterpack'[Len(filterpack) + 1] = f
            BY <2>2, <3>1, <3>3, AppendProperties
        <3>5. /\ DOMAIN filterpack' = 1 .. Len(filterpack) + 1
              /\ DOMAIN filterpack = 1 .. Len(filterpack)
            BY <3>1, <3>4, LenProperties
        <3>6. ASSUME NEW i \in DOMAIN filterpack'
              PROVE  filterpack'[i] = chain[i] /\ IsFilter(chain[i])
            <4>1. i \in DOMAIN filterpack \/ i = Len(filterpack) + 1
                BY <3>1, <3>5
            <4>. QED  BY <2>2, <3>4, <3>5, <4>1 DEF CopyInv
        <3>7. Len(filterpack) + 1 <= Len(chain)
            BY <2>3, <3>1
        <3>8. Len(filterpack') <= Len(chain')
            BY <2>2, <3>4, <3>7
        <3>. QED
            BY <2>0, <2>2, <3>6, <3>8 DEF CopyInv, IsFilter, Made
    <2>. QED  BY <1>5, <2>1, <2>2 DEF Copy
<1>6. CASE Terminate
    BY <1>0, <1>6 DEF Terminate, CopyInv, IsFilter, Made
<1>7. CASE TooLong \/ Dereference \/ Coder \/ UNCHANGED vars
    <2>1. UNCHANGED <<filterpack, chain>>
        BY <1>7, CoderStep DEF TooLong, Dereference, Raises, vars
    <2>2. pc' = "init" \/ outcome' = "done" => pc = "init" \/ outcome = "done"
        <3>1. CASE Coder
            BY <3>1, CoderStep
        <3>2. CASE ~Coder
            BY <1>7, <3>2 DEF TooLong, Dereference, Raises, Ends, vars
        <3>. QED  BY <3>1, <3>2
    <2>. QED  BY <1>0, <2>1, <2>2 DEF CopyInv, IsFilter, Made
<1>. QED  BY <1>2, <1>3, <1>4, <1>5, <1>6, <1>7, Steps

\* A chain that is too long for filterpack comes from a nil behind four other
\* arguments of an Encoder, and never from a documented call.
LEMMA LongChain ==
    ASSUME TypeOK, ArgvInv, ChainInv, TooLong
    PROVE  /\ Class = "Encoder" /\ Len(argv) = 5 /\ argv[5] = Nil
           /\ ~ProperCall
<1>1. PICK v : Handed(v) /\ argv = v \o Keywords
    BY DEF TooLong, ArgvInv
<1>2. /\ Class \in TakesChain
      /\ Class = "Encoder" => chain = Counted /\ Scanned \in 1 .. FiltersMax
      /\ Class # "Encoder" => chain = argv /\ Len(argv) \in 1 .. FiltersMax
    BY DEF TooLong, ChainInv
<1>3. Len(argv) \in Nat /\ Len(chain) \in Nat /\ argv \in Seq(Values \union Made)
      /\ args \in Seq(Values)
    BY LenProperties DEF TypeOK
<1>4. Len(chain) > FiltersMax
    BY DEF TooLong
<1>5. \A n \in 1 .. FiltersMax : ~(n > FiltersMax)
    BY DEF FiltersMax
<1>6. Class = "Encoder" /\ chain = Counted /\ Scanned \in 1 .. FiltersMax
    BY <1>2, <1>4, <1>5
<1>7. ~HasOpts
    <2>. SUFFICES ASSUME HasOpts
                  PROVE  FALSE
        OBVIOUS
    <2>0. Len(argv) > 1
        BY DEF HasOpts
    <2>1. Len(argv) # 0
        BY <1>3, <2>0
    <2>2. argv # <<>>
        BY <2>1, EmptySeq
    <2>3. Counted = Front(argv) /\ Scanned = Len(argv) - 1
        BY DEF Counted, Scanned
    <2>4. Len(Counted) = Scanned
        BY <1>3, <2>2, <2>3, FrontAndLast
    <2>. QED  BY <1>4, <1>5, <1>6, <2>4
<1>8. chain = argv
    BY <1>6, <1>7 DEF Counted
<1>9. Len(argv) = FiltersMax + 1 /\ Last(argv) = Nil
    BY <1>4, <1>5, <1>6, <1>7, <1>8 DEF Scanned
<1>10. Len(argv) = 5 /\ argv[5] = Nil
    BY <1>9 DEF FiltersMax, Last
<1>11. ~ProperCall
    <2>1. ProperCall => Proper(chain)
        BY <1>1, <1>3, <1>6, ProperScan
    <2>. QED  BY <1>4, <1>5, <2>1 DEF Proper
<1>. QED  BY <1>6, <1>10, <1>11

\* A documented call hands no filter to liblzma that was never initialized.
LEMMA NoOptionsCall ==
    ASSUME TypeOK, ArgvInv, ChainInv, CopyInv, Dereference
    PROVE  /\ Class \in {"RawEncoder", "RawDecoder"} /\ NoOptions
           /\ ~ProperCall
<1>1. /\ Class \in {"RawEncoder", "RawDecoder"} /\ NoOptions /\ pc = "init"
      /\ Class \in TakesChain /\ Class # "Encoder"
    BY DEF Dereference, TakesChain
<1>2. PICK v : Handed(v) /\ argv = v \o Keywords
    BY <1>1 DEF ArgvInv
<1>3. filterpack = argv
    BY <1>1 DEF ChainInv, CopyInv
<1>4. ProperCall => Proper(argv)
    BY <1>1, <1>2, ProperScan DEF TypeOK
<1>5. PICK i \in DOMAIN argv : argv[i] = Blank
    BY <1>1, <1>3 DEF NoOptions, ToSet
<1>6. Blank \notin Filters
    BY ArgumentsAssumption
<1>7. ~Proper(argv)
    BY <1>5, <1>6 DEF Proper
<1>. QED  BY <1>1, <1>4, <1>7

\* Every step keeps what an exception says.
LEMMA OutcomeStep ==
    ASSUME TypeOK, Stages, ArgvInv, ChainInv, CopyInv, OutcomeInv, [Next]_vars
    PROVE  OutcomeInv'
<1>0. Class' = Class /\ ProperCall' = ProperCall
    BY Steps, SameCall
<1>1. ASSUME outcome' = ""
      PROVE  OutcomeInv'
    BY <1>1, Exceptions DEF OutcomeInv, CrashNeedsMisuse
<1>2. ASSUME outcome' \in {"TypeError", "ArgumentError"}, ~ProperCall
      PROVE  OutcomeInv'
    BY <1>0, <1>2, Exceptions DEF OutcomeInv, CrashNeedsMisuse
<1>3. CASE New \/ Build
    <2>1. CASE \E v : Passes(v)
        BY <1>1, <1>3, <2>1, BuildStep DEF Passes, Stages
    <2>2. CASE /\ entry \in Factories /\ Positional = <<BadNum>>
               /\ Raises("ArgumentError")
        <3>1. ~ProperCall
            BY <2>2, ProperPositional DEF TypeOK
        <3>. QED  BY <1>2, <2>2, <3>1 DEF Raises, Ends
    <2>. QED  BY <1>3, <2>1, <2>2, BuildStep
<1>4. CASE ScanEncoder \/ ScanRaw
    <2>1. PICK v : Handed(v) /\ argv = v \o Keywords
        BY <1>4 DEF ScanEncoder, ScanRaw, ArgvInv
    <2>2. outcome = ""
        BY <1>4 DEF ScanEncoder, ScanRaw, Stages
    <2>3. CASE UNCHANGED outcome
        BY <1>1, <2>2, <2>3
    <2>4. CASE ScanEncoder /\ ~UNCHANGED outcome
        <3>1. /\ outcome' \in {"TypeError", "ArgumentError"}
              /\ Scanned \notin 1 .. FiltersMax \/ (HasOpts /\ Last(argv).check = "bad")
              /\ Class = "Encoder"
            BY <2>4 DEF ScanEncoder, Raises, Ends
        <3>2. ~ProperCall
            BY <2>1, <3>1, ProperScan DEF TypeOK
        <3>. QED  BY <1>2, <3>1, <3>2
    <2>5. CASE ScanRaw /\ ~UNCHANGED outcome
        <3>1. /\ outcome' = "ArgumentError" /\ Len(argv) \notin 1 .. FiltersMax
              /\ Class # "Encoder"
            BY <2>5 DEF ScanRaw, Raises, Ends
        <3>2. ~ProperCall
            BY <2>1, <3>1, ProperScan DEF TypeOK, Proper
        <3>. QED  BY <1>2, <3>1, <3>2
    <2>. QED  BY <1>4, <2>3, <2>4, <2>5
<1>5. CASE ext_decoder_init_scanargs
    <2>1. Class \notin TakesChain /\ Class # "Encoder"
        BY <1>5 DEF ext_decoder_init_scanargs, TakesChain
    <2>2. ~ProperCall
        BY <2>1 DEF ProperCall
    <2>. QED
        BY <1>1, <1>2, <1>5, <2>2
           DEF ext_decoder_init_scanargs, Raises, Ends, Stages
<1>6. CASE TooLong
    <2>1. outcome' = "crash" /\ argv' = argv
        BY <1>6 DEF TooLong, Raises, Ends
    <2>. QED
        BY <1>0, <1>6, <2>1, LongChain, Exceptions DEF OutcomeInv, CrashNeedsMisuse
<1>7. CASE Copy
    <2>. DEFINE f == chain[Len(filterpack) + 1]
    <2>1. CASE ~IsFilter(f) /\ Raises("TypeError")
        <3>1. PICK v : Handed(v) /\ argv = v \o Keywords
            BY <1>7 DEF Copy, ArgvInv
        <3>2. /\ Class \in TakesChain
              /\ Class = "Encoder" => chain = Counted
              /\ Class # "Encoder" => chain = argv
            BY <1>7 DEF Copy, ChainInv
        <3>3. ProperCall => Proper(chain)
            BY <3>1, <3>2, ProperScan DEF TypeOK
        <3>4. Len(filterpack) \in Nat /\ Len(chain) \in Nat
              /\ Len(filterpack) < Len(chain)
            BY <1>7, LenProperties DEF Copy, TypeOK
        <3>5. Len(filterpack) + 1 \in 1 .. Len(chain)
            BY <3>4
        <3>6. DOMAIN chain = 1 .. Len(chain)
            BY LenProperties DEF TypeOK
        <3>7. ~Proper(chain)
            BY <2>1, <3>5, <3>6 DEF Proper, IsFilter
        <3>. QED  BY <1>2, <2>1, <3>3, <3>7 DEF Raises, Ends
    <2>2. CASE UNCHANGED outcome
        BY <1>1, <1>7, <2>2 DEF Copy, Stages
    <2>. QED  BY <1>7, <2>1, <2>2 DEF Copy
<1>8. CASE Terminate
    BY <1>1, <1>8 DEF Terminate, Stages
<1>9. CASE Coder
    <2>1. \/ outcome' = ""
          \/ outcome' = "done"
          \/ outcome' \in DOMAIN STATUS /\ STATUS[outcome'] = status'
        BY <1>9, CoderStep
    <2>. QED  BY <1>1, <2>1, Exceptions DEF OutcomeInv, CrashNeedsMisuse
<1>10. CASE UNCHANGED vars
    BY <1>0, <1>10 DEF vars, OutcomeInv, CrashNeedsMisuse, NoOptions, STATUS
<1>11. CASE Dereference
    <2>1. outcome' = "crash" /\ filterpack' = filterpack
        BY <1>11 DEF Dereference, Raises, Ends
    <2>. QED
        BY <1>0, <1>11, <2>1, NoOptionsCall, Exceptions
           DEF OutcomeInv, CrashNeedsMisuse, NoOptions
<1>. QED
    BY <1>3, <1>4, <1>5, <1>6, <1>7, <1>8, <1>9, <1>10, <1>11, Steps

-----------------------------------------------------------------------------
\* A call that has not begun has copied nothing and raised nothing.
LEMMA InitInv ==
    Init => IInv
<1>. SUFFICES ASSUME Init
              PROVE  IInv
    OBVIOUS
<1>1. TypeOK
    <2>1. args \in Seq(Values)
        BY ArgumentsAssumption DEF Init
    <2>2. 0 <= FiltersMax /\ 0 \in 0 .. 2
        BY DEF FiltersMax
    <2>3. filterpack = <<>> /\ argv = <<>> /\ chain = <<>> /\ attempts = 0
        BY DEF Init
    <2>4. Len(filterpack) <= FiltersMax /\ attempts \in 0 .. 2
        BY <2>2, <2>3, EmptySeq
    <2>5. /\ argv \in Seq(Values \union Made) /\ chain \in Seq(Values \union Made)
          /\ filterpack \in Seq(Filters \union {Blank} \union Made)
        BY <2>3, EmptySeq
    <2>6. status \in DOMAIN lookup_exception /\ outcome \in Outcomes
        BY Exceptions DEF Init, Outcomes
    <2>. QED  BY <2>1, <2>4, <2>5, <2>6 DEF Init, TypeOK
<1>2. CopyInv
    <2>0. filterpack = <<>> /\ chain = <<>>
        BY DEF Init
    <2>1. Len(filterpack) <= Len(chain) /\ DOMAIN filterpack = {}
        <3>1. 0 <= 0
            OBVIOUS
        <3>2. Len(filterpack) = 0 /\ Len(chain) = 0 /\ DOMAIN filterpack = {}
            BY <2>0, EmptySeq
        <3>. QED  BY <3>1, <3>2
    <2>. QED  BY <2>1 DEF Init, CopyInv
<1>3. OutcomeInv
    BY Exceptions DEF Init, OutcomeInv, CrashNeedsMisuse
<1>. QED  BY <1>1, <1>2, <1>3 DEF Init, IInv, Stages, ArgvInv, ChainInv

\* The invariant holds throughout every call.
LEMMA Invariance ==
    Spec => []IInv
<1>1. IInv /\ [Next]_vars => IInv'
    BY TypeStep, StagesStep, ArgvStep, ChainStep, CopyStep, OutcomeStep
       DEF IInv
<1>. QED  BY InitInv, <1>1, PTL DEF Spec

\* Every variable keeps its type (TypeOK): filterpack never holds anything
\* but filters, and never more than LZMA_FILTERS_MAX of them.
THEOREM ArgumentTypes ==
    Spec => []TypeOK
BY Invariance, PTL DEF IInv

\* A documented call (ProperCallBuilds) is refused by liblzma or by nothing,
\* and the exception carries the status liblzma returned; it never crashes.
THEOREM ProperCalls ==
    Spec => []ProperCallBuilds
<1>1. IInv => ProperCallBuilds
    BY Exceptions DEF IInv, TypeOK, Outcomes, OutcomeInv, ProperCallBuilds
<1>. QED  BY <1>1, Invariance, PTL

\* Only a nil behind four arguments of an Encoder and a filter that was never
\* initialized bring the process down (CrashNeedsMisuse).
THEOREM CrashOnlyFromMisuse ==
    Spec => []CrashNeedsMisuse
<1>1. IInv => CrashNeedsMisuse
    BY DEF IInv, OutcomeInv
<1>. QED  BY <1>1, Invariance, PTL

-----------------------------------------------------------------------------
(* A coder that was built.                                                 *)

\* The chain of a coder that was built, and where it came from.
LEMMA Built ==
    ASSUME IInv, outcome = "done", Class \in TakesChain
    PROVE  /\ \E v : Handed(v) /\ argv = v \o Keywords
           /\ args \in Seq(Values) /\ argv \in Seq(Values \union Made)
           /\ filterpack \in Seq(Filters \union {Blank} \union Made)
           /\ \A i \in DOMAIN filterpack : IsFilter(filterpack[i])
           /\ Class = "Encoder" =>
                 /\ filterpack = Counted
                 /\ check = IF HasOpts THEN conv_checkmethod(Last(argv)) ELSE "CRC64"
                 /\ HasOpts => Last(argv).check # "bad"
           /\ Class # "Encoder" => filterpack = argv
<1>1. \A i \in DOMAIN filterpack : IsFilter(filterpack[i])
    BY DEF IInv, CopyInv, IsFilter
<1>2. filterpack = chain
    BY DEF IInv, CopyInv
<1>3. \E v : Handed(v) /\ argv = v \o Keywords
    BY DEF IInv, ArgvInv
<1>. QED  BY <1>1, <1>2, <1>3 DEF IInv, TypeOK, ChainInv

\* In a call of Encoder.new that built something, a Hash at the end is the
\* keyword arguments.
LEMMA BuiltByNew ==
    ASSUME IInv, outcome = "done", entry = "Encoder"
    PROVE  /\ Class = "Encoder" /\ argv = args
           /\ HasOpts <=> HasHash(args)
<1>1. Class = "Encoder" /\ Class \in TakesChain
    BY DEF Class, ClassOf, Factories, TakesChain
<1>2. PICK v : Handed(v) /\ argv = v \o Keywords
    BY <1>1, Built
<1>3. argv = args
    BY <1>1, <1>2, Built, ScannedShape
<1>4. args \in Seq(Values) /\ Len(args) \in Nat /\ DOMAIN args = 1 .. Len(args)
    BY <1>1, Built, LenProperties
<1>5. HasOpts => HasHash(args)
    <2>1. Len(args) > 1 => Len(args) # 0
        BY <1>4
    <2>. QED  BY <1>3, <2>1, EmptySeq DEF HasOpts, HasHash
<1>6. ASSUME HasHash(args), ~HasOpts
      PROVE  FALSE
    <2>1. args # <<>> /\ Last(args) \in Hashes
        BY <1>6 DEF HasHash
    <2>2. Last(args) = args[Len(args)] /\ Len(args) \in Nat \ {0}
        BY <1>4, <2>1, FrontAndLast
    <2>3. Len(args) \in 1 .. Len(args)
        BY <2>2
    <2>4. filterpack = args
        BY <1>1, <1>3, <1>6, Built DEF Counted
    <2>5. IsFilter(Last(args))
        BY <1>1, <1>4, <2>2, <2>3, <2>4, Built
    <2>. QED  BY <2>1, <2>5, Kinds
<1>. QED  BY <1>1, <1>3, <1>5, <1>6

\* What a Hash says of :check is one of the seven.
LEMMA Asked ==
    ASSUME NEW h \in Hashes, h.check # "bad"
    PROVE  <<h.check, conv_checkmethod(h)>> \in
               {<<"missing", "CRC64">>, <<"crc64", "CRC64">>,
                <<"nil", "NONE">>, <<"none", "NONE">>,
                <<"crc32", "CRC32">>, <<"sha256", "SHA256">>,
                <<"number", "number">>}
<1>1. h.check \in {"missing", "nil", "none", "crc32", "crc64", "sha256", "number"}
    BY DEF Hashes, Checks
<1>. QED  BY <1>1 DEF conv_checkmethod

\* An Encoder has the integrity check it was asked for (CheckIsGiven).
THEOREM AskedCheck ==
    Spec => []CheckIsGiven
<1>1. ASSUME IInv, outcome = "done", Class = "Encoder"
      PROVE  LET asked == IF HasHash(args) THEN Last(args).check ELSE "missing"
             IN  <<asked, check>> \in
                     {<<"missing", "CRC64">>, <<"crc64", "CRC64">>,
                      <<"nil", "NONE">>, <<"none", "NONE">>,
                      <<"crc32", "CRC32">>, <<"sha256", "SHA256">>,
                      <<"number", "number">>}
    <2>0. Class \in TakesChain
        BY <1>1 DEF TakesChain
    <2>1. PICK v : Handed(v) /\ argv = v \o Keywords
        BY <1>1, <2>0, Built
    <2>2. /\ args \in Seq(Values)
          /\ check = IF HasOpts THEN conv_checkmethod(Last(argv)) ELSE "CRC64"
          /\ HasOpts => Last(argv).check # "bad"
        BY <1>1, <2>0, Built
    <2>3. CASE entry = "encoder"
        <3>1. HasOpts /\ Last(argv) \in Hashes /\ Keywords = <<Last(argv)>>
            BY <2>1, <2>2, <2>3, ArgvShape
        <3>2. PICK h \in Hashes :
                  /\ Keywords = <<h>>
                  /\ \/ HasHash(args) /\ h = Last(args)
                     \/ ~HasHash(args) /\ h.check = "missing"
            BY <2>2, <2>3, ArgsShape
        <3>3. h = Last(argv)
            BY <3>1, <3>2
        <3>4. (IF HasHash(args) THEN Last(args).check ELSE "missing") = h.check
            BY <3>2
        <3>5. check = conv_checkmethod(h) /\ h.check # "bad"
            BY <2>2, <3>1, <3>3
        <3>. QED  BY <3>4, <3>5, Asked
    <2>4. CASE entry = "Encoder"
        <3>1. argv = args /\ (HasOpts <=> HasHash(args))
            BY <1>1, <2>4, BuiltByNew
        <3>2. CASE HasOpts
            <4>1. HasHash(args) /\ Last(args) \in Hashes
                BY <3>1, <3>2 DEF HasHash
            <4>. QED  BY <2>2, <3>1, <3>2, <4>1, Asked
        <3>3. CASE ~HasOpts
            BY <2>2, <3>1, <3>3
        <3>. QED  BY <3>2, <3>3
    <2>. QED  BY <1>1, <2>1, <2>2, <2>3, <2>4, ScannedShape
<1>2. IInv => CheckIsGiven
    BY <1>1 DEF CheckIsGiven
<1>. QED  BY <1>2, Invariance, PTL

\* A list of filters is the filters of a list that begins with it, when
\* nothing follows or one value that is no filter.
LEMMA FrontFilters ==
    ASSUME NEW S, NEW p \in Seq(S), NEW s \in Seq(S),
           \A i \in DOMAIN p : IsFilter(p[i]),
           \A i \in 1 .. Len(p) : p[i] = s[i],
           \/ Len(s) = Len(p)
           \/ Len(s) = Len(p) + 1 /\ ~IsFilter(s[Len(p) + 1])
    PROVE  FiltersOf(p, s)
<1>1. /\ Len(p) \in Nat /\ DOMAIN p = 1 .. Len(p)
      /\ Len(s) \in Nat /\ DOMAIN s = 1 .. Len(s)
    BY LenProperties
<1>2. /\ DOMAIN p \subseteq DOMAIN s /\ ~(Len(p) + 1 \in DOMAIN p)
      /\ Len(p) + 1 # Len(p)
      /\ \A i \in DOMAIN s :
            i \in DOMAIN p \/ (i = Len(p) + 1 /\ Len(s) = Len(p) + 1)
    <2>1. ASSUME NEW n \in Nat, NEW k \in Nat, k = n \/ k = n + 1
          PROVE  /\ 1 .. n \subseteq 1 .. k /\ ~(n + 1 \in 1 .. n) /\ n + 1 # n
                 /\ \A i \in 1 .. k : i \in 1 .. n \/ (i = n + 1 /\ k = n + 1)
        BY <2>1
    <2>2. Len(s) = Len(p) \/ Len(s) = Len(p) + 1
        OBVIOUS
    <2>. QED  BY <1>1, <2>1, <2>2
<1>. DEFINE at == [i \in DOMAIN p |-> i]
<1>3. at \in [DOMAIN p -> DOMAIN s]
    BY <1>2
<1>4. \A i, j \in DOMAIN p : i < j => at[i] < at[j]
    OBVIOUS
<1>5. {at[i] : i \in DOMAIN p} = DOMAIN p
    OBVIOUS
<1>6. \A i \in DOMAIN s : IsFilter(s[i]) <=> i \in DOMAIN p
    <2>1. \A i \in DOMAIN p : p[i] = s[i]
        BY <1>1
    <2>2. TAKE i \in DOMAIN s
    <2>3. CASE i \in DOMAIN p
        BY <2>1, <2>3
    <2>4. CASE i \notin DOMAIN p
        <3>1. i = Len(p) + 1 /\ Len(s) = Len(p) + 1 /\ Len(s) # Len(p)
            BY <1>2, <2>4
        <3>. QED  BY <2>4, <3>1
    <2>. QED  BY <2>3, <2>4
<1>7. {i \in DOMAIN s : IsFilter(s[i])} = DOMAIN p
    BY <1>2, <1>6
<1>8. \A i \in DOMAIN p : p[i] = s[at[i]]
    BY <1>1
<1>. HIDE DEF at
<1>. QED  BY <1>3, <1>4, <1>5, <1>7, <1>8 DEF FiltersOf

\* A list without a filter.
LEMMA NoFilters ==
    ASSUME NEW S, NEW s \in Seq(S), \A i \in DOMAIN s : ~IsFilter(s[i])
    PROVE  FiltersOf(<<>>, s)
<1>. DEFINE at == [i \in {} |-> i]
<1>1. DOMAIN <<>> = {} /\ at \in [{} -> DOMAIN s]
    BY EmptySeq
<1>2. {at[i] : i \in {}} = {i \in DOMAIN s : IsFilter(s[i])}
    OBVIOUS
<1>. HIDE DEF at
<1>. QED  BY <1>1, <1>2 DEF FiltersOf

\* The filters copied are the positional arguments of the call.
LEMMA GivenChain ==
    ASSUME IInv, outcome = "done", Class \in TakesChain,
           Handed(Positional), argv = Positional \o Keywords
    PROVE  FiltersOf(filterpack, args)
<1>. DEFINE S == Values \union Made
<1>1. /\ args \in Seq(S) /\ argv \in Seq(S) /\ filterpack \in Seq(S)
      /\ args \in Seq(Values)
      /\ \A i \in DOMAIN filterpack : IsFilter(filterpack[i])
    <2>1. Filters \union {Blank} \union Made \subseteq S /\ Values \subseteq S
        BY DEF Values
    <2>. QED  BY <2>1, Built, SeqMonotonic
<1>2. Len(filterpack) \in Nat /\ Len(args) \in Nat
    BY <1>1, LenProperties
<1>3. CASE filterpack = args
    BY <1>1, <1>3, FrontFilters
<1>4. CASE \E h \in Hashes : args = filterpack \o <<h>>
    <2>1. PICK h \in Hashes : args = filterpack \o <<h>>
        BY <1>4
    <2>2. h \in S
        BY DEF Values
    <2>3. /\ Len(args) = Len(filterpack) + 1 /\ args[Len(filterpack) + 1] = h
          /\ \A i \in 1 .. Len(filterpack) : args[i] = filterpack[i]
        BY <1>1, <2>1, <2>2, OneMore
    <2>4. ~IsFilter(h)
        BY Kinds
    <2>. QED  BY <1>1, <2>3, <2>4, FrontFilters
<1>5. CASE entry = "encoder"
    <2>1. Class = "Encoder"
        BY <1>5 DEF Class, ClassOf, Factories
    <2>2. filterpack = Positional
        BY <1>1, <1>5, <2>1, Built, ArgvShape
    <2>3. args = Positional \/ \E h \in Hashes : args = Positional \o <<h>>
        BY <1>1, <1>5, ArgsShape
    <2>. QED  BY <1>3, <1>4, <2>2, <2>3
<1>6. CASE entry = "Encoder"
    <2>1. Class = "Encoder" /\ argv = args /\ filterpack = Counted
          /\ (HasOpts <=> HasHash(args))
        BY <1>6, Built, BuiltByNew
    <2>2. CASE ~HasOpts
        BY <1>3, <2>1, <2>2 DEF Counted
    <2>3. CASE HasOpts
        <3>1. /\ filterpack = Front(args) /\ args # <<>> /\ Last(args) \in Hashes
              /\ ~IsFilter(Last(args))
            BY <2>1, <2>3, Kinds DEF Counted, HasHash
        <3>2. /\ Len(filterpack) = Len(args) - 1 /\ Last(args) = args[Len(args)]
              /\ \A i \in 1 .. Len(args) - 1 : filterpack[i] = args[i]
            BY <1>1, <3>1, FrontAndLast
        <3>3. Len(args) = Len(filterpack) + 1
            BY <1>2, <3>2
        <3>. QED  BY <1>1, <3>1, <3>2, <3>3, FrontFilters
    <2>. QED  BY <2>2, <2>3
<1>7. CASE Class # "Encoder"
    <2>1. entry # "encoder" /\ filterpack = argv
        BY <1>7, Built DEF Class, ClassOf, Factories
    <2>2. Positional = args
        BY <1>1, <2>1, ArgsShape
    <2>3. argv = args
        BY <1>1, <2>1, <2>2, ArgvShape
    <2>. QED  BY <1>3, <2>1, <2>3
<1>8. Class = "Encoder" => entry \in {"encoder", "Encoder"}
    BY DEF Class, ClassOf, Factories
<1>. QED  BY <1>5, <1>6, <1>7, <1>8

\* The filter a factory made, when there was none among its arguments.
LEMMA MadeChain ==
    ASSUME IInv, outcome = "done", Class \in TakesChain,
           NEW m \in Made, argv = <<m>> \o Keywords, Handed(<<m>>),
           entry \in Factories,
           \/ Positional = <<>> /\ m.preset = Nil
           \/ Positional = <<Num>> /\ m.preset = Num
    PROVE  /\ FiltersOf(<<>>, args)
           /\ filterpack = <<m>>
           /\ m.preset = Num <=> Num \in ToSet(args)
<1>1. args \in Seq(Values) /\ DOMAIN args = 1 .. Len(args) /\ Len(args) \in Nat
    BY Built, LenProperties
<1>2. filterpack = <<m>>
    <2>1. CASE entry = "encoder"
        <3>1. Class = "Encoder"
            BY <2>1 DEF Class, ClassOf, Factories
        <3>. QED  BY <1>1, <2>1, <3>1, Built, ArgvShape
    <2>2. CASE entry # "encoder"
        <3>1. Class # "Encoder"
            BY <2>2 DEF Class, ClassOf, Factories
        <3>. QED  BY <1>1, <2>2, <3>1, Built, ArgvShape
    <2>. QED  BY <2>1, <2>2
<1>3. args = Positional \/ \E h \in Hashes : args = Positional \o <<h>>
    BY <1>1, ArgsShape
<1>4. Num \in Values /\ Num \notin Hashes /\ Num # Nil /\ ~IsFilter(Num)
    BY Kinds, ArgumentsAssumption DEF Values
<1>5. \A h \in Hashes : h \in Values /\ ~IsFilter(h)
    BY Kinds DEF Values
<1>6. \A x : <<x>>[1] = x /\ DOMAIN <<x>> = {1} /\ Len(<<x>>) = 1
    OBVIOUS
<1>7. CASE Positional = <<>>
    <2>1. \A i \in DOMAIN args : args[i] \in Hashes
        <3>1. CASE args = <<>>
            BY <3>1, EmptySeq
        <3>2. CASE \E h \in Hashes : args = <<>> \o <<h>>
            <4>1. PICK h \in Hashes : args = <<>> \o <<h>>
                BY <3>2
            <4>2. <<h>> \in Seq(Values)
                BY <1>5
            <4>3. args = <<h>>
                BY <4>1, <4>2, ConcatEmptySeq
            <4>. QED  BY <1>6, <4>3
        <3>. QED  BY <1>3, <1>7, <3>1, <3>2
    <2>2. FiltersOf(<<>>, args)
        BY <1>1, <1>5, <2>1, NoFilters
    <2>3. Num \notin ToSet(args)
        BY <1>4, <2>1 DEF ToSet
    <2>4. m.preset = Nil
        <3>1. <<>> # <<Num>>
            OBVIOUS
        <3>. QED  BY <1>7, <3>1
    <2>. QED  BY <1>2, <1>4, <2>2, <2>3, <2>4
<1>8. CASE Positional = <<Num>>
    <2>1. /\ \A i \in DOMAIN args : args[i] \in Hashes \union {Num}
          /\ 1 \in DOMAIN args /\ args[1] = Num
        <3>1. CASE args = <<Num>>
            BY <1>6, <3>1
        <3>2. CASE \E h \in Hashes : args = <<Num>> \o <<h>>
            <4>1. PICK h \in Hashes : args = <<Num>> \o <<h>>
                BY <3>2
            <4>2. <<Num>> \in Seq(Values) /\ Len(<<Num>>) = 1 /\ 1 \in 1 .. 1
                BY <1>4
            <4>3. DOMAIN args = 1 .. 2 /\ args[1] = Num /\ args[2] = h
                <5>1. /\ Len(args) = 1 + 1 /\ args[1] = <<Num>>[1]
                      /\ args[1 + 1] = h
                    BY <1>5, <4>1, <4>2, OneMore
                <5>. QED  BY <1>1, <1>6, <5>1
            <4>4. \A i \in 1 .. 2 : i = 1 \/ i = 2
                OBVIOUS
            <4>. QED  BY <4>3, <4>4
        <3>. QED  BY <1>3, <1>8, <3>1, <3>2
    <2>2. FiltersOf(<<>>, args)
        BY <1>1, <1>4, <1>5, <2>1, NoFilters
    <2>3. Num \in ToSet(args)
        BY <2>1 DEF ToSet
    <2>4. m.preset = Num
        <3>1. <<>> # <<Num>>
            OBVIOUS
        <3>. QED  BY <1>8, <3>1
    <2>. QED  BY <1>2, <2>2, <2>3, <2>4
<1>. QED  BY <1>7, <1>8

\* A coder that was built has the filters it was called with, all of them and
\* in their order, or the one the factory made for it (ChainIsGiven).
THEOREM GivenFilters ==
    Spec => []ChainIsGiven
<1>1. ASSUME IInv, outcome = "done", Class \in TakesChain
      PROVE  \/ FiltersOf(filterpack, args)
             \/ /\ entry \in Factories /\ FiltersOf(<<>>, args)
                /\ Len(filterpack) = 1 /\ filterpack[1] \in Made
                /\ filterpack[1].preset = Num <=> Num \in ToSet(args)
    <2>1. PICK v : Handed(v) /\ argv = v \o Keywords
        BY <1>1, Built
    <2>2. CASE v = Positional
        BY <1>1, <2>1, <2>2, GivenChain
    <2>3. CASE v # Positional
        <3>1. /\ entry \in Factories
              /\ \/ Positional = <<>> /\ v = <<[preset |-> Nil, opts |-> Nil]>>
                 \/ Positional = <<Num>> /\ v = <<[preset |-> Num, opts |-> Nil]>>
            BY <2>1, <2>3 DEF Handed
        <3>2. PICK m \in Made :
                  /\ v = <<m>>
                  /\ \/ Positional = <<>> /\ m.preset = Nil
                     \/ Positional = <<Num>> /\ m.preset = Num
            BY <3>1, MadeFilters
        <3>3. /\ FiltersOf(<<>>, args) /\ filterpack = <<m>>
              /\ m.preset = Num <=> Num \in ToSet(args)
            BY <1>1, <2>1, <3>1, <3>2, MadeChain
        <3>4. Len(filterpack) = 1 /\ filterpack[1] = m
            BY <3>3
        <3>. QED  BY <3>1, <3>3, <3>4
    <2>. QED  BY <2>2, <2>3
<1>2. IInv => ChainIsGiven
    BY <1>1 DEF ChainIsGiven
<1>. QED  BY <1>2, Invariance, PTL

=============================================================================
