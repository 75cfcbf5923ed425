------------------------------ MODULE Arguments ------------------------------
(***************************************************************************)
(* From the arguments of a call to a coder: the factories of LZMA::Stream  *)
(* (lib/extlzma.rb), the scanning of the arguments, the filter chain and   *)
(* the exceptions of the constructors (ext/stream.c, ext/error.c).         *)
(*                                                                         *)
(* One call, under Ruby 2: a trailing Hash becomes keyword arguments, and  *)
(* rb_scan_args with ":" also takes a nil behind the last optional         *)
(* argument for an empty Hash.  Values are model values, but for a Hash,   *)
(* a record of what it says of :check, and a filter a factory makes.       *)
(***************************************************************************)
EXTENDS SequencesExt

CONSTANTS
    Filters,             \* initialized LZMA::Filter objects
    Blank,               \* one that was never initialized
    Num, BadNum,         \* a number that is a preset, and one that is not
    Nil, Object,         \* nil, and an object of another class
    ArgLists             \* the argument lists that are tried

Checks == {"missing", "nil", "none", "crc32", "crc64", "sha256", "number", "bad"}
Hashes == [check : Checks]
Made == [preset : {Num, Nil}, opts : {Nil}]

Values == Filters \union {Blank, Num, BadNum, Nil, Object} \union Hashes

\* Objects of different classes are different, a number and a bad one too.
ASSUME ArgumentsAssumption ==
    /\ ArgLists \subseteq Seq(Values)
    /\ Blank \notin {Num, BadNum, Nil, Object} /\ Num \notin {BadNum, Nil, Object}
    /\ BadNum \notin {Nil, Object} /\ Nil # Object
    /\ Filters \intersect {Blank, Num, BadNum, Nil, Object} = {}
    /\ (Filters \union {Blank, Num, BadNum, Nil, Object})
           \intersect (Hashes \union Made) = {}

\* LZMA_FILTERS_MAX
FiltersMax == 4

VARIABLES
    entry,       \* the factory or class that is called
    args,        \* with these arguments
    argv,        \* what reaches initialize
    pc,
    chain,       \* the values taken for filters
    filterpack,  \* those copied so far
    check,       \* of an Encoder
    attempts,    \* calls of the liblzma function
    status,      \* what it returned
    outcome      \* the exception, "done", "crash", or "" until the end

vars == <<entry, args, argv, pc, chain, filterpack, check, attempts, status, outcome>>

\* Which class a factory builds.
ClassOf == [encoder |-> "Encoder", decoder |-> "Decoder",
            auto_decoder |-> "AutoDecoder",
            raw_encoder |-> "RawEncoder", raw_decoder |-> "RawDecoder"]
Factories == DOMAIN ClassOf
Classes == {ClassOf[e] : e \in Factories}

Class == IF entry \in Factories THEN ClassOf[entry] ELSE entry
TakesChain == {"Encoder", "RawEncoder", "RawDecoder"}

IsFilter(v) == v \in Filters \union {Blank} \union Made

\* The switch of error.c, for the statuses a constructor can get.
lookup_exception ==
    [OK |-> "nil", UNSUPPORTED_CHECK |-> "UnsupportedCheck",
     MEM_ERROR |-> "MemError", MEMLIMIT_ERROR |-> "MemlimitError",
     OPTIONS_ERROR |-> "OptionsError", PROG_ERROR |-> "ProgError"]

\* Their constants STATUS.
STATUS ==
    [UnsupportedCheck |-> "UNSUPPORTED_CHECK", MemError |-> "MEM_ERROR",
     MemlimitError |-> "MEMLIMIT_ERROR", OptionsError |-> "OPTIONS_ERROR",
     ProgError |-> "PROG_ERROR"]

Outcomes == {"", "done", "crash", "TypeError", "ArgumentError"} \union DOMAIN STATUS

TypeOK ==
    /\ entry \in Factories \union Classes /\ args \in Seq(Values)
    /\ argv \in Seq(Values \union Made)
    /\ pc \in {"call", "scan", "setup", "init", "end"}
    /\ chain \in Seq(Values \union Made)
    /\ filterpack \in Seq(Filters \union {Blank} \union Made)
    /\ Len(filterpack) <= FiltersMax
    /\ check \in {"", "NONE", "CRC32", "CRC64", "SHA256", "number"}
    /\ attempts \in 0 .. 2 /\ status \in DOMAIN lookup_exception
    /\ outcome \in Outcomes

Init ==
    /\ entry \in Factories \union Classes /\ args \in ArgLists
    /\ argv = <<>> /\ pc = "call" /\ chain = <<>> /\ filterpack = <<>>
    /\ check = "" /\ attempts = 0 /\ status = "OK" /\ outcome = ""

Ends(o) ==
    /\ pc' = "end" /\ outcome' = o

Raises(e) ==
    Ends(e) /\ UNCHANGED <<entry, args, argv, chain, filterpack, check, attempts, status>>

-----------------------------------------------------------------------------
(* The factories.                                                          *)

\* **opts of Stream.encoder
HasHash(s) == s # <<>> /\ Last(s) \in Hashes
Positional == IF entry = "encoder" /\ HasHash(args) THEN Front(args) ELSE args
Keywords == IF entry = "encoder"
            THEN <<IF HasHash(args) THEN Last(args) ELSE [check |-> "missing"]>>
            ELSE <<>>

Passes(v) ==
    /\ argv' = v \o Keywords /\ pc' = "scan"
    /\ UNCHANGED <<entry, args, chain, filterpack, check, attempts, status, outcome>>

\* X.new(...), and auto_decoder, which hands on what it gets.
New ==
    /\ pc = "call" /\ entry \in Classes \union {"auto_decoder"}
    /\ Passes(args)

\* The others make a filter when they get none, or a number.
Build ==
    /\ pc = "call" /\ entry \in Factories \ {"auto_decoder"}
    /\ CASE Positional = <<>>       -> Passes(<<[preset |-> Nil, opts |-> Nil]>>)
         [] Positional = <<Num>>    -> Passes(<<[preset |-> Num, opts |-> Nil]>>)
         [] Positional = <<BadNum>> -> Raises("ArgumentError")
         [] OTHER                   -> Passes(Positional)

-----------------------------------------------------------------------------
(* initialize: the arguments.                                              *)

\* Mutant: check: nil taken for no check given.
conv_checkmethod_nil(h) ==
    CASE h.check \in {"missing", "nil", "crc64"} -> "CRC64"
      [] h.check = "none"                        -> "NONE"
      [] h.check = "crc32"                       -> "CRC32"
      [] h.check = "sha256"                      -> "SHA256"
      [] OTHER                                   -> "number"

conv_checkmethod(h) ==
    CASE h.check \in {"nil", "none"}      -> "NONE"
      [] h.check \in {"missing", "crc64"} -> "CRC64"
      [] h.check = "crc32"                -> "CRC32"
      [] h.check = "sha256"               -> "SHA256"
      [] OTHER                            -> "number"

HasOpts == Len(argv) > 1 /\ Last(argv) \in Hashes

\* Mutant: one argument more than the chain has room for.
ScannedOneMore == IF Len(argv) > 1 THEN Len(argv) - 1 ELSE Len(argv)

\* The arguments rb_scan_args counts, with "13:": a Hash is taken off if
\* something is left, and so is a nil that is one argument too many.
Scanned ==
    IF HasOpts \/ (Len(argv) = FiltersMax + 1 /\ Last(argv) = Nil)
    THEN Len(argv) - 1 ELSE Len(argv)

\* Mutants: argc is not counted down for the Hash, or in the other branch.
CountedNot == argv
CountedElse == IF HasOpts THEN argv ELSE Front(argv)

\* argc --: only for a Hash.
Counted == IF HasOpts THEN Front(argv) ELSE argv

\* ext_encoder_init_scanargs with a check.
ScanEncoder ==
    /\ pc = "scan" /\ Class = "Encoder"
    /\ IF Scanned \notin 1 .. FiltersMax THEN Raises("ArgumentError")
       ELSE IF HasOpts /\ Last(argv).check = "bad" THEN Raises("TypeError")
       ELSE /\ check' = IF HasOpts THEN conv_checkmethod(Last(argv)) ELSE "CRC64"
            /\ chain' = Counted /\ pc' = "setup"
            /\ UNCHANGED <<entry, args, argv, filterpack, attempts, status, outcome>>

\* The same without one.
ScanRaw ==
    /\ pc = "scan" /\ Class \in {"RawEncoder", "RawDecoder"}
    /\ IF Len(argv) \notin 1 .. FiltersMax THEN Raises("ArgumentError")
       ELSE /\ chain' = argv /\ pc' = "setup"
            /\ UNCHANGED <<entry, args, argv, filterpack, check, attempts, status, outcome>>

\* memlimit and flags, each a number or nil.
ext_decoder_init_scanargs ==
    /\ pc = "scan" /\ Class \in {"Decoder", "AutoDecoder"}
    /\ IF Len(argv) > 2 THEN Raises("ArgumentError")
       ELSE IF \E i \in DOMAIN argv : argv[i] \notin {Num, BadNum, Nil}
       THEN Raises("TypeError")
       ELSE /\ pc' = "init"
            /\ UNCHANGED <<entry, args, argv, chain, filterpack, check, attempts,
                           status, outcome>>

-----------------------------------------------------------------------------
(* filter_setup, and the function of liblzma.                              *)

\* The class FilterTooLong was never assigned.
TooLong ==
    /\ pc = "setup" /\ filterpack = <<>> /\ Len(chain) > FiltersMax
    /\ Raises("crash")

\* Mutant: the copy is made before the look at what is copied.
CopyFirst ==
    /\ pc = "setup" /\ Len(chain) <= FiltersMax /\ Len(filterpack) < Len(chain)
    /\ LET f == chain[Len(filterpack) + 1]
       IN  /\ filterpack' = Append(filterpack, f)
           /\ IF ~IsFilter(f) THEN Ends("TypeError") ELSE UNCHANGED <<pc, outcome>>
           /\ UNCHANGED <<entry, args, argv, chain, check, attempts, status>>

Copy ==
    /\ pc = "setup" /\ Len(chain) <= FiltersMax /\ Len(filterpack) < Len(chain)
    /\ LET f == chain[Len(filterpack) + 1]
       IN  IF ~IsFilter(f) THEN Raises("TypeError")
           ELSE /\ filterpack' = Append(filterpack, f)
                /\ UNCHANGED <<entry, args, argv, pc, chain, check, attempts, status,
                               outcome>>

\* LZMA_VLI_UNKNOWN ends the chain.
Terminate ==
    /\ pc = "setup" /\ filterpack = chain
    /\ pc' = "init"
    /\ UNCHANGED <<entry, args, argv, chain, filterpack, check, attempts, status, outcome>>

\* filter_setup passes on the options of a filter that was never initialized,
\* a NULL.
NoOptions == Blank \in ToSet(filterpack)

\* AUX_LZMA_TEST(RETRY_NOMEM(2, ...)) of a function that may return these
\* statuses besides LZMA_OK.  It builds nothing without options.
Attempt(errors) ==
    /\ pc = "init"
    /\ status' \in errors \union (IF NoOptions THEN {"PROG_ERROR", "OPTIONS_ERROR"}
                                               ELSE {"OK"})
    /\ attempts' = attempts + 1
    /\ IF status' = "MEM_ERROR" /\ attempts = 0 THEN UNCHANGED <<pc, outcome>>
       ELSE Ends(IF status' = "OK" THEN "done" ELSE lookup_exception[status'])
    /\ UNCHANGED <<entry, args, argv, chain, filterpack, check>>

\* lzma_stream_encoder: the check may be one that liblzma was built without,
\* or, as a number, no check at all.
encoder_init ==
    /\ Class = "Encoder"
    /\ Attempt({"MEM_ERROR", "OPTIONS_ERROR"}
               \union (IF check \in {"CRC64", "SHA256", "number"}
                       THEN {"UNSUPPORTED_CHECK"} ELSE {})
               \union (IF check = "number" THEN {"PROG_ERROR"} ELSE {}))

\* lzma_raw_encoder, lzma_raw_decoder
rawencoder_init == Class = "RawEncoder" /\ Attempt({"MEM_ERROR", "OPTIONS_ERROR"})
rawdecoder_init == Class = "RawDecoder" /\ Attempt({"MEM_ERROR", "OPTIONS_ERROR"})

\* Both may read the options without a look at the pointer.
Dereference ==
    /\ pc = "init" /\ Class \in {"RawEncoder", "RawDecoder"} /\ NoOptions
    /\ Raises("crash")

\* lzma_stream_decoder, lzma_auto_decoder: a memory limit of 0, unknown flags.
decoder_init ==
    /\ Class = "Decoder"
    /\ Attempt({"MEM_ERROR"} \union IF Num \in ToSet(argv)
                                   THEN {"PROG_ERROR", "OPTIONS_ERROR"} ELSE {})
autodecoder_init ==
    /\ Class = "AutoDecoder"
    /\ Attempt({"MEM_ERROR"} \union IF Num \in ToSet(argv)
                                   THEN {"PROG_ERROR", "OPTIONS_ERROR"} ELSE {})

-----------------------------------------------------------------------------
Next ==
    \/ New \/ Build
    \/ ScanEncoder \/ ScanRaw \/ ext_decoder_init_scanargs
    \/ TooLong \/ Copy \/ Terminate
    \/ encoder_init \/ rawencoder_init \/ rawdecoder_init \/ Dereference
    \/ decoder_init \/ autodecoder_init

Spec == Init /\ [][Next]_vars

-----------------------------------------------------------------------------
(* Properties.                                                             *)

\* p is the filters among the values of s, each once and in their order.
FiltersOf(p, s) ==
    \E at \in [DOMAIN p -> DOMAIN s] :
        /\ \A i, j \in DOMAIN p : i < j => at[i] < at[j]
        /\ {at[i] : i \in DOMAIN p} = {i \in DOMAIN s : IsFilter(s[i])}
        /\ \A i \in DOMAIN p : p[i] = s[at[i]]

\* A coder that was built has the filters it was called with, all of them and
\* in their order (lib:16-21, stream.c:230-233), whether or not keywords
\* follow them; a factory that gets none takes LZMA2.
ChainIsGiven ==
    outcome = "done" /\ Class \in TakesChain =>
        \/ FiltersOf(filterpack, args)
        \/ /\ entry \in Factories /\ FiltersOf(<<>>, args)
           /\ Len(filterpack) = 1 /\ filterpack[1] \in Made
           /\ filterpack[1].preset = Num <=> Num \in ToSet(args)

\* ... and the integrity check that was asked for: none for nil and :none,
\* CRC64 when nothing is said.
CheckIsGiven ==
    outcome = "done" /\ Class = "Encoder" =>
        LET asked == IF HasHash(args) THEN Last(args).check ELSE "missing"
        IN  <<asked, check>> \in {<<"missing", "CRC64">>, <<"crc64", "CRC64">>,
                                  <<"nil", "NONE">>, <<"none", "NONE">>,
                                  <<"crc32", "CRC32">>, <<"sha256", "SHA256">>,
                                  <<"number", "number">>}

\* Nothing but initialized filters, and not too many.
Proper(s) == Len(s) \in 1 .. FiltersMax /\ \A i \in DOMAIN s : s[i] \in Filters

\* The documented calls: one to four filters, as the constructors of
\* LZMA::Filter make them, and for an encoder a check.
ProperCall ==
    \/ Proper(args) /\ Class \in TakesChain
    \/ /\ Class = "Encoder" /\ HasHash(args) /\ Last(args).check # "bad"
       /\ Proper(Front(args))

\* They are refused by liblzma or by nothing, and the exception then carries
\* the status liblzma returned (error.c), after a retry that of the last
\* attempt; and they never crash.
ProperCallBuilds ==
    ProperCall => \/ outcome \in {"", "done"}
                  \/ outcome \in DOMAIN STATUS /\ STATUS[outcome] = status

\* Only two kinds of calls bring the process down: a nil behind four
\* arguments for an Encoder, which raises the class that was never assigned,
\* and a raw coder of a filter that was never initialized, whose options
\* liblzma reads.
CrashNeedsMisuse ==
    outcome = "crash" =>
        \/ Class = "Encoder" /\ Len(argv) = 5 /\ argv[5] = Nil
        \/ Class \in {"RawEncoder", "RawDecoder"} /\ NoOptions
=============================================================================
