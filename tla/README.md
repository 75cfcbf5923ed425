# extlzma: a verification project

extlzma binds liblzma to Ruby. A small C extension (`ext/`) wraps the
`lzma_stream`, the filter options and the checksums; `lib/extlzma.rb` builds
buffered objects, `LZMA::Encoder` and `LZMA::Decoder`, on top of it. This
directory holds TLA+ modules that model the parts of it where bytes can get
lost, repeated or reordered, TLC configurations that check them on small
instances, and TLAPS proofs for all instances.

## Inventory

| part | state | operations | interacts with |
|---|---|---|---|
| `LZMA::Encoder` (lib:151-232) | `writebuf`, `workbuf`, `status[0]`, `outport` | `write`/`<<`, `close`, `eof?`, finalizer | `Stream#code`; the receiver's `<<` (a callback); the garbage collector, which runs the finalizer |
| `LZMA::Decoder` (lib:234-305) | `readbuf`, `workbuf` with a read position, `status` (`:ready`, `:finished`, `nil`) | `read`, `close`, `eof?`, private `fetch` | `Stream#code`; `inport.read` (a callback) |
| `LZMA::Stream#code` (stream.c:111-145) | the `lzma_stream` with raw pointers into two Strings | `code` | releases the interpreter lock around `lzma_code` (extlzma.h:154-174) |
| liblzma `lzma_code` | sequence, `allow_buf_error`, the coder | (external) | |
| `LZMA::Filter` (filter.c) | an options block per object, a `predict` String | `initialize`, accessors | `Stream` constructors copy the filter, not the options |
| Stream constructors (stream.c:148-391) | none | `initialize` of the coders | filters, retry after `LZMA_MEM_ERROR` with a collection |
| factories, `Aux` (lib:307-369, 495-528) | none | `LZMA.encode`, `decode`, ... | `Encoder`, `Decoder`; `ensure` closes |
| `LZMA::Utils` (utils.c, lib:371-488) | `CRC32#state`, `CRC64#state` | `crc32`, `update`, `reset`, digests, `raise_err` | the checksum runs without the interpreter lock |
| errors, index, constants, `Init_extlzma` | tables | lookup | |

What makes each part correct:

* **Encoder**: the receiver gets the xz stream of what was written, each byte
  once and in order, however the output is cut into blocks; `close` means it
  is complete; an encoder nobody closed is finished by its finalizer; every
  call ends; after an exception nothing is delivered that could not follow what
  the receiver holds.
* **Decoder**: `read` returns the bytes of the file once and in order; `nil`
  or less than was asked for means the file was complete and all of it was
  returned; truncated or damaged input ends in an exception, not in an endless
  loop and not in a silent end.
* **Stream#code**: the two Strings hold what `lzma_code` left there, whatever
  other Ruby code ran meanwhile.
* **Filter**: the options and the preset dictionary live as long as any coder
  reads them; nothing is freed twice.
* **Utils**: the checksum of the parts is that of the whole.

What is hard here: exceptions. Ruby code can be left at any call into the
receiver or into `inport`, at an allocation failure, and at an asynchronous
exception (`Timeout`, `Thread#raise`, a signal), which the interpreter delivers
between two steps of Ruby code and on the way out of
`rb_thread_call_without_gvl`, that is, after `lzma_code` has moved its data and
before `stream_code` has recorded that. The objects stay usable afterwards, so
the program, or the finalizer, calls them again. The other hazards are listed
in `PROJECT.json` with their lines.

## Modules

| module | what it is |
|---|---|
| `LzmaCode` | what the callers rely on of `lzma_code`: the sequence of a stream, which calls are refused and how, when a call without progress becomes `LZMA_BUF_ERROR`. External: liblzma is not in the repository. |
| `XzFormat` | the abstract compressed stream both encoder modules speak about. |
| `XzSink` | what an encoder promises to its receiver: the abstract specification. |
| `Encoder` | `LZMA::Encoder` with one compressor; implements `XzSink`. |
| `EncoderInv` | the inductive invariant of `Encoder`. |
| `EncoderProofs` | the invariants of `Encoder`, that it implements `XzSink`, what `AuxEncode` promises, and what `RoundTrip` promises, the refinement of `Channel` among it, proved. |
| `Decoder` | `LZMA::Decoder` with one decompressor. |
| `DecoderProofs` | the invariants of `Decoder`, proved. |
| `Channel` | a FIFO with an end: the abstract specification of an encoder, a pipe and a decoder. |
| `RoundTrip` | `Encoder` and `Decoder` composed: the receiver of the one is the `inport` of the other; implements `Channel`. |
| `AuxEncode` | `LZMA.encode` with a block, over `Encoder`. |
| `RubyString` | Ruby Strings with their buffers: capacity, sharing, freeing. External: Ruby is not in the repository. |
| `RubyStringProofs` | what every operation on a String does to it, and that no other String notices: lemmas. |
| `AtomicCode` | what `Stream#code` promises, without pointers: the abstract specification. |
| `StreamCode` | `Stream#code` over `RubyString`; implements `AtomicCode`. |
| `StreamCodeProofs` | the properties of `StreamCode`, the refinement of `AtomicCode` among them, proved. |
| `Crc` | the checksum functions and the objects CRC32 and CRC64, over `RubyString`. |
| `CrcProofs` | the invariants of `Crc`, proved. |
| `Filter` | filter objects, their options and dictionaries, the collector, and a stream built from a filter. |
| `FilterProofs` | the invariants of `Filter`, proved. |
| `Arguments` | from the arguments of a factory or a constructor to a coder or an exception. |
| `ArgumentsProofs` | the invariants of `Arguments`, proved. |
| `Lifetime` | streams, encoders and finalizers under the collector, and `RETRY_NOMEM`. |
| `LifetimeProofs` | the safety invariants of `Lifetime`, proved. |
| `MC...` | instances for TLC. |

How they fit together: `StreamCode` shows that a call of `Stream#code` nobody
interferes with is the atomic call of `AtomicCode`, and that view of the call
(input cut off `src`, output in `dest`, or an exception in between) is what
`Encoder` and `Decoder` are written over. They are composed by `RoundTrip` and
used by `AuxEncode`. `Filter`, `Arguments` and `Lifetime` are about what happens
before: how a coder comes to be, with which filters, and how long the memory it
reads and owns is there.

### Encoder

Each loop of the Ruby code is a value of `pc`: `run` is the `until` loop of
`write` and of the finalizer, `finish` the `while` loop of `finalizer_close`,
`emit` is `outport << workbuf`, `mark` is `status[0] = nil`, and `coding` is the
time inside `lzma_code`. `Consume` and `Produce` move one byte each, so a call
may stop with any division of the data between `writebuf`, the compressor and
`workbuf` that liblzma may produce. `CodeReturn` is the rest of `stream_code`:
`src` is cut and `dest` gets its length.

Bytes are their positions 1, 2, ... in what the program wants to compress; the
compressor turns them into `HEAD, 1, 2, ..., n, TAIL`. It never compresses: the
properties speak about loss, repetition and order, not about size.

Exceptions are actions: `EmitFails` (the receiver raised after it stored a part
of the chunk), `CodeFails` (allocation failure), `CodeAborted` (an interrupt
delivered on the way out of `lzma_code`), `Interrupted` (an interrupt between
two steps). `EndCall` is the end of a call; an exception in the finalizer
reaches nobody and the finalizer does not run again.

Two abstractions: `outport << workbuf` copies (as IO, StringIO and String do),
and one thread uses an encoder at a time.

`XzSink` is the encoder seen from its receiver, with four actions: the program
offers data, a part of the stream is delivered, the encoder closes, something
breaks. The mapping is `sink <- outport`, `offered <- Offered` (the data of all
writes that returned and of the one in progress; a write after close does not
count), `open <- status`, `broken <- faults > 0 \/ finalFailed`. The buffers,
the loops, the finalizer and the retries are invisible there. `ImplementsSink`
states the implementation; beyond the invariants it says that nothing is taken
back, that a closed encoder stays closed and gets no more output, and that no
write is accepted behind a trailer.

### Decoder

The file is a sequence of tokens: the begin and end of a stream, damage, and
pieces of data from which a number of bytes can be decoded. Compressed data on
its way is a sequence of positions in the file. `arrived` is how much of the
file exists so far: `Grow` adds to it while reads are under way.

An interrupt on the way out of `lzma_code` (extlzma.h:169) leaves src uncut, so
the next call feeds what the decompressor has already taken. liblzma cannot see
that: it decodes the input as the continuation, goes `"astray"`, and returns
whatever comes out, possibly bytes it returned before. An .xz file has sizes and
an integrity check that are met before its end, so it is noticed at some point
(`phase = "bad"`), after any amount of output; an .lzma file and a raw stream,
which the same class reads, may end as if nothing had happened. `Init` chooses
which of the two it is (`xz`), `again` records that it happened. liblzma may also
notice at once, and a header that is fed again where one is due begins a stream
like any other; all of these are outcomes of `Consume` (`Parsed`).

`pc` is `loop` in the loop of `read`, `fetch`, `inread` and `code` in the loop
of `fetch`, `coding` inside `lzma_code`. `Look` is the `case s` of `fetch`. The
flags CONCATENATED and TELL_ANY_CHECK are chosen in `Init`. `close` is possible
between two reads and while `inport.read` blocks another thread; a `close`
while `lzma_code` runs clears a String the coder is writing to, which is what
`MemorySafe` of `StreamCode` excludes.

### StreamCode, AtomicCode, RubyString

A memory is a set of buffers and, for every String, the buffer it refers to, its
length, and whether it shares the buffer. `stream_code` is five steps: `Call`
(next_in is taken), `Reserve` (dest gets room, next_out is taken), `Enter` (the
interpreter lock is released), `Consume` and `Produce` byte by byte, `Return`
(memmove and the two lengths). Other Ruby code runs between `Call` and
`Reserve` (to_int of maxdest), between `Reserve` and `Enter` (to_int of action),
and all the time in between in other threads: `Dup`, `Replace`, `Clear`,
`Extend`. `Raise` is an exception at any of these points. A buffer a raw pointer
goes into is not handed out again after it was freed, so a dangling access is
one beyond the cells of its buffer; it sets `wild` and ends the behaviour.
`meddled` records what other code did to the two Strings during the call; the
properties are stated by it. The mapping to `AtomicCode` hides the buffers:
`text` is the content of every String but dest during a call, `made` what is
behind next_out, `broken` is `meddled # {}`.

### Crc

A checksum is the sequence of bytes it was computed from, so that two different
inputs never agree. `Update` reads `state` and takes the pointer, `Calc` reads a
byte without the lock, `CalcDone` takes the lock again, `Assign` is
`self.state =`. Several threads do this at the same time.

### Filter

`options` maps filter objects to blocks, `used` are the blocks allocated,
`preset_dict` the dictionary of every block, `ivar` the String in the instance
variable `extlzma.predict`, which alone keeps the bytes of the dictionary alive.
`cleanup_filter` and `CollectString` are the collector and may happen at any
time. `setup_lzma` sets the variable, looks at the other options, and only then
replaces the block, in this order, with an exception after each. A stream built
from a filter keeps the pointer (`dict`), and `StreamNoMem` is a constructor
between its two attempts, with `pack` as its copy of the filter.

An access through NULL (an accessor of an object made by allocate or dup, and a
raw coder of such a filter, whose options liblzma may read unchecked: `BuildFails`)
is the outcome `crash`, and so is raising a class that was never assigned.

### Arguments

One call: `entry` is a factory of `LZMA::Stream` or one of the classes, `args`
any list of the instance. `New` and `Build` are the factories; `ScanEncoder`,
`ScanRaw` and `ext_decoder_init_scanargs` what the constructors make of argv;
`TooLong`, `Copy` and `Terminate` are `filter_setup`; `Attempt` is
`AUX_LZMA_TEST(RETRY_NOMEM(2, ...))`. A filter that was never initialised
(`Blank`) is copied like any other, with its id and a NULL for options; liblzma
refuses the chain or, in a raw coder, reads the NULL (`Dereference`). The gem demands Ruby 2.0 or later, and the
module follows Ruby 2: a trailing Hash becomes keyword arguments and
`rb_scan_args` with `:` takes a nil that is one argument too many for an empty
Hash. (Ruby 3 does neither.)

### Lifetime

Streams are objects; `coder` are those that hold memory of liblzma, of which
there is enough for `Units`. What the collector frees follows from who refers to
a stream: a variable (`held`), the stack of a constructor (`OnStack`), an
encoder that was not freed, a finalizer that has not run (`procs`). Encoders and
their finalizers: `DropEncoder`, then a collection takes the encoder, its
finalizer is run (`running`), and the proc is forgotten (`FinalizerDone`); only
then is the stream garbage.

stream.c:54 makes an untyped Data object with a free function of its own, which
CRuby does not call during a collection. A collection (`Sweep`) only moves the
streams to a list (`zombies`), with the finalizers that are to run;
`stream_cleanup` frees them one by one when a thread works through the list
(`gc_finalize_deferred`, `finalizing`). One thread at a time does so, and a
finalizer may release the interpreter lock (that of an Encoder does, in
`lzma_code`), so others run in between. `rb_gc` works through the list before it
returns (`pc = "final"`), unless another thread is at it: then it returns at once
and leaves everything in the list (`skipped`), and the second attempt of
`RETRY_NOMEM` may find no memory although nothing refers to it.

The collector is taken to be exact: Ruby's also takes numbers on
the stack for references, which keeps garbage longer than any property here
allows.

### RoundTrip, Channel, AuxEncode

`RoundTrip` is the product of `Encoder` and `Decoder`, with `outport` as the file
of the reader; a read of the pipe waits while it is empty and the writer has not
closed. `AuxEncode` adds the block of `LZMA.encode` and its ensure clause to
`Encoder`; the block is any program.

## Runs

| run | result | what it shows |
|---|---|---|
| `encoder` | passes, 37,828 states | types, conservation, prefix, completeness, one header and trailer, `XzSink` implemented; calls end; dropped encoders are finished |
| `decoder` | passes, 1,208,438 states | types; order and no repetition while no input is fed twice; a short read means the end (of an .xz file whatever was fed twice); reads end |
| `round_trip` | passes, 99,867 states | waiting is no error, `Channel` implemented, a reader that reads on gets everything |
| `aux_encode` | passes, 14,022 states | a value means a complete stream, an exception of the block does not leave it unfinished, the call ends |
| `stream_code` | passes, 1,399,597 states | memory safety, other Strings are untouched, `AtomicCode` implemented |
| `crc` | passes, 1,186,595 states | a checksum of a dup is that of its content at the call; state is the checksum of everything given |
| `filter` | passes, 668,066 states (with symmetry) | one owner of every block, no leak, dictionaries live as long as they are read |
| `arguments` | passes, 248,613 states | chain, check and exceptions are those asked for or returned; two kinds of misuse crash and nothing else |
| `lifetime` | passes, 325,714 states | a coder does not outlive its object, a MemError is real but for what another thread is about to free, dropped streams are freed |
| `encoder_retry`, `round_trip_empty`, `aux_encode_value` | **violated** | see Findings |

Bounds.

* Encoder and decoder. `BLOCKSIZE = 2` in place of 256 KiB: smaller than the
  stream of one write, so a write takes several calls and the trailer straddles
  a block boundary, and larger than 1, so a block can be partly full.
  `MaxUnits = 3` bytes: a stream of five tokens, up to three writes, and every
  division of them (2 in `aux_encode`). `MaxFaults = 1` event per behaviour
  outside the finalizer: every property about undisturbed behaviours needs none,
  and `OneHeaderOneTrailer` then sees every continuation after one loss; the
  proof covers any number. The finalizer's own failures are not bounded (it runs
  once). `MaxSize = 2` gives reads that ask for less than, exactly and more than
  what a block holds, and `read(nil)`; the files are complete, empty, truncated
  in the data, damaged, with data behind the end, and two streams in a row.
  `round_trip` has no exceptions (`MaxFaults = 0`): what they do to either side
  is in the runs of the sides.
* `stream_code`. Strings of two, one and two or one bytes, `MaxDest = 2`, so that
  dest has too little, enough and more than enough room; `MaxHeld = 2`; two
  calls, so that the second meets what the first left; one step of other code,
  since the exemptions of the properties are by kind of step and one of each
  kind is enough to need them. Six buffers are more than the steps can use up.
* `crc`. Two threads, three updates, two changes: an update can be overtaken by
  a whole update of the other thread and be followed by another one.
* `filter`. Two LZMA filters, so that a dup has an original, a Delta filter, and
  three blocks and dictionaries: one more than the filters can hold, so that one
  is free when another is lost.
* `arguments`. Every list of up to three values, and of up to three behind three
  filters, which meets and passes the limit of four from both sides; a Hash with
  each of the eight kinds of `:check` (missing, nil, four names, a number, another
  object), and a filter that was never initialised.
* `lifetime`. Four streams with memory for two and two threads: both may be in a
  retry at once, while one garbage stream is swept and the finalizer of another
  runs, so that a collection is skipped with something to free.

Deadlock is checked where a system runs on (`decoder`, `round_trip`,
`lifetime`). It is not for `encoder` and `aux_encode` (a finalized encoder has
nothing left to do), `arguments` (one call), `stream_code` and `filter` (nothing
is said of what follows a wild access or a crash) and `crc` (the bounds are used
up).

Fairness. `WF(Step)` in `encoder` and `decoder`: a call that was entered keeps
running, the receiver's `<<`, `inport.read` and `lzma_code` return.
`WF(Finalize)` in the encoder: Ruby runs finalizers at the latest when the
process exits. The same in `round_trip`, for the steps of the two sides and the
finalizer; that the reader calls read again and again is an antecedent of
`ReaderGetsAll`, not an assumption. In `aux_encode`, the calls and, once the
block is left, `Aux.encode` go on. In `lifetime`, collections happen again and
again, what they swept is worked through (Ruby does so at its next chance, and
when the process exits), and a finalizer that was started ends. Nothing is assumed of the program:
it need not close, retry, drop or leave the block. No fairness is assumed of
exceptions and of other code.

### Findings

* `encoder_retry`, `ClosedIsXzFormat` (a closed encoder has delivered the
  trailer) is what lib/extlzma.rb:26 promises of the compressed data. It fails
  after a retry: `close` is interrupted while the last output is delivered (the
  run shows the interrupt on the way out of `lzma_code`; `outport << workbuf`
  raising has the same effect), the compressor has already ended, and a second
  `close` asks it again, gets `LZMA_STREAM_END` with no output, and returns
  normally with `status[0] = nil`. The same happens in the finalizer, where
  nobody sees either exception.
* `round_trip_empty`, `DecodeIsString`: `LZMA.decode(LZMA.encode(""))` is nil.
* `aux_encode_value`, `BlockValueReturned`: a block that closes its encoder
  itself gets "already closed stream" in place of its value (lib/extlzma.rb:21).

What the properties exempt by name is as much a result: `NoLeak` (a second
`initialize`, or `Delta.new` with a bad argument, loses a block), `DictKept`
(`predict=` of a frozen filter, a second `initialize` that raises after the
dictionary), `MemorySafe` (src or dest changed during the call, or the same
String), `StateIsWhole` (two updates at the same time), `BytesInOrder` and `NoByteTwice` (an event after
which input was fed again, `again`; for .lzma files and raw streams
`EndMeansComplete` too), `MemErrorIsReal` (the streams of dropped encoders need a
second collection, and those in the list are not freed by an `rb_gc` that finds
another thread at it, so `RETRY_NOMEM` may fail although they are unused).

Met while modelling, visible in the modules but not stated as properties:

* A read that is interrupted on the way out of `lzma_code` and repeated feeds its
  input again (stream.c:136-140 is not reached), against stream.c:98-100, which
  says that src is cut by what was read. The reader may get bytes twice, an .xz
  file is then found damaged before its end, and an .lzma file or a raw stream
  may end normally (`Parsed`, `Accepted`).
* A raw coder of a filter made by `allocate` or `dup` gets a NULL for its options
  (filter.c:337-344, stream.c:156-165), which liblzma may read (`Dereference`).
* `RETRY_NOMEM` (stream.c:177) may raise `MemError` although memory is about to be
  freed, when another thread runs finalizers at that moment (`rb_gc`).
* A dup of src or dest that is taken while `Stream#code` runs shares the buffer
  `lzma_code` and the `memmove` write to, and changes (`OthersKeepText` and
  `ImplementsAtomic` exempt it); `rb_str_set_len` then refuses the shared String.
* A second `initialize` of a filter that raises on a later option, or that has no
  dictionary, leaves a filter whose getter returns a dictionary liblzma is not
  given, against filter.c:31 (`setup_lzma`: the variable is set first, or left).
* `initialize` refuses a bad preset, which filter.c:398 leaves to the encoder
  (`setup_lzma_preset`).
* Options of `LZMA.encode` go to `Stream::Encoder`, which looks for `:check`
  only, not to `LZMA2.new` as lib:39-40 says (`Build`, `Keywords`).
* `LZMA.decode(data, filter)`, documented in lib:62, raises TypeError
  (`ext_decoder_init_scanargs`); `Stream.decoder` without arguments or with a
  number passes a filter as the memory limit and always raises (lib:322, 324).
* extlzma_eFilterTooLong and extlzma_eBadPreset are never assigned (error.c:55-56),
  so `rb_raise` gets 0 as a class at filter.c:292 (an invalid preset with
  options) and at stream.c:152 (`Stream::Encoder.new(f, f, f, f, nil)` under
  Ruby 2; `CrashNeedsMisuse` says that nothing else gets there).

Met while reading, not modelled: the aliases of AutoDecoder, RawEncoder and
RawDecoder are defined on Decoder and Encoder (stream.c:414-429), so these
classes have `code` only; `delta_alloc` ignores the class it is given
(filter.c:361), so subclasses of Delta are not made; `examples/02-streaming.rb`
calls `encoder.finish`, which `LZMA::Encoder` does not have.

## Proofs

### Encoder

`EncoderProofs` proves, for every `BLOCKSIZE > 0`, `MaxUnits` and `MaxFaults`
(assumption `EncoderAssumption`, which TLC evaluates, like all the others, in
the runs of the module):

* `TypeCorrect`: `Spec => []TypeOK`,
* `BytesConserved`: `Spec => []Conservation`,
* `PrefixDelivered`: `Spec => []ReceiverHasPrefix`,
* `ClosedComplete`: `Spec => []ClosedIsComplete`,
* `HeaderAndTrailer`: `Spec => []OneHeaderOneTrailer`,
* `SinkImplemented`: `Spec => ImplementsSink`, every
  behaviour of the encoder is one of `XzSink`.

None of the safety properties is inductive: each speaks about what the receiver
holds, and what it will hold is still in `workbuf`, `made` and the compressor.
The invariant `IInv` therefore follows the whole of it, `Whole = outport \o
Undelivered \o held`:

1. `Control` says which `pc`, `op`, `seq` and `act` go together, for instance
   that a closed encoder's compressor has ended and owes nothing, and that a
   call with `LZMA_RUN` is only under way in a stream that was not told to
   finish. It is preserved together with `TypeOK` (`TypeStep`, `ControlStep`).
2. `WholeStep` says what a step does to `Whole`: most leave it alone although
   they move bytes between its parts, `Consume` and the first `FINISH` append
   one token, and the exceptions that lose output cut a piece out of it that
   ends where `held` begins.
3. `InOrder` (every header first, every trailer last, no trailer before
   `FINISH`) survives all three kinds of step, the lossy one included; that is
   `OneHeaderOneTrailer` for the part of `Whole` the receiver holds.
4. In a clean state (`faults = 0`, no failed finalizer, not closed)
   `Conservation` pins `Whole` down: it is the open or the finished stream of
   the bytes consumed, and `writebuf` holds the bytes that follow. A clean state
   has a clean predecessor (`CleanStep`), so only the lossless steps matter.
5. `ClosedIsComplete` and `AfterFailure` are what `Conservation` becomes when
   the stream is closed or its finalizer fails.

For the refinement, `OutportGrows` and `NeverUndone` say what no step does
(shorten the receiver's data, forget an exception, reopen). A step after which
something is broken is `Break`. In the others `OpenStep` shows that an open
encoder offers, delivers or does nothing visible, using `PrefixHeld` in the new
state, and `ClosedStep` that closing is `Finish`, using `ClosedIsComplete` in
the new state.

TLC checked `IInv` on the instance of the run before it was proved, here and in
every module below.

### LZMA.encode

`EncoderProofs` also proves `ValueComplete` and `ExceptionFinishes`:
`AuxSpec => []ValueMeansComplete` and `[]ExceptionFinishesToo`. Every step of
`AuxEncode` is a step of `Encoder` or leaves the encoder alone (`AuxIsUse`),
so `IInv` holds there too. `AuxInv` adds what the ensure clause knows: its
`close` ends raised or with a closed encoder, and there is no answer before. A
closed encoder is complete by `ClosedIsComplete`.

### Decoder

`DecoderProofs` proves, for every `BLOCKSIZE > 0`, every set of files and any
number of exceptions, `DecoderTypes` (`TypeOK`), `NothingTwice` (`NoByteTwice`),
`BytesKeepOrder` (`BytesInOrder`) and `ShortReadIsEnd` (`EndMeansComplete`).
About a file it is assumed only that numbers in it do not decrease
(`DecoderAssumption`: what can be decoded from a longer part of a file is not
less). `IInv` has five parts besides the types:

* `Control`: which buffers are empty at which `pc`; that `"short"` was returned
  by a decoder whose `status` is `"finished"` with nothing left in `workbuf`, or
  after a close; that the decompressor is astray only after input was fed again.
  Without it `EndMeansComplete` says nothing of the next step.
* `Parse`: what the decompressor accepted is the beginning of a complete file,
  and the last number in it is `decoded`; not said of one that is astray, nor,
  without the checks of .xz, after input was fed again. With `seq = "end"` this is
  `Complete(fed)`.
* `Input`: whatever happened, `readbuf` is the last part of what was read and
  reaches back to `fed` or before it, so no position is skipped; without events it
  begins where `fed` ends, so none is fed twice, and nothing is read behind the end.
* `Places`: while nothing was thrown away or fed twice, the bytes in `delivered`,
  `buf`, `work`, `made` and `held` are consecutive, and `decoded` is their number.
* `Ordered`: whatever was thrown away, as long as nothing was fed twice, every one
  of the five rises and each lies before the next. Events cut pieces out of the middle, which keeps it;
  `Places` does not survive them, so neither invariant follows from the other.

The steps that move bytes (`ReadDone`, `Take`, `Produce`) are one relation,
`Shifted`: the front of one buffer goes to the end of the one before. The lemmas
`ShiftPlaces` and `ShiftOrder` then serve all of them.

### StreamCode

`StreamCodeProofs` proves, for any finite set of Strings, sizes, calls and other code,
`CallTypes` (`TypeOK`), `StaysInside` (`MemorySafe`), `OthersUntouched`
(`OthersKeepText`) and `AtomicImplemented` (`Spec => ImplementsAtomic`). Two
assumptions: the Strings a behaviour begins with are `WellFormed` (a length fits
its buffer; two Strings with one buffer both know that it is shared, which is
what Ruby's own String functions keep and rely on), and `EnoughBuffers`: there
are more buffers than Strings and pointers, or infinitely many. The second says
that `malloc` hands out memory. The proofs need it because `Fresh` chooses a
buffer that belongs to nobody, and what it chooses is only known to be one if
there is one (`RoomLeft`, by counting, from `EnoughRoom`).

The lemmas about Strings are in `RubyStringProofs`, one for every operation:
`ModifiedFacts`, `ExpandedFacts`, `ClearedFacts`, `AppendedFacts`, `DuppedFacts`
for Ruby's, `Rewritten`, `LengthSet`, `RawOnly` for what C code does. Each says
that the memory stays `WellFormed`, what the String holds afterwards, and that
the operation `OnlyTouches` this String: every other one keeps buffer, length and
cells. `IInv`:

* `Control`: which pointers are set at which `pc`, and that `raw` has no others.
* `Placed`: if nobody changed src or dest and they differ, the pointers are those
  of the buffers the two Strings have now, and the room and the rest of the input
  end where the Strings end. This is the invariant behind `MemorySafe`: every
  access is then inside.
* `Owned`: if nobody shared them either, the buffers are theirs alone; this is
  what keeps `OthersKeepText`.

For the refinement, `AtomicActions` restates the steps of `AtomicCode` in the
terms of the mapping (`Content`, `Taken`, `Made`). Once something has meddled,
`broken` allows every step. Otherwise each action has a lemma: `AtomicCall`,
`AtomicReserve`, `AtomicConsume`, `AtomicProduce`, `AtomicReturn` (the memmove and
the two lengths make src the rest of the input and dest the output),
`AtomicRaise`, `AtomicOther`.

### Crc

`CrcProofs`, over the same lemmas and with the same two assumptions
(one pointer for every thread), proves `CrcTypes`, `DupSuffices`
(`DupIsEnough`) and `WholeState` (`StateIsWhole`). `Reading` says that an update
whose String was not modified has a pointer into the buffer this String has
now, that the String still has the text it was called with, and that the
checksum so far is that of the part before the pointer; a change to another
String that shared the buffer keeps it, because `Pointing` makes every such
buffer one of `raw`, which is not handed out again, and Ruby's functions write
only to a buffer nobody else refers to. `Alone` says that without carelessness
there is one update at a time, over the present `state`.

### Filter and Lifetime

`FilterProofs` proves `FilterTypes`, `FreedOnce` (`OneOwner`), `NothingLeaks`
(`NoLeak`), `DictionaryAlive` (`DictKept`) and `StreamDictionaryAlive`
(`StreamDictKept`), for any number of filters, blocks and dictionaries. Neither
of the last two is inductive: a dictionary is alive because something refers to
it. `Anchored` says what: the variable of a filter holds the very dictionary its
options point to, unless a call raised between setting the one and the other;
`StreamAnchored` says so for the filter of a stream. `PackHeld` says that the
block a constructor copied is not freed and passes to no other filter, `Living`
that filters which were freed have neither options nor a variable.

`LifetimeProofs` proves `LifetimeTypes`, `CoderOwned` (`CoderHasObject`) and
`RealMemError` (`MemErrorIsReal`), for any number of threads and streams and any
amount of memory. `StaysIdle` is the invariant behind the last one: what nothing
referred to when the first attempt failed cannot be referred to again; it is in
the list after the collection in between, and gone when the list was worked
through, unless the thread skipped that. It needs `Registered` (an encoder refers to its
stream through its finalizer until that has run) and `Constructing` (a
constructor has its stream on the stack until it ends).

### RoundTrip

The last section of `EncoderProofs` proves `NoErrorFromWaiting`
(`RTSpec => []WaitingIsNoError`) and `ChannelImplemented`
(`RTSpec => ImplementsChannel`), for every `BLOCKSIZE`, amount of data and size
of a read, without exceptions, like the module. Assumed of the constants, besides `EncoderAssumption`: the tokens for
damage and for `read(nil)` are not numbers, and damage is neither header nor
trailer (`RoundTripAssumption`).

Both halves keep their own proofs. A step of the writer is a step of `Encoder`, so
`IInv` of `EncoderInv` holds as it stands. A step of the reader is a step of
`Decoder` with `outport` for its file (`ReaderIsDecoder`), and
`D == INSTANCE DecoderProofs` makes everything proved of such a step available
here; its assumption about files holds because what the receiver has is the
beginning of some stream (`PipeIsInput`, from `ReceiverHasPrefix`). What is new is
a step of the writer seen by the reader: the file grows at its end, and what was
said of the tokens read so far still holds (`WriterGrows`, `WriterKeepsReader`).
`PipeInv` is the two invariants and three more parts:

* `WriterInv`: nothing raises on this side, so a writer that is gone was finished.
* `Undisturbed`: nothing is fed twice (there are no events in `RoundTrip`), the
  decompressor is not astray and meets no damage, keeps accepting calls, and no
  read raises. That it meets no damage is the bridge between the two invariants:
  by `Parse` it is at some place of a prefix of `Frame(n)`, in which the next
  token is the one it waits for (`FrameTokens`, `NoBadToken`).
* `AllThere`: the reader has told its decompressor to finish only if the writer is
  closed and everything in the pipe was read. Then the pipe holds a complete
  stream (`ClosedPipe`), a call always has something to do (`CallsProgress`), and
  liblzma has no reason to return `LZMA_BUF_ERROR` (`ReaderReturn`). Without it
  waiting could not be told from a file that was cut off.

For the refinement, `WriterOffers` says that a step of the writer offers bytes,
closes the channel or does nothing visible, and `ReaderGets` that a step of the
reader hands out the bytes that follow those delivered (`Places` of the decoder),
none of which the writer has not offered (`DecodedOffered`), and the end only
after all of them (`EndDecoded`).

### Arguments

`ArgumentsProofs` proves all five invariants of the run for any set of filters,
argument lists of any length and any sequence of statuses: `ArgumentTypes`
(`TypeOK`), `GivenFilters` (`ChainIsGiven`), `AskedCheck` (`CheckIsGiven`),
`ProperCalls` (`ProperCallBuilds`) and `CrashOnlyFromMisuse` (`CrashNeedsMisuse`).
`ArgumentsAssumption` says that objects of different classes are different, and
that a number which is a preset differs from one which is not.

The invariant follows the values through the call, one part for every hand they
pass through: `ArgvInv` (argv is the positional arguments, or the filter the
factory made, and the keywords behind them: `Handed`), `ChainInv` (the chain is
what `Counted` leaves of argv, and the check what its Hash says), `CopyInv` (what
was copied is the front of the chain, all of it filters, and at the end all of
the chain), `OutcomeInv` (an exception of a constructor's own means that the call
was none of the documented ones; one of liblzma has its status; a crash is one of
the two kinds). `NoOptionsCall` says that a filter without options in the chain
was one of the arguments, so the call was none of the documented ones. `Stages` says
what has not happened yet. `ScannedShape` and `ProperScan` are the arithmetic: the
two counts, of `rb_scan_args` and of `argc`, agree on every documented call, and
`LongChain` that they differ by more than the chain has room for in one case
only. `FrontFilters` then turns "the front of the list" into `FiltersOf`.

### Only model-checked

Liveness, which is out of the prover's reach: `CallsEnd`, `DroppedIsFinished`,
`ReadsEnd`, `ReaderGetsAll`, `EncodeAnswers`, `DroppedIsFreed`. Every invariant
and every refinement the passing runs check is proved.

Some lemmas about parts of sequences stand in more than one of the proof modules:
each of these can be read and checked with its component alone.

## Plan

Done: every component with state of its own is modelled, and every safety
property of the passing runs is proved.

Left, should the code grow:

* `read` of one decoder from several threads. Today nothing is promised about it,
  so there is nothing to check it against.
* `LZMA::Index`, once it has an operation.
* The two exception classes that are never assigned: once they are, `TooLong` and
  the bad preset of `Filter` raise instead of the outcome `crash`, and the first
  kind of misuse in `CrashNeedsMisuse` becomes an exception.

## Not modelled

* `LZMA::Index` (index.c): an allocator, no operation.
* Constants, versions, `Init_extlzma`, `extconf.rb`: no state.
* `Aux.decode`: its two paths are `Decoder#read` and a `close` that never raises;
  the result of the String form is checked in `round_trip_empty`.
* `LZMA.lzma1`, `lzma2`, `delta` and `Filter.lzma1`, ...: they hand their
  arguments on.
* The values of numeric filter options, the compression itself, the checksums'
  arithmetic, digests and the buffer bounds: functions of liblzma or formatting.
* Two threads in one `lzma_stream` at the same time, which liblzma forbids, and
  what an allocation without the interpreter lock (utils.c:22, 44) does to the
  interpreter.
* Examples and tests, read as documentation.
