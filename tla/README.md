# A TLA+ model of corelib-py

`sofab` is the Python core library of Sofa Buffers: a streaming serialiser whose
encoder writes into caller-owned buffers and whose decoder is fed chunks of any
size. It has two engines, one in Python and one in Cython, that promise the same
behaviour. This directory models the library, checks it with TLC, and proves the
most important results with TLAPS: first the parts in which order, interruption
and shared buffers decide what happens, then the two engines side by side. Every
definition is a translation of the source (`src/src/sofab/`); `PROJECT.json`
gives the lines under `"map"`.

Paths below are relative to the repository (`decoder.py` is
`src/sofab/decoder.py`, and so on).

## 1. The system

| Component | State it keeps | Operations | Model |
|---|---|---|---|
| Push decoder (`decoder.py`) | window `_buf[0:_n]`, cursor `_pos`, transaction start `_keep`, reassembly buffer `_rbuf[_rstart:_rend]`, `_pending` value, `_depth`, `_skip_depth`, `_resume_kind`, `_status`, `_limit` | `feed`, `reset`; inside `feed`: `_reassemble`, `_next_wire`, `_skip_pending`, `_drain_discard`, `_visit_value`, `_retain` | `PushDecoder` |
| Meaning of a message | none | what is heard, where a verdict falls | `MessageMeaning`, `DecodePromise` |
| Scope routing (`decoder.py`, `visitor.py`) | `_bstack`, `_bmap`, `_vstack`, `_vdepth`, hook flags, `_resume_entry` | descent at sequence begin, return at its end, a value for a row or a handler, `reset` | `ScopeRouting` |
| Receiver caps and schema bounds (`decoder.py`, `_speedups.pyx`) | a cap parked in `_pending`; the bound, the destination and the width the receiver answers with | parked at the header, settled, lifted or raised by the read | `ValueDelivery` (`PureReads`, `NativeReads`); the parked cap also in `PushDecoder` |
| Destination maps (`binding.py`) | a table of rows, frozen with its tree; sizes, reset plans, the native copy; option and count slots | add a row, freeze, admit a storage; mapped store, union option reset | building in `BindingTables`, stores and reset in `DestinationTable`, `ScopeRouting` |
| What the storage means | none | the message as a tree of values | `HeldValues` |
| Lazy sequence framing (`encoder.py`) | `_pending`/`_spare` lists, `_npending`, `_depth` | begin, end, end-keep, commit by any write | `LazyFraming` |
| Output buffer (`encoder.py`) | `_fixed`, `_cap`, `_cursor`, `_flush_view`, result chunks | `_emit_varint`, `_put`, the array writers' loop, `_drain`, `flush`, `buffer_set` | `OutputBuffer` |
| Field writers (`encoder.py`, `_varint.py`, `types.py`) | the sticky error | every `write_*`: the checks in order, what is committed between them, the encoding | `EngineTwins` (`EncodedValues`, `FieldWriters`, `NativeWriters`) |
| Collectors (`collectors.py`) | the list or row being grown | `reserve_leaf`, `reserve_elem`, `reserve_row` | `EngineTwins` (`WrapperArrays`) |
| Float arrays (`float_arrays.py`) | none | bit-pattern comparison with a default | `EngineTwins` (`WrapperArrays`) |
| Native engine (`_speedups.pyx`) | the same, in C types | the same | its value reads, writers, collectors, comparisons and compiled tables beside the Python ones; its header walk and buffer through their twin |

**How they interact.** All of it is one thread of calls; what makes it hard is
who is called back and when the caller stops.

* A caller hands `feed` a chunk and gets it back when `feed` returns. `feed`
  calls the visitor's hooks. Wherever bytes run out the decoder rewinds to
  `_keep`, copies the tail of the construct in flight to the reassembly buffer
  and reads it again next time. Skipped values are different: they are dropped
  as they arrive, with a count in `_pending` and no rewind.
* Inside a message the walk asks the current destination table first: a field it
  names goes into the caller's storage, one it does not name goes to the current
  handler, or to nobody if the table is closed. A handler may hand a sub-tree to
  another handler; the enclosing table is set aside meanwhile. A value that ran
  out of bytes is finished later by the route it was suspended on.
* Encoder calls put bytes into the installed buffer. When it is full the flush
  sink is called *in the middle of a write*, and may copy the bytes, take the
  buffer and install another, raise, or call the encoder itself.
* A sequence's header is held back until something is written inside it, so the
  write of one field may first write a run of headers, each of which may call
  the sink.

**What is hard**, and what the properties are therefore about: a suspension at
any byte of any construct, any number of times; state kept across a suspension
(`_keep`, `_resume_kind`, `_skip_depth`, varint byte counts, a parked cap); the
reassembly buffer at its limit, with its slide and its two refusals; hooks that
raise; locals hoisted over a drain (`_put`'s view, the array loop's buffer and
cursor); two stacks pushed under different conditions and popped by the same end
markers; a union selected anew over slots its options share; the cursor after a
drain, which is 0 or the offset just installed; a
buffer in a transport's hands while encoding goes on; re-entry of the encoder by
its own sink. `PROJECT.json` lists each hazard at its line with the properties
that cover it, or why none does yet.

**What makes each component correct.**

* Push decoder: the outcome does not depend on the chunking; no value is built
  from bytes of another; the buffer holds only the construct in flight; a feed
  returns.
* Lazy framing: the wire holds exactly the sequences with something in them, or
  kept, in call order; the run is a suffix of the open sequences.
* Output buffer: the bytes drained and standing are the bytes written; header
  room and taken buffers are left alone; a buffer without a sink fills up before
  it refuses.
* Scope routing: table and handler in force are those of the innermost open
  scope, and every hook call goes to the handler whose scope it is about.
* Destination maps: between values the storage shows what the message means.
* Builder of destination maps: a frozen table never changes, and nothing that was
  worked out from one (plan, sizes, the native copy) is ever stale; a decoder
  that was let through has storage for every slot it can write.
* Caps and bounds: the verdict on a value is the one the receiver's answers call
  for, whatever the chunking and whichever answer came first.
* Writers: the wire holds the accepted calls and nothing of a refused one; a
  refusal is told.
* Collectors and float arrays: the list is what the admitted elements make of it;
  a field left out is one the default restores bit for bit.
* Two engines: the same, everywhere both are modelled.

## 2. The modules

### PushDecoder (with MessageMeaning, DecodePromise)

A byte is its **position in the stream**, so one that is lost, repeated or read
out of order shows. What a byte says — continuation bit, whether it ends an
acceptable value — is looked up in `wire`. A construct is a header and its
items, and carries the receiver's answers (`want`, `over` a cap, `raises`),
fixed per construct because `visitor.py` asks a hook to answer alike each time.
`ConstructOf`, `HeaderOf`, `ValueOf` name a construct's stream positions;
`EncodingAssumption` says how a sender lays them out.
Bytes of every kind of header word are one run `hdr`; subtypes, ids and values
are abstracted.

| Code | Model |
|---|---|
| `feed`, `_reassemble`: adopt / append (with slide) / refuse | `FeedAdopt`, `FeedAppend`, `FeedRefuse` |
| the resume prologue of `_drive_push`, `_value_ready` | `Enter`, `StillShort` |
| `_skip_pending`, `_drain_discard` | `SkipScalar`, `Discard`, `DrainBytes`, `DrainVarints` |
| `_next_wire` | `CleanEnd`, `HeaderShort`, `HeaderInvalid`, `Header`, `Park` |
| the walk's three cases | `SequenceStart`, `SequenceEnd`, `ValueHeader` |
| `_visit_value`, `_read_varints` | `OverCap`, `ValueInvalid`, `TakeValue`, `ValueShort` |
| `feed`'s handlers and `_retain` | `Reject`, `RunOut`, `Suspend`, `Retain`, `RAISED` in `TakeValue` |
| `reset` | `Reset` |

`MessageMeaning` says what a message means to one receiver from the **whole
message**, with no decoder in sight; it is the reference the decoder is compared
with. `DecodePromise` is the abstract specification: bytes arrive, constructs
are delivered once and in order, a verdict comes after everything before the
offending construct and ends it. `KeepsPromise` in `PushDecoder` is the
refinement (`delivered` is the constructs of `events`; `verdict` comes from
`_limit` and `_status`); it excepts the steps in which bytes of the message are lost.

Atomicity: one action is one construct's transaction. That is the code's own
unit: `feed` is a synchronous call guarded by `_running`, hooks run only where
an action shows one, and a read either consumes a whole construct or rewinds.

### ScopeRouting (with DestinationTable, HeldValues)

Bytes are left to `PushDecoder`: a header arrives whole, a value with as many of
its words as the feed held. A value is a sequence of words (one for a number,
the elements of an array, the bytes of a string). `T` holds the destination
tables, `Answer`, `Overrides`, `Declines` and `TextBound` what each handler says;
both are constants, because a table is frozen when the decoder is built and
`visitor.py` asks a hook to answer alike each time. What the code keeps in
arrays with an index is a sequence here; `vstack` pairs `_vstack` with `_vdepth`.

| Code | Model |
|---|---|
| an end marker: pop the table, tell the handler, hand back | `EndOfBoundScope`, `EndOfHandlerScope`, `PopTable`, `HandBack` |
| a start marker: the row's child, the handler's answer, the skip | `Descend`, `OpenToHandler`, `SkipSequence`, `SuppressTable` |
| `_bind_visitor`, the walk's `make_field` | `TakeOver`, `makeField` |
| `_mapped_field`, `_settle_bound`, `_read_varints` into the slots | `MappedField`, `MappedOutcome`, `Filled`, `StoredWords` |
| `_reset_option`, prepared by `_option_reset` | `WordsSelected`, `ObjectsSelected`, `Plan`, `ResetWords` ... |
| `on_field`, `_schema_bound`, `_visit_value` | `SkipField`, `Visit` |
| suspension and the resume prologue | `Settled`, `ResumeMapped`, `ResumeVisit` |
| `reset` | `Reset` |

The specification of what should happen stands beside the code's state and uses
none of it: `scopes` has one entry for every open sequence, with the table and
the handler whose scope it is and who opened it; `due` is the hook calls owed
according to the innermost one; `held` is the message as a tree of values
(`HeldValues`), with neither slots nor reset lists: a value is replaced, a struct
merges, a union holds the last option and starts one selected anew from its
default.

### BindingTables (on DestinationTable)

One action per binder method (`Unsigned`, `Signed`, ..., `StringInto`,
`BooleanArray`, `Sequence`), each the whole call through `_add`. The storage a row
would need is claimed before its width and default are looked at, so a call
refused for either is a step that leaves no row and a larger need; one refused
before is no step. `Freeze`, `AskSizes`, `BuildDecoder` and `BuildNative` are the
four first uses: each freezes the tree and pushes a reset plan onto each row of a
union (`plans`); `sizes` is the cached `_tree`, `compiled` the native engine's
flattened copy with, for each table, a direct index or a binary search.
`decoders` remembers each decoder that was let through, with its storage.
Children may be shared or be ancestors.

### ValueDelivery (with FieldValues, PureReads, NativeReads)

`PureReads` and `NativeReads` are the value reads of the two engines as functions
from a decoder, a field, the receiver's answers and the units that have arrived to
the decoder afterwards: one operator per function of the code
(`ReadVarints`, `SettleBound`, `SchemaBound`, `TakeBlobInto`, `VisitFarray` ...
on both sides, with the native one's C-width arithmetic). `ValueDelivery` gives
both the same field, answers and pieces. `Verdict` is the rule, in the receiver's
terms: the schema's bound, then the caller's buffer, then the cap unless one of
them has taken its place, then the elements that came. `Fields`, `HookAnswers` and
`Rows` say what may be sent and answered at all (`OffersAssumption`).

### EngineTwins (with EncodedValues, FieldWriters, NativeWriters, WrapperArrays)

A writer is a **sequence of steps** (`FieldWriters`): a gate (the sticky error), a
check, the commit of the pending headers, a varint, bytes. `After` takes them in
order until one stops, which is what decides whether a refused call leaves a
header behind; `Run` latches the reason. `IsCall` says what a caller can pass to
each writer. `PureWrite` and `NativeWrite` translate each `write_*` of the two
engines into such a sequence in the order its code has. `EncodedValues` has the
three varint encoders (a loop; unrolled in place; eight groups at once in a
machine word) and zigzag at width. `WrapperArrays` has the reservations and the
comparisons. `EngineTwins` runs both engines through the same calls; `eager` is an
encoder that writes each accepted call at once, from `HeaderFits`, `Fits` and
`FieldBytes`, which share no definition with the writers but the varint.
An execution is about a sender, an array or a comparison (`part`), since they share
nothing. `came` keeps what arrived for each id and `latest` the id that came last,
for `ArrayByRule`; `Elements` says which elements a float array may hold (what
equals what, which bits and which sign go together).

### LazyFraming

An id is the number of the call that opened the sequence, so a token on the wire
names its call. `Begin`, `WriteField`, `DropEmpty`, `EndSequence` and `EndKeep`
are the calls; `Commit` is `_commit_pending`; a call under way is a frame on a
stack that reads its run slot by slot (`Fetch`), may be interrupted by the sink
(`Drain` ... `SinkReturns`, during which the sink may make calls of its own),
and writes tokens (`Write`). `Fetch` and `Write` are separate because
`_emit_varint` is entered with a value already read. `Fail` is a write that
raises, through every call under way. `Due` and `TokenOf` read the canonical framing
off the log of calls alone: which calls leave a token, and which.

### OutputBuffer

A byte is its number in the stream the encoder was asked to write. `Varint`,
`Run`, `LongRun` and `ArrayLoop`/`Element`/`LeaveArray` are the writers' paths;
`PutSome`, `PutDone`, `PutDrains`, `NoRoom` are one turn of `_put`'s loop and
the branches of `_drain`; `SinkCopies`, `SinkTakes`, `SinkInstalls`,
`SinkReturns`, `SinkRaises` are what a flush sink may do, one step at a time;
`TransportDone` is the moment a taken buffer is sent, which reads what is in it
*then*. `units` is what was drained; `room`, `written` and `overflowed` are
history. The sink and the transport are not the repository's code; they do what
`buffer_set`'s documentation allows: copy or take, and having taken, install
before returning.

## 3. What is checked

| Run | Module | Shows |
|---|---|---|
| `cuttings` | MCPushDecoder | over every cutting of 1728 messages, with a buffer of three bytes and hooks that raise (appends, slides, both refusals): chunk invariance, no fabricated field, what the buffer carries, the stream in order, the level of a skip, the refinement of `DecodePromise`, and that a feed returns |
| `afterloss` | MCPushDecoder | *violated*: no fabricated field after a refused carry (finding 1) |
| `handlers` | MCScopeRouting | three handlers and three tables: both stacks mirror the nesting, every hook call is the one owed |
| `storage` | MCScopeRouting | the storage shows the message, through union switches, shared slots and suspensions |
| `tables` | MCBindingTables | whatever is bound, refused, shared or frozen in whatever order: frozen for good and all the way down, nothing derived goes stale, storage covers every slot, the native copy finds the same rows |
| `delivery` | MCValueDelivery | both engines come to the verdict of the rule, store the same, call the same hooks once |
| `onesided` | MCValueDelivery | *violated*: an open side is open (finding 3) |
| `countslot` | MCValueDelivery | *violated*: an array's count is written at its header (finding 4) |
| `calls` | LazyFraming | canonical framing, or a beginning of it after a failure, and the run as a suffix of the open sequences, with a sink that makes calls itself, one sequence open at a time |
| `overwritten` | LazyFraming | *violated*: a run is never overwritten by the sink's (finding 2) |
| `stream` | MCOutputBuffer | the stream is intact, header room kept, buffers filled before refusal |
| `twins` | MCEngineTwins | the encoders write alike, the wire is what was accepted, a refusal is told; arrays grow by the rule; a float array is left out only at its default |

`ChunkInvariance` and `Canonical` compare with a reference definition
(`MessageMeaning`; `Due` and `TokenOf`) that shares no definition with the actions; so do
`StorageShowsMessage`, `VerdictByRule`, `WireIsWhatWasAccepted` and `ArrayByRule`.
`EnginesAgree` and `EnginesWriteAlike` compare two translations of two sources.

### Bounds, and why they suffice

* **Messages.** `cuttings`: every sequence of at most two out of 23 constructs, bare,
  inside a sequence the handler enters and inside one it declines, followed by a
  scalar; 14 constructs in `afterloss`. A defect of resumption needs
  the construct that is cut, its neighbour (what a stale `_keep` would replay)
  and the enclosing sequence; the trailing scalar catches a cursor left wrong.
  The pools have empty payloads and arrays, values of several bytes, headers of
  two bytes, every kind of fault, taken and declined.
* `VarintMax = 2` (10 in the code): the last byte of a varint is still distinct
  from its first, so cutting between them and miscounting happen.
  `MaxDepth = 2` (255): nesting within a skipped sequence and the overrun exist.
* `Reassembly = 3` holds every header and every sound value a handler takes, so each
  can be cut anywhere; `MaxChunk = 5` covers any of them with the beginning of the
  next, and what is left of a chunk when a hook raises need not fit. `afterloss` takes
  a smaller buffer, and an array whose tail it does not hold. `MIN_REASSEMBLY` (16) is scaled with the varints.
* `Followers`: three messages may follow a `reset`, to see that nothing survives.
* `ScopeRouting`, `handlers`: `MaxDepth = 4` (255) lets a handler's scope lie in a
  table's, that one in a child handler's, and one more in it, and is itself
  reached; the ids 1–4 mean a child table, a number, another handler, a decline
  or nothing depending on the scope, so a wrong table or handler in force makes
  a different call. Strings of one to three words against a bound of 1 and a cap
  of 2 give every verdict, and can be cut. `MaxCount = 1` bounds only how often
  one counted sequence occurs; the walk counts without limit.
* `ScopeRouting`, `storage`: a union of a number and a struct that share a slot;
  the struct has a boolean with a default and an arrival count, an array with a
  default, and a union of a string, a buffer to copy into and an array of
  booleans. Every order of arrivals, cuts, mistyped fields and resets of up to
  three levels; the payloads have a word out of range, a string over the cap and
  one that overflows the buffer.
* `LazyFraming`: seven calls (eight in `overwritten`) open, nest, drop and keep three sequences;
  one drain can fall at any token, and the calls left let the sink make
  some within it. `SinkDepth` bounds what a sink has open at a time: with 1 the
  properties hold; with 2 finding 2 appears, which is why there are two runs.
* `OutputBuffer`: sizes 3, 1, 2 with varints of 1–2 bytes and runs of 0–4 give
  every fit: inline, exactly full, split once or several times, longer than the
  scratch buffer. `MaxBytes = 5` fills the largest buffer nearly twice.
  `MaxUnits` bounds only flushes and caller's installs; drains are bounded by
  the bytes.
* `BindingTables`: a struct of two rows and a union of one, each of which may be
  the other's child or its own; every binder method with arguments on both sides
  of its checks. Words of three bits make the widths' ends and defaults outside
  them small; `IdxMax = 1` below `IdMax = 2` gives both searches. One decoder:
  a second adds nothing but another storage for the same frozen tree.
* `ValueDelivery`: fields of up to two units, since a third tells no check more;
  words of three bits and items of two and three, so a destination can be
  narrower than a word and every raw value, the ends and an overlong varint are
  tried. Every answer of a handler or a row is one of `Offers`: bounds below,
  at and above the count, buffers too short, read-only, of the wrong item.
  The walk is not bounded: fields follow one another for ever, with resets.
* `EngineTwins`: `Base = 4` values in a varint's byte (2^7 in the code) make a word
  of 19 bits (ten groups, the last of one bit, as in the code) and let every
  boundary of the eight-groups-at-once path occur. Three calls: one that leaves
  headers pending or an error, the one that stumbles, and one that shows what is
  left. A room of 40 bytes holds everything, one of 9 fills in mid-field. The ids,
  counts and values are the ends of each check and the ones just beyond.
  Arrays of up to three arrivals with ids 0–2 under 24 pairs of bounds; float
  arrays and defaults of up to two elements out of eleven and five.

`CHECK_DEADLOCK FALSE` is given for `LazyFraming`, `OutputBuffer`,
`BindingTables` and `EngineTwins`, where a sticky failure or the bound on calls,
rows and bytes ends the run; `PushDecoder`, `ScopeRouting` and `ValueDelivery`
check for deadlock.

### Fairness

`PushDecoder`'s specification has `WF_vars(Walk)` and nothing else. `Walk` is
the body of a running `feed`: an ordinary synchronous call that continues until
it returns, which `FeedReturns` says it does (run `cuttings`). Nothing is assumed about the caller: feeds and resets need never
happen. The other specifications state no fairness and no liveness.

## 4. What is proved

Proofs hold for **every** value of the constants that satisfies the named
assumptions — any messages, buffer sizes, depths, bounds.

`PushDecoder_proofs` (from `ReassemblyAssumption`, `BoundsAssumption`,
`MessagesAssumption`):

* `TypeCorrect`, `StreamInOrder`, `SkipLevelKept`: `TypeOK`, `InOrder` and
  `SkipLevel` are invariants.
* The invariant is `Buffered /\ Framed`. `InOrder` alone is not inductive: an
  append in place makes window and reassembly buffer one array, and `_retain`
  then leaves the tail where it lies; `Shaped` says so, and that `_keep` is the
  cursor between constructs. `SkipLevel` needs `Resumed`: which suspension may
  be left for which `pc`. The split lets each action cite one lemma for the
  bytes (`Advance`, `Retain`, `Reject` and the three feeds) and speak only of
  the framing itself.

The rest of it also assumes `EncodingAssumption`: constructs are encoded one after the other, header
before value; a header ends in its first byte without a continuation bit; a payload
is as long as announced and of varints there are as many. TLC evaluates it on the
messages of the runs. The second part shows:

* `FieldsGenuine`, `CarriesOnlyInFlight`: `NoFabricatedField` and
  `CarriesConstructInFlight` are invariants, for any message, any buffer and any
  chunks.
* The invariant `Located` is about the cursor as a position in the stream
  (`CursorPlaced`). Where it stands follows from `_pending` alone (`Placed`):
  between two constructs; behind the header of the value that is to be read; or,
  while a value is discarded, as many bytes or varints before its end as
  `_pending` still counts. A verdict, a suspension and a new feed leave that
  position where it is although the buffers change, and so a value is built from
  its construct's bytes and no others. `StillAwaited` is needed for a payload that
  a feed did not complete: the prologue must not let the walk read it. `CarriedPlace`
  says what a feed that suspended has kept. None of these parts is inductive
  alone.
* The window counts from the cursor and the encoding from the start of the stream,
  so most lemmas carry a count of varint ends from one to the other (`EndsIn`,
  `Left`), by cardinalities of finite sets.

* `HearsAsSent`: `HeardAsSent` is an invariant. It is what `ChunkInvariance` says
  while no verdict is given: between feeds the handler has heard exactly the
  constructs it takes that end in the bytes fed so far, each once and in order, and
  the decoder answers COMPLETE exactly when the message may end there — whatever
  the message, the buffer, the chunks and the nesting of declined sequences.
* `Located` says where the cursor is; the invariant `Listening` says that the rest
  of the state is what the message says up to there (`Follows`): `_depth` is the
  number of open sequences, `_skip_depth` the level of the **outermost** declined
  one that is open (`SkipKnown`; lemmas treat how a construct lets a skip go on,
  begins one or ends one), the hook calls name the constructs that have begun and
  are heard, less the one that is waited for (`Told`), and a feed that returned has
  left nothing behind it could have finished (`Exhausted`). The last is what makes
  the state between feeds independent of the cuts: a suspension is in the middle of
  a construct, and then nothing later has ended (`Within`).

Its third part, on verdicts (also from `ItemsAssumption`: two bytes of a
varint value belong to one item exactly if the varint goes on between them, and
only a byte that ends an item, or a payload's, contradicts the schema; TLC evaluates
it on the messages of the runs):

* `ChunksDoNotMatter`: `ChunkInvariance` is an invariant — with verdicts, for any
  message, buffer, nesting and cutting.
* `PromiseKept`: `KeepsPromise` holds of every execution; each step of the decoder is
  a delivery, a verdict, an arrival of bytes, a fresh start or nothing the promise
  speaks of, but for those in which a refused carry has left bytes of the message
  out (`lost'`), until a reset.
* `NothingLost`, `PromiseKeptInRoom`: when no carry is refused. `Roomy` is the
  sizing rule of the code's documentation (the largest value this receiver reads,
  a skipped scalar included, and the largest header), with hooks that do not raise;
  under it, or with a buffer as long as the longest chunk, nothing is lost, and
  the decoder implements `DecodePromise` without exception. It holds at sizes far below the
  whole message: a discarded payload or array takes no room.
* The invariant `Judged` says when a verdict is given. A decoder with a verdict has
  the message's, and has told the handler of everything before the construct that
  earned it (`Sentenced`). One without has passed no byte that earns one
  (`Unjudged`), except the last byte of a header whose value is over the cap, which
  the very next step rejects (`Parked`); a feed that returned has not even been
  fed such a byte. Which byte of a varint earns a verdict depends on how
  long the varint has been: the reference counts it within the whole message, the
  decoder from its cursor, and a discard across feeds in `_pending`'s count
  (`Discarding`); `Run` is what they count. A least-number lemma
  (`LeastNumber`, from the well-foundedness of `<`) finds the first byte at fault.

`LazyFraming_proofs` (from `DepthAssumption`, `CallBounds`):

* `TypeCorrect`, `RunAlwaysFits`: `TypeOK` and `RunFits` are invariants at any
  depth of re-entry.
* `begin_lazy` compares `_depth` with `MAX_DEPTH` and then stores into slot
  `_npending` unchecked. That this is enough rests on how calls and sinks nest, and
  the invariant says it frame by frame (`Nested`): a sink runs at the depth its call
  began with, a call of the sink begins no lower, an end closes a sequence opened
  since. With it, what a sink holds back are sequences of its own (`HeldByTop`),
  and `_npending` cannot pass `_depth`.
* `RunIsSuffix`: `PendingIsSuffix` is an invariant, at any depth of re-entry too.
  `Meant` says what a series of calls means whatever the encoder does: the open
  sequences have the levels 1 to `_depth`, a later one higher, and every end has an
  opener of its own, closed for good. `HeldBack` ties the run to it: between the
  caller's calls it is the innermost open sequences, those with nothing in them, and
  every sequence around them has been framed; while a call writes, every open one
  has. A sink's calls are not the caller's, so they move neither side.
* `WireIsCanonical`, `NothingAhead`, `RunIsKept`: `Canonical`, `NoTokenAhead` and
  `RunNotOverwritten` are invariants, for any depth, any number of calls and drains
  and a failure at any token, *if no sink opens a sequence inside one of its own*
  (`SinkDepth <= 1`). The assumption is needed: with two, run `overwritten` breaks
  it (finding 2). `CallsMade` says of each call under way, by its frame, what it has
  still to write: for the caller's, tokens that are due, in order, all the due ones
  that are not on the wire yet; for a sink's, tokens of the sink. A sink runs only
  after its call has read its first slot, and one open sequence is stored in no
  other (that the swap alone does not protect more is what the finding shows).
  `WireKept` says that the wire and what waits are together what is due, with
  nothing on the wire ahead of what waits; each of writing, calling and failing
  keeps it.

`ScopeRouting_proofs` (from `TableAssumption`, `HandlerAssumption`,
`DepthAssumption`, `PayloadAssumption`):

* `TablesAgree`, `HandlersAgree`: `TablesMirrorScopes` and `HandlersMirrorScopes`
  are invariants, for recursive schemas too and whatever the handlers answer.
* The invariant speaks of the handlers set aside one by one: each was in force
  in the scope around the one handed over (`AsideIsOuter`), which no table opened
  — without that the end of a table's scope, which hands nothing back, could be
  one that should; deeper ones lie above shallower ones (`AsideInOrder`), so that
  looking at the top one is enough; none is missing (`AsideIsAll`); and below the
  first of them the decoder's own handler is in force (`TopFirst`), which is what
  `reset` takes from the bottom of the stack. `NoTableAnywhere` is for a decoder
  without a table, where `_bstack` stays empty; no run has one, the theorems cover
  it. Lemmas treat an opening, a closing, a handing over and a handing back; each
  action cites them.
* `TypeCorrect`: `TypeOK` is an invariant; what is in flight between a header and
  its value is typed only while there is something (`FlightTyped`).
* `CallsAsOwed`: `HeardByItsOwner` is an invariant. On top of the above it needs
  `Heard` (a scope without a table was opened by a handler, which is there to be
  told of its end; one with a table was opened by it) and `RouteKept` (a value
  suspended between two feeds is still routed as its header was, so that it is
  handed over once and by that route).
* `StorageMeansMessage`: `StorageShowsMessage` is an invariant, for any payloads,
  handlers and depth and any tables whose storage is `Laid`: the tables form a tree;
  only options of one union share slots (what `binding.py:1096` counts on); what a
  row writes has room, its default included; a slot that holds a caller's buffer
  takes no built string. This is a property of the schema and of the arrays handed
  in, not of the decoder; `StorageIsLaid` has TLC evaluate it for the schema of run
  `storage`.
* What makes it inductive is `StorageKept`. The tables of the open scopes lie on one
  path that a reader would take too (`InTree`), so no scope writes into an option
  that has been left. Only the slots of an array whose value is in flight may differ
  from the message (`Excepted`), and the value is resumed in its own row
  (`Suspended`). An array's count never says more than its slots hold (`Counted`, in
  `AllRight`), and an arrival is counted only where a row has a slot for it
  (`Unseen`). A reset is where the two sides differ most: the code writes a prepared
  list of slots, the message drops a subtree; `ResetIs` shows that the list is the
  own slots of exactly the places that start afresh. `Selecting` cites it for a
  switch of option; `WritingAt` says that a write to one place disturbs no other a
  reader reaches; `Storing`, `Filling` and `Opening` treat a value, part of an array
  and a begin. Where one would go by induction over the depth of the tree, a least
  level is taken at which the claim fails (`LeastOf`).

`OutputBuffer_proofs` (from `SizesAssumption`, `ModesAssumption`,
`StreamBounds`):

* `StreamAlwaysIntact`, `HeaderRoomAlwaysKept`, `FilledBeforeRefused`,
  `TypeCorrect`.
* The invariant adds to `StreamIntact` a chain of sound units over memory,
  `Within` (a taken unit lies within its buffer), `LetGo` (the installed buffer
  is not one a sink holds, except between the taking and the installation) and
  `Locals` (at each `pc`, `_put`'s view and the array loop's buffer are the
  installed one, and the kept slice lies over it). Without `LetGo` a write could
  change a taken unit; without `Locals` it could go to the wrong buffer. Lemmas
  treat the four kinds of step: one that moves no byte, a fill, an installation,
  a start-over after a drain.

`BindingTables_proofs` (from `TablesAssumption`, `LimitsAssumption`,
`ArgsAssumption`):

* `TypeCorrect`, `FreezeIsDeep`, `PlansStayCurrent`, `CachesStayCurrent`,
  `StorageCovers`, `FrozenStaysFrozen`: `TypeOK`, `FrozenClosedDown`,
  `PlanCurrent`, `CacheCurrent` and `Covered` are invariants and `FrozenForGood`
  holds of every step, for any tables, shared or recursive.
* The invariant adds that what is cached is cached of a frozen table only, and
  that each table's own needs cover its own rows (`Claimed`). A frozen table's tree is frozen
  (`FrozenClosedDown`), so a step that changes an open table changes no frozen
  tree: that is the lemma every binder method cites. `Reachable` is defined as
  the smallest set closed under the child relation rather than by recursion, so
  that no induction over data is needed.
* `StartsAreArrivals`: `DefaultsAreArrivals` is an invariant. A default went through
  the same check of width and the same conversion as a value that arrives
  (`BitsArrive`), except that a number with no default starts from 0 whatever width
  it declares (a signed row from 5 to 9, say): the property states that exception.

* `CopyIsFaithful`: `CompiledFaithful` is an invariant. The argument has two halves.
  A copy is right when it is built (`BuildFaithful`): each table's rows are a slice
  of the whole (`PlaceInFlat`), the rows' plans are laid out with the same lengths
  and so stand at the same places (`SamePlaces`), and on a slice whose ids differ
  (`Unique`, an invariant of its own) the direct index and the search both find the
  one row with an id, or none (`LookupFinds`). And it stays right (`CopiesKept`): only
  frozen tables are copied, and `FrozenStays` says that their trees and plans do not
  change. What `FlattenSeq` gives is found with the least-number principle instead
  of an induction (`LeastOf`); a reset plan is a finite set, which is what makes
  laying it out as a sequence lose nothing (`ResetFinite`).

`ValueDelivery_proofs` (from `WidthsAssumption`, `OffersAssumption`):

* `VerdictIsTheRules`, `ValueHandedOverOnce`: `VerdictByRule` and `HandedOverOnce`
  are invariants, for words and items of any width, fields of any length, any answer
  of a handler or a row, any cap and any pieces.
* `TwoEnginesAgree`, `StorageIsKept`: so are `EnginesAgree` and `DestinationKept`, *if
  what handlers declare of a field is read alike by both engines* (`OffersAlike`).
  `ReadAlike` says what that excludes, and each exclusion is a place where the code
  differs: a bound or an end that is no signed word (native cannot convert it and
  raises `OverflowError`, or drops an upper end it cannot meet), an upper end below 0
  for an unsigned array or with a buffer (native does not convert it to an unsigned
  word), a lower end above 0 for an unsigned array (native's list read has none), and
  with a buffer a signed array's lower end alone (finding 3). The model has the
  overflows (`Fits`), so the theorems say something of an engine that can raise them.
  The offers of run `delivery` meet the condition (`AnswersAlike`, which TLC
  evaluates). Of the count, `DestinationKept` says that a value that ends well has
  it and that one without a slot leaves none; when an array's is written is finding 4.
* The invariant `ByTheRule` says what a decoder is, whatever its history (`Obeys`):
  its answer is `Verdict`; the slots hold a beginning of the values sent and nothing
  else, of an array of integers as far as it came, of any other value all or nothing
  (`Stored`, `Front`); the hooks called are
  `on_field`, `on_schema_bound`, what begins the value however often it was begun,
  and the value at the end if it was handed over (`Handed`). A resumed read
  starts over with the slots half filled; that it comes to the same is why the
  lemmas about a read (`ScalarObeys`, `PayloadObeys`, `VarintsObeys`, `FarrayObeys`,
  and `Mapped...` for a row) ask only that what is stored already is a beginning of
  what will be (`Holding`). The order in which a bound, a buffer and a cap are
  settled disappears in `Settled`: a cap that a buffer or a bound has taken the place
  of is lifted before it can be raised, on every path (`Entered`, `Ready`).
* For the engines, `InStep` says that they are in the same state, except that the
  native one has taken a value it then refuses (`Alike`). Its reads are compared with
  the pure ones function by function (`VarintsAlike`, `PayloadAlike`, ...). What
  differs is arithmetic: open sides as widest ends, one comparison for several
  (`check_fast`), values cut to an item's width. That the cut changes nothing when
  `WidthFits` said so (`ItemKeeps`) rests on facts about powers of two, which are
  proved by counting subsets (`PowerCounts`, `PowerDoubles`), since the provers know
  none.

`EngineTwins_proofs`, the collectors and float arrays (from `IndexAssumption` and
`FloatsAssumption`: an id is an index of the machine, a bound an integer; what
`Elements` says an element of a float array may be; `ArrayIsByRule` has a hypothesis
besides):

* `ArrayIsByRule`: `ArrayByRule` is an invariant, for any ids and order of arrival and
  any bounds that convert to a `Py_ssize_t` (`CapsConvert`): native's `reserve_*` take
  them as that and raise `OverflowError` for any other, the pure ones compare them.
  `ListIs` splits the rule into what each reservation keeps: no two slots
  share an object (`Apart`; without it, storing into one element would show in
  another), the list ends at an admitted element that came and at no lower one than
  any of those (`ListReaches`, which stands for the maximum), and each slot shows what
  came for its index (`Shown`). The gaps a reservation fills lie below an admitted
  index, so nothing can have come for them before (`AdmittedBelow`). The three
  reservations come down to one statement (`Readied`), the two engines' bounds to
  another (`BoundIsReason`).
* `LeftOutAtDefault`: `LeftOutOnlyAtDefault` is an invariant, for arrays and defaults
  of any length. The pure engine's shortcuts and the native engine's comparison of
  bits both come to the rule, element by element (`ByItsBits`).

The senders (`EngineTwins_writers_proofs` for what one call comes to,
`EngineTwins_proofs` for the executions; from `BaseAssumption`: a varint's byte has
two values at least; `WordAssumption`: a field's header, a payload's length and the
narrow width fit the word; `FloatAssumption`: a float is no longer than a payload may
be; `SenderAssumption`: rooms are sizes, and calls are what a caller can pass):

* `TwinsWriteAlike`, `WireIsAccepted`, `RefusalAlwaysTold`: `EnginesWriteAlike`,
  `WireIsWhatWasAccepted` and `RefusalIsTold` are invariants, for any base of the
  varints, any ids, depth and lengths, any values, payloads and elements, any room
  and any order of calls, whether the error is raised or latched, *if the counts
  given to `write_float32_array_bits` convert to a `Py_ssize_t`* (`CountsConvert`):
  native raises `OverflowError` for any other, where the pure encoder refuses it as
  an argument. TLC evaluates both hypotheses in run `twins` (`ArgumentsConvert`).
* The three varint encoders write the same bytes for every word (`InlineAgrees`,
  `WordStore`). They are recursive functions or a `CHOOSE` over group counts; what
  they obey is had by the least-number principle (`LeastOf`, `DescentExists`), and so
  is what `FlattenSeq` makes of sequences (`UptoIs`) and what a list of steps makes
  of an encoder (`AfterGoes`).
* Steps come in two kinds. Checks move nothing but the reason a call stops for
  (`Leads`); writes come behind them, the run of held-back headers first
  (`Reaches`). The engines check in different orders and commit at different points;
  `Agree` says that both come to the same reason and the same bytes all the same, and
  one lemma shows it for each writer (`ScalarWrites`, `TextWrites`, `FloatsWrites`,
  ...). A typed array is different: it may stop between two elements. It is taken
  as a list of parts, and stops behind the same part in both engines (`ArrayWrites`,
  `ArrayBreaks`). `BeginEnds` and `EndEnds` treat the sequence calls.
* The invariant `SenderInv` says that the two encoders are one (`Twins`) and that,
  until a field breaks off, it and what was accepted are in step (`Synced`): the last
  items accepted are the begins of the sequences held back, none of the others was
  opened last, and the bytes with the headers held back are all of it. `EnginesWriteAlike`
  and the equation of `WireIsWhatWasAccepted` are not inductive alone: an end drops
  the sequence opened last exactly when a header is held back, and that the two
  coincide is the second part of `Synced`. An encoder that latches has its error only
  because it is sticky (`IsEncoder`).
* Two definitions of the reference were corrected on the way, neither of which a run had
  caught. `BreaksOff` took the end of a sequence held back, which writes nothing, for
  one that might not fit (`Dropped`), and `CountFits` asked of every bound what only
  the typed array writers ask of theirs.

Only model-checked: `FeedReturns` (liveness under fairness is beyond the prover).
Every other property of a passing run is stated by a theorem above, some of them under
a hypothesis of their own, which the section names.

## 5. Findings

1. **A refused carry is not latched** (`afterloss`). When `_retain`
   (`decoder.py:1381`) refuses a tail, the tail is gone but `_pending` and
   `_resume_kind` still announce the value; a caller that feeds on gets it built
   from later bytes, against `decoder.py:569-576`. With a caller who stops at the
   error, `NoFabricatedField` holds.
2. **The swapped list can be overwritten** (`overwritten`). `_commit_pending`
   (`encoder.py:833`) swaps two lists; a sink that commits a run and then opens
   sequences writes into the list the interrupted commit still reads, against
   `encoder.py:500-502`.
3. **An open upper side refuses** (`onesided`). A handler that answers for a signed
   array with a buffer, a lower end and `None` above gets INVALID for every element
   from 0 up in the native engine: the upper end stays the unsigned maximum, which
   is -1 as `int64_t` (`_speedups.pyx:4285`). The pure engine takes the array;
   `visitor.py:216-218` and `decoder.py:719` say either side may be open.

4. **An array's count comes behind its elements** (`countslot`). `binding.py:301`
   says the count slot is written when the array's count header is read, not when its
   last element lands, and `binding.py:798-800` that a decode that ends inside an array
   may already have written it. `_mapped_field` (`decoder.py:1952`) and the native
   engine (`_speedups.pyx:4737`) write it after the last element, so a reader between
   two feeds can see new elements and the old count.

Observed while reading, with no run of their own:

* Decoder: `README.md:419` sizes the reassembly buffer for the largest single value
  read, but `_reassemble` (`decoder.py:1334`) refuses a chunk when the held bytes
  *and the whole chunk* do not fit; nothing is consumed, and smaller pieces
  succeed. `README.md:436` says a skipped value "is still buffered", while
  `_drain_discard` and `README.md:419` (and `CarriesConstructInFlight`) say it
  never is.
* Builder: the docstring of `Binding` (`binding.py:323-326`) says that `sequence`
  refuses a one-of table until the reset exists; `sequence` refuses none, the reset
  exists, and `storage` checks it. `_add` leaves an unsigned row's lower end at
  the signed minimum, so a negative default passes (`binding.py:892`), which is
  why `DefaultsAreArrivals` leaves those rows out.
* Encoder: `_put`'s "unreachable" branch (`encoder.py:649-652`) is reachable by a
  sink that re-enters the encoder and refills a one-byte buffer; `flush()` with
  nothing but header room standing hands the sink a unit of header room; an array
  writer refuses a bad element after the array's header is written (`broken` in
  `EngineTwins`); a sink that raises something other than `SofaError` does not
  set the sticky latch; an end marker that cannot be written leaves `_depth`
  counting its sequence.
* Where the engines differ in what no run varies: `write_bool` of an object whose
  `__bool__` raises (pure tests it before anything is written, native after the
  header); a non-string for `write_string` (pure: after the sticky gate, with
  `AttributeError`; native: before it, with `TypeError`); a non-number for
  `write_float32` (`struct.error` against `TypeError`); the array writers walk a
  copy (pure) or the caller's own list (native), so an `__index__` that changes
  the list is seen by one of them; the pure array loop keeps its cursor in a
  local, so an `__index__` that calls the encoder is overwritten; an upper end
  above the signed maximum or below zero, or for an unsigned array a lower end above
  zero, in `on_array_begin`'s answer (the theorems about both engines exclude them,
  §4); integers that do not convert to the C type native gives them, which raise
  `OverflowError` there and are compared by the pure engine: a schema bound
  (`_speedups.pyx:4219`), an end of an array (`4503`, `3664`, `3689`), the count of
  `write_float32_array_bits` (`2077`), the bound of a `reserve_*` (`4846`, `4861`,
  `4876`). Both answers are modelled, no run has such a value, and the theorems
  exclude them by named hypotheses (§4); the native engine freezes a table before it has looked at the words.
* `float_arrays.py:74` says that nothing raises; the pure comparison raises what an
  element's own `__eq__` raises.

## 6. What is not modelled, and why

* Calls that the code leaves to the caller's discipline: `reset` inside a hook,
  a chunk modified while `feed` runs, two threads on one object.
* A hook that raises from an `on_*_begin` position (the model's raise is that of
  the hook that is handed the value), and the meaning of bytes that are read as
  a header after a lost carry (the model answers INVALID or stops there).
* In `ScopeRouting`: a hook that raises out of a begin or an end, after which the
  stacks are out of step (nothing says a decode may go on there); the hooks that
  offer a destination (`on_array_begin` and its like); signed and float slots,
  which are stored as the unsigned ones are (`ValueDelivery` has both); the bytes
  of a skipped sub-tree, which are `PushDecoder`'s. `StorageShowsMessage` is stated and proved for schemas
  whose tables form a tree. A table named in two places, or inside itself, writes
  the same slots wherever it is opened, so that no slot means one place of the
  message; for those only the routing is stated (and proved).
* A flush sink that re-enters the encoder *at byte level*: `LazyFraming` has the
  re-entry and abstracts the bytes, `OutputBuffer` the reverse.
* In `EngineTwins`: a value whose own methods call the encoder or change the list
  being written; elements whose comparison raises; a factory that raises inside
  `reserve_elem`. These are the caller's code in the middle of ours, and the
  engines do differ there (see above).
* In `ValueDelivery`: answers of a handler that are no integers where integers are
  asked for; likewise, in `EngineTwins`, a `count` that is no integer (`2.0` is a
  `TypeError` in native and equal to 2 in the pure engine).
* Header words beyond their extent and verdict, and all text of errors.
* The native engine's header walk, reassembly and output buffer: the same algorithm
  in C types, modelled through the Python one and compared by the repository's
  parity tests. What the engines compute from a value, where they do differ in
  shape, is modelled twice.
* Import-time selection, benchmarks, packaging: no behaviour over time.

## 7. Plan

Done: `PushDecoder`, `LazyFraming`, `OutputBuffer`, `ScopeRouting`,
`BindingTables`, `ValueDelivery`, `EngineTwins`, with the proofs of §4. Left:

* `EncoderWithSink`: `LazyFraming` over `OutputBuffer`, so that a re-entering
  sink moves bytes; checks the reachable "unreachable" branch.
* `HeldValues` for shared and recursive tables: which of the places that share a
  table was written last.
