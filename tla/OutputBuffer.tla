---------------------------- MODULE OutputBuffer ----------------------------
(***************************************************************************)
(* The encoder's output buffer (encoder.py): _emit_varint, _put, the array *)
(* writers' inlined loop, _drain, flush and buffer_set.  Bytes go into the *)
(* installed buffer; a full buffer goes to the flush sink, which copies it *)
(* or takes it and installs another, with room for a header in front.      *)
(*                                                                         *)
(* A byte is its number in the stream the encoder was asked to write, so a *)
(* lost, repeated, misplaced or overwritten byte is visible; 0 is a cell   *)
(* the encoder has not written in this installation's header room.         *)
(*                                                                         *)
(* A sink that calls the encoder's writers is LazyFraming's matter.  A     *)
(* writer object is a sink that copies.  A sink either deals with all it   *)
(* is handed or raises without having taken any of it.                     *)
(***************************************************************************)
EXTENDS Integers, Sequences

CONSTANTS
  Sizes,       (* the sizes of the buffers a caller and a sink can install  *)
  Modes,       (* who drains: nobody, the in-memory result, a flush sink    *)
  VarintMax,   (* the longest varint; 10 in the code                        *)
  MaxRun,      (* bound: no string or blob is longer than this              *)
  MaxBytes,    (* bound: no stream is longer than this                      *)
  MaxUnits     (* bound: no flush or caller's install after so many units   *)

Buffers == 1 .. Len(Sizes)

ASSUME SizesAssumption == Sizes \in Seq(Nat) /\ Sizes # <<>> /\ Sizes[1] > 0
ASSUME ModesAssumption == Modes \subseteq {"none", "memory", "sink"}
(* The in-memory encoder's scratch buffer (_SCRATCH_SIZE) takes any varint. *)
ASSUME ScratchAssumption == "memory" \in Modes => VarintMax < Sizes[1]
ASSUME StreamBounds ==
  VarintMax \in Nat \ {0} /\ MaxRun \in Nat /\ MaxBytes \in Nat /\ MaxUnits \in Nat

VARIABLES
  mode,        (* _in_memory, _writer, _flush_sink: fixed at construction   *)
  mem,         (* what each buffer holds                                    *)
  fixed,       (* _fixed, _fixed_ba; _cap is its size                       *)
  cursor,      (* _cursor                                                   *)
  flushView,   (* _flush_view: the buffer the kept slice lies over, or 0    *)
  pc,          (* idle, in an array's loop, in _put, or in the flush sink   *)
  loop,        (* the array loop's locals: its buf and cursor               *)
  put,         (* _put's locals: mv, and how many bytes are left            *)
  handed,      (* the slice the sink was handed, and what it did so far     *)
  room,        (* history: header room in front of what stands              *)
  written,     (* history: stream bytes put into a buffer or the result     *)
  units,       (* history: what was drained, oldest first                   *)
  overflowed   (* history: a write found no room and no sink                *)

buffer == <<mem, fixed, cursor, flushView, room>>
locals == <<loop, put, handed>>
vars == <<mode, buffer, pc, locals, written, units, overflowed>>

(* A unit drained: its stream bytes are lo + 1 .. hi.  buf: the buffer the *)
(* sink took and still holds; 0 once data is a copy.                       *)
Unit == [buf : Nat, room : Nat, lo : Nat, hi : Nat, data : Seq(Nat)]
Idle == [mv |-> 1, left |-> 0, array |-> FALSE]
NoLoop == [buf |-> 1, cursor |-> 0]
NotHanded == [buf |-> 0, n |-> 0, dealt |-> FALSE, swapped |-> FALSE]

TypeOK ==
  /\ mode \in Modes
  /\ DOMAIN mem = Buffers
  /\ \A b \in Buffers : mem[b] \in [1 .. Sizes[b] -> Nat]
  /\ fixed \in Buffers /\ cursor \in 0 .. Sizes[fixed]
  /\ flushView \in {0} \cup Buffers
  /\ pc \in {"idle", "array", "put", "sink"}
  /\ loop \in [buf : Buffers, cursor : Nat]
  /\ put \in [mv : Buffers, left : Nat, array : BOOLEAN]
  /\ handed \in [buf : {0} \cup Buffers, n : Nat, dealt : BOOLEAN, swapped : BOOLEAN]
  /\ room \in Nat /\ written \in Nat
  /\ units \in Seq(Unit)
  /\ overflowed \in BOOLEAN

Init ==
  /\ mode \in Modes
  /\ mem = [b \in Buffers |-> [i \in 1 .. Sizes[b] |-> 0]]
  /\ fixed = 1
  /\ cursor \in 0 .. (IF mode = "memory" THEN 0
                      ELSE IF mode = "none" THEN Sizes[1] ELSE Sizes[1] - 1)
  /\ room = cursor
  /\ flushView = 0
  /\ pc = "idle" /\ loop = NoLoop
  /\ put = Idle /\ handed = NotHanded
  /\ written = 0 /\ units = <<>> /\ overflowed = FALSE

-----------------------------------------------------------------------------
(* The next n stream bytes, written from cell c + 1 of buffer b.           *)
Fill(b, c, n) ==
  /\ mem' = [mem EXCEPT ![b] = [i \in DOMAIN @ |->
               IF i \in c + 1 .. c + n THEN written + (i - c) ELSE @[i]]]
  /\ written' = written + n

(* n cells of buffer b, from cell c + 1.                                   *)
Cells(b, c, n) == [i \in 1 .. n |-> mem[b][c + i]]

Drained == IF units = <<>> THEN 0 ELSE units[Len(units)].hi

(* What has been written since the last drain, in buffer b up to cursor c. *)
Deliver(u) == units' = Append(units, u)
Copied(b, n) ==
  [buf |-> 0, room |-> room, lo |-> Drained, hi |-> Drained + (n - room),
   data |-> Cells(b, room, n - room)]
Taken(b, n) ==
  [buf |-> b, room |-> room, lo |-> Drained, hi |-> Drained + (n - room),
   data |-> <<>>]

Held == {units[i].buf : i \in 1 .. Len(units)}

(* buffer_set.  A sink needs at least MIN_OUTPUT_BUFFER = 1 usable byte.   *)
(* Whoever installs a buffer fills its header room; 0 stands for that.     *)
Install(b, offset) ==
  /\ offset <= Sizes[b] - (IF mode = "none" THEN 0 ELSE 1)
  /\ mem' = [mem EXCEPT ![b] = [i \in DOMAIN @ |-> IF i <= offset THEN 0 ELSE @[i]]]
  /\ fixed' = b /\ cursor' = offset /\ room' = offset
  /\ flushView' = 0

-----------------------------------------------------------------------------
(* Writing.                                                                *)

(* Entering _put, with its hoisted view.                                   *)
EnterPut(n, array) ==
  /\ pc' = "put"
  /\ put' = [mv |-> fixed, left |-> n, array |-> array]
  /\ UNCHANGED <<mem, fixed, flushView, room, written, units>>

(* Mutant: an inlined varint needs no room to spare.                       *)
FitsInlineAlways(b, c) == c < Sizes[b]

FitsInline(b, c) == c + VarintMax <= Sizes[b]

(* _emit_varint: a whole varint's room left, or through _put.              *)
Varint(n) ==
  /\ pc = "idle" /\ n \in 1 .. VarintMax /\ written + n <= MaxBytes
  /\ \/ /\ FitsInline(fixed, cursor)
        /\ Fill(fixed, cursor, n)
        /\ cursor' = cursor + n
        /\ UNCHANGED <<fixed, flushView, room, units, pc, put>>
     \/ /\ ~FitsInline(fixed, cursor)
        /\ EnterPut(n, FALSE)
        /\ UNCHANGED cursor
  /\ UNCHANGED <<mode, loop, handed, overflowed>>

(* _put of a run, in memory and shorter than the buffer, or elsewhere.     *)
Short(n) == mode # "memory" \/ n < Sizes[fixed]

Run(n) ==
  /\ pc = "idle" /\ n \in 0 .. MaxRun /\ written + n <= MaxBytes
  /\ Short(n)
  /\ EnterPut(n, FALSE)
  /\ UNCHANGED <<mode, cursor, loop, handed, overflowed>>

(* A longer run becomes a chunk of the result, after what stands.          *)
LongRun(n) ==
  /\ pc = "idle" /\ n \in 0 .. MaxRun /\ written + n <= MaxBytes
  /\ ~Short(n)
  /\ LET chunk(lo) == [buf |-> 0, room |-> 0, lo |-> lo, hi |-> lo + n,
                       data |-> [i \in 1 .. n |-> written + i]]
     IN units' = IF cursor > 0
                 THEN Append(Append(units, Copied(fixed, cursor)),
                             chunk(Drained + (cursor - room)))
                 ELSE Append(units, chunk(Drained))
  /\ cursor' = 0 /\ room' = 0 /\ written' = written + n
  /\ UNCHANGED <<mode, mem, fixed, flushView, pc, locals, overflowed>>

(* An array's loop works on locals; _put gets the cursor, and the locals   *)
(* are read anew when it returns.                                          *)
ArrayLoop ==
  /\ pc = "idle"
  /\ pc' = "array" /\ loop' = [buf |-> fixed, cursor |-> cursor]
  /\ UNCHANGED <<mode, buffer, put, handed, written, units, overflowed>>

Element(n) ==
  /\ pc = "array" /\ n \in 1 .. VarintMax /\ written + n <= MaxBytes
  /\ \/ /\ FitsInline(loop.buf, loop.cursor)
        /\ Fill(loop.buf, loop.cursor, n)
        /\ loop' = [loop EXCEPT !.cursor = @ + n]
        /\ UNCHANGED <<fixed, cursor, flushView, room, units, pc, put>>
     \/ /\ ~FitsInline(loop.buf, loop.cursor)
        /\ EnterPut(n, TRUE)
        /\ cursor' = loop.cursor
        /\ UNCHANGED loop
  /\ UNCHANGED <<mode, handed, overflowed>>

(* After the last element, or at one that is refused.                      *)
LeaveArray ==
  /\ pc = "array"
  /\ pc' = "idle" /\ cursor' = loop.cursor /\ loop' = NoLoop
  /\ UNCHANGED <<mode, mem, fixed, flushView, room, put, handed, written, units,
                 overflowed>>

-----------------------------------------------------------------------------
(* _put, one turn of its loop.                                             *)

Least(m, n) == IF m <= n THEN m ELSE n

PutSome ==
  /\ pc = "put" /\ put.left > 0 /\ cursor < Sizes[put.mv]
  /\ LET take == Least(Sizes[put.mv] - cursor, put.left) IN
     /\ Fill(put.mv, cursor, take)
     /\ cursor' = cursor + take
     /\ put' = [put EXCEPT !.left = @ - take]
  /\ UNCHANGED <<mode, fixed, flushView, room, pc, loop, handed, units, overflowed>>

PutDone ==
  /\ pc = "put" /\ put.left = 0
  /\ pc' = IF put.array THEN "array" ELSE "idle"
  /\ loop' = IF put.array THEN [buf |-> fixed, cursor |-> cursor] ELSE loop
  /\ put' = Idle
  /\ UNCHANGED <<mode, buffer, handed, written, units, overflowed>>

(* Mutant: a write that does not fit whole finds no room.                  *)
NeedsRoomForAll == pc = "put" /\ put.left > Sizes[put.mv] - cursor

NeedsRoom == pc = "put" /\ put.left > 0 /\ cursor >= Sizes[put.mv]

(* _drain with nobody to drain to.                                         *)
NoRoom ==
  /\ NeedsRoom /\ mode = "none"
  /\ pc' = "idle" /\ put' = Idle /\ loop' = NoLoop /\ overflowed' = TRUE
  /\ UNCHANGED <<mode, buffer, handed, written, units>>

(* _drain in memory: the bytes become a chunk of the result.               *)
Chunk ==
  /\ Deliver(Copied(fixed, cursor))
  /\ cursor' = 0 /\ room' = 0
  /\ UNCHANGED <<mode, mem, fixed, flushView, loop, handed, written, overflowed>>

(* _drain to a sink: it is handed the buffer itself, as the kept slice     *)
(* when the buffer is full.                                                *)
HandOver ==
  LET full == cursor = Sizes[fixed]
      kept == full /\ flushView # 0
  IN
  /\ pc' = "sink"
  /\ handed' = [buf |-> IF kept THEN flushView ELSE fixed,
                n   |-> IF kept THEN Sizes[flushView] ELSE cursor,
                dealt |-> FALSE, swapped |-> FALSE]
  /\ flushView' = IF full /\ ~kept THEN fixed ELSE flushView
  /\ UNCHANGED <<mode, mem, fixed, cursor, room, loop, written, units, overflowed>>

PutDrains ==
  /\ NeedsRoom
  /\ \/ mode = "memory" /\ Chunk /\ put' = [put EXCEPT !.mv = fixed] /\ UNCHANGED pc
     \/ mode = "sink" /\ HandOver /\ UNCHANGED put

(* flush; the header room alone is handed over too.  The sink returns to a *)
(* _put with nothing left.                                                 *)
Flush ==
  /\ pc = "idle" /\ cursor > 0
  /\ Len(units) < MaxUnits
  /\ \/ mode = "memory" /\ Chunk /\ UNCHANGED <<pc, put>>
     \/ mode = "sink" /\ HandOver /\ UNCHANGED put

(* buffer_set by the caller, who has copied what stands in the old buffer. *)
CallerInstalls(b, offset) ==
  /\ pc = "idle" /\ mode # "memory" /\ Len(units) < MaxUnits
  /\ b \notin Held
  /\ Deliver(Copied(fixed, cursor))
  /\ Install(b, offset)
  /\ overflowed' = FALSE
  /\ UNCHANGED <<mode, pc, locals, written>>

-----------------------------------------------------------------------------
(* The flush sink.                                                         *)

SinkCopies ==
  /\ pc = "sink" /\ ~handed.dealt
  /\ Deliver(Copied(handed.buf, handed.n))
  /\ handed' = [handed EXCEPT !.dealt = TRUE]
  /\ UNCHANGED <<mode, buffer, pc, loop, put, written, overflowed>>

(* The sink keeps the buffer for its transport, and owes the encoder one.  *)
SinkTakes ==
  /\ pc = "sink" /\ ~handed.dealt
  /\ Deliver(Taken(handed.buf, handed.n))
  /\ handed' = [handed EXCEPT !.dealt = TRUE]
  /\ UNCHANGED <<mode, buffer, pc, loop, put, written, overflowed>>

(* buffer_set by the sink; once each time it runs, to keep the model small. *)
SinkInstalls(b, offset) ==
  /\ pc = "sink" /\ handed.dealt /\ ~handed.swapped
  /\ b \notin Held
  /\ Install(b, offset)
  /\ handed' = [handed EXCEPT !.swapped = TRUE]
  /\ UNCHANGED <<mode, pc, loop, put, written, units, overflowed>>

(* Mutant: the cursor goes to the front whatever the sink installed.       *)
SinkReturnsToFront ==
  /\ pc = "sink" /\ handed.dealt
  /\ handed.buf \in Held => handed.swapped
  /\ cursor' = 0 /\ UNCHANGED room
  /\ flushView' = IF handed.swapped THEN 0 ELSE flushView
  /\ pc' = "put" /\ put' = [put EXCEPT !.mv = fixed]
  /\ handed' = NotHanded
  /\ UNCHANGED <<mode, mem, fixed, loop, written, units, overflowed>>

(* Mutant: _put goes on with the view it had before the sink ran.          *)
SinkReturnsStale ==
  /\ pc = "sink" /\ handed.dealt
  /\ handed.buf \in Held => handed.swapped
  /\ IF handed.swapped THEN flushView' = 0 /\ UNCHANGED <<cursor, room>>
                       ELSE cursor' = 0 /\ room' = 0 /\ UNCHANGED flushView
  /\ pc' = "put" /\ UNCHANGED put
  /\ handed' = NotHanded
  /\ UNCHANGED <<mode, mem, fixed, loop, written, units, overflowed>>

(* Back in _drain: a sink that installed nothing has copied.  _put reads   *)
(* the view anew.                                                          *)
SinkReturns ==
  /\ pc = "sink" /\ handed.dealt
  /\ handed.buf \in Held => handed.swapped
  /\ IF handed.swapped THEN flushView' = 0 /\ UNCHANGED <<cursor, room>>
                       ELSE cursor' = 0 /\ room' = 0 /\ UNCHANGED flushView
  /\ pc' = "put" /\ put' = [put EXCEPT !.mv = fixed]
  /\ handed' = NotHanded
  /\ UNCHANGED <<mode, mem, fixed, loop, written, units, overflowed>>

(* A sink that raises, having taken nothing or having installed another    *)
(* buffer: the write breaks off, what stands still stands.                 *)
SinkRaises ==
  /\ pc = "sink" /\ handed.dealt = handed.swapped
  /\ pc' = "idle" /\ put' = Idle /\ loop' = NoLoop /\ handed' = NotHanded
  /\ UNCHANGED <<mode, buffer, written, units, overflowed>>

(* The transport is done with a buffer: what it sent is what is in it now. *)
TransportDone(i) ==
  /\ i \in 1 .. Len(units) /\ units[i].buf # 0
  /\ LET u == units[i] IN
     units' = [units EXCEPT ![i] =
                 [u EXCEPT !.buf = 0, !.data = Cells(u.buf, u.room, u.hi - u.lo)]]
  /\ UNCHANGED <<mode, buffer, pc, locals, written, overflowed>>

Next ==
  \/ \E n \in 0 .. MaxBytes : Varint(n) \/ Run(n) \/ LongRun(n) \/ Element(n)
  \/ ArrayLoop \/ LeaveArray \/ PutSome \/ PutDone \/ NoRoom \/ PutDrains \/ Flush
  \/ \E b \in Buffers : \E o \in 0 .. Sizes[b] : CallerInstalls(b, o) \/ SinkInstalls(b, o)
  \/ SinkCopies \/ SinkTakes \/ SinkReturns \/ SinkRaises
  \/ \E i \in 1 .. Len(units) : TransportDone(i)

Spec == Init /\ [][Next]_vars

-----------------------------------------------------------------------------
(* Properties.                                                             *)

(* The cursor in use: an array's loop publishes its own only on leaving.   *)
Cursor == IF pc = "array" THEN loop.cursor ELSE cursor

UnitIntact(u) ==
  /\ u.lo <= u.hi
  /\ \A i \in 1 .. u.hi - u.lo :
       (IF u.buf = 0 THEN u.data[i] ELSE mem[u.buf][u.room + i]) = u.lo + i

(* The stream is intact: the units drained, in order, followed by what     *)
(* stands in the installed buffer, are exactly the bytes written, none     *)
(* lost, repeated or overwritten, however the sink drained them, whenever  *)
(* it took a buffer and wherever a varint or a run was split.  A buffer a  *)
(* sink has taken stays as it was until the transport is done with it.     *)
StreamIntact ==
  /\ \A i \in 1 .. Len(units) :
       /\ UnitIntact(units[i])
       /\ units[i].lo = IF i = 1 THEN 0 ELSE units[i - 1].hi
  /\ pc = "sink" /\ handed.dealt /\ ~handed.swapped => Drained = written
  /\ ~(pc = "sink" /\ handed.dealt /\ ~handed.swapped) =>
       /\ room <= Cursor /\ Drained + (Cursor - room) = written
       /\ \A i \in 1 .. Cursor - room : mem[fixed][room + i] = Drained + i

(* encoder.py, buffer_set and _drain: the header room a caller or a sink   *)
(* reserved is still its own when the first unit of that installation is   *)
(* handed over, and while the transport holds the buffer.                  *)
HeaderRoomKept ==
  /\ \A i \in 1 .. room : mem[fixed][i] = 0
  /\ \A i \in 1 .. Len(units) :
       units[i].buf # 0 => \A j \in 1 .. units[i].room : mem[units[i].buf][j] = 0

(* encoder.py, buffer_set: without a sink "the buffer holds the message or *)
(* reports SofaBufferError", down to the last byte: a write that found no  *)
(* room has filled the buffer, and only a message longer than the buffer   *)
(* gets there.                                                             *)
FullToTheLastByte == overflowed => Cursor = Sizes[fixed]
=============================================================================
