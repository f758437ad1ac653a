---------------------------- MODULE PushDecoder ----------------------------
(***************************************************************************)
(* The push decoder's byte handling (decoder.py): feed, _reassemble,       *)
(* _retain, the header walk, the resume transactions and the discarding of *)
(* what nobody reads.  A caller cuts one message into chunks any way it    *)
(* likes; the decoder suspends wherever the bytes run out, carries the     *)
(* tail of the construct in flight in the caller's fixed reassembly buffer *)
(* and picks up from there on the next feed.                               *)
(*                                                                         *)
(* A byte is its position in the stream, so a byte read twice, dropped or  *)
(* read out of order is visible; what the byte says (continuation bit,     *)
(* whether it ends an acceptable value) is looked up in wire.  A field is  *)
(* one construct: its header (id, length and count words together) and its *)
(* items.  What the handler answers (take the field or not) is fixed per   *)
(* construct: visitor.py asks every hook to return the same answer each    *)
(* time it is consulted about one field.                                   *)
(***************************************************************************)
EXTENDS Integers, Sequences, FiniteSets

CONSTANTS
  Messages,    (* names of the messages a sender may produce                 *)
  Fields,      (* their constructs: a sequence for each message              *)
  Bytes,       (* their encoding: a sequence of bytes for each message       *)
  Followers,   (* bound: those that may follow a reset                      *)
  Reassembly,  (* len(self._rbuf)                                            *)
  VarintMax,   (* the longest varint in bytes; 10 in the code                *)
  MaxDepth,    (* MAX_DEPTH; 255 in the code                                 *)
  MaxChunk     (* bound: no chunk is longer than this                        *)

ASSUME ReassemblyAssumption == Reassembly \in Nat
ASSUME BoundsAssumption ==
  /\ VarintMax \in Nat \ {0} /\ MaxDepth \in Nat
  /\ MaxChunk \in Nat

Kinds  == {"scalar", "payload", "varints", "start", "end", "bad"}
Values == {"scalar", "payload", "varints"}

(***************************************************************************)
(* One construct: hdr header bytes, then items of the given lengths.       *)
(* want: the handler takes it; over: it exceeds a receiver cap; raises:    *)
(* the hook that is handed the value raises.                               *)
(***************************************************************************)
Construct == [kind : Kinds, hdr : Nat \ {0}, items : Seq(Nat),
              want : BOOLEAN, over : BOOLEAN, raises : BOOLEAN]

(***************************************************************************)
(* One byte: which item of which construct it belongs to (0 the header),   *)
(* its continuation bit, whether it is above 0x01, and whether the value   *)
(* ending in it contradicts the schema (declared width, UTF-8).            *)
(***************************************************************************)
Byte == [c : Nat, k : Nat, cont : BOOLEAN, big : BOOLEAN, bad : BOOLEAN]

ASSUME MessagesAssumption ==
  /\ Followers \subseteq Messages
  /\ \A m \in Messages :
    /\ Fields[m] \in Seq(Construct)
    /\ \A c \in 1 .. Len(Fields[m]) :
         Fields[m][c].kind = "payload" => Len(Fields[m][c].items) = 1
    /\ Bytes[m] \in Seq(Byte)
    /\ \A i \in 1 .. Len(Bytes[m]) : Bytes[m][i].c \in 1 .. Len(Fields[m])

(* The stream positions of a construct, of its header and of its value.    *)
ConstructOf(m, c) == {i \in 1 .. Len(Bytes[m]) : Bytes[m][i].c = c}
HeaderOf(m, c)    == {i \in ConstructOf(m, c) : Bytes[m][i].k = 0}
ValueOf(m, c)     == {i \in ConstructOf(m, c) : Bytes[m][i].k > 0}
Final(S, i)       == i \in S /\ \A j \in S : j <= i

(***************************************************************************)
(* A sender encodes one construct after the other, the header before the   *)
(* value; a header ends in its first byte without a continuation bit, a    *)
(* payload is as long as announced, and of varints there are as many.      *)
(***************************************************************************)
ASSUME EncodingAssumption ==
  \A m \in Messages :
    /\ \A i, j \in 1 .. Len(Bytes[m]) :
         i < j => /\ Bytes[m][i].c <= Bytes[m][j].c
                  /\ Bytes[m][i].c = Bytes[m][j].c /\ Bytes[m][i].k > 0 => Bytes[m][j].k > 0
    /\ \A c \in 1 .. Len(Fields[m]) :
         /\ \E h \in HeaderOf(m, c) :
              /\ Final(HeaderOf(m, c), h)
              /\ \A i \in HeaderOf(m, c) : Bytes[m][i].cont <=> i # h
         /\ \E e \in ConstructOf(m, c) :
              /\ Final(ConstructOf(m, c), e)
              /\ Fields[m][c].kind # "payload" => ~Bytes[m][e].cont
         /\ CASE Fields[m][c].kind = "payload" ->
                   Cardinality(ValueOf(m, c)) = Fields[m][c].items[1]
              [] Fields[m][c].kind = "scalar" ->
                   Cardinality({i \in ValueOf(m, c) : ~Bytes[m][i].cont}) = 1
              [] Fields[m][c].kind = "varints" ->
                   Cardinality({i \in ValueOf(m, c) : ~Bytes[m][i].cont})
                     = Len(Fields[m][c].items)
              [] OTHER -> ValueOf(m, c) = {}

(***************************************************************************)
(* Two bytes of a varint value belong to the same item exactly if the      *)
(* varint goes on between them, and only a byte that ends an item (any one *)
(* of a payload) shows that the value contradicts the schema.              *)
(***************************************************************************)
ASSUME ItemsAssumption ==
  \A m \in Messages : \A c \in 1 .. Len(Fields[m]) :
    /\ Fields[m][c].kind \in {"scalar", "varints"} =>
         \A i, j \in ValueOf(m, c) :
           i < j => (Bytes[m][i].k = Bytes[m][j].k <=> \A x \in i .. j - 1 : Bytes[m][x].cont)
    /\ \A i \in ConstructOf(m, c) :
         Bytes[m][i].bad => Bytes[m][i].k > 0 /\ (Fields[m][c].kind = "payload" \/ ~Bytes[m][i].cont)

VARIABLES
  msg,        (* the message being received                                *)
  fed,        (* how many of them the caller has handed over               *)
  rbuf,       (* _rbuf: stream positions; 0 is a byte of no use any more   *)
  rstart,     (* _rstart                                                   *)
  rend,       (* _rend                                                     *)
  view,       (* _buf[0:_n] while a feed runs: stream positions            *)
  pos,        (* _pos                                                      *)
  keep,       (* _keep: where the transaction in flight began              *)
  inPlace,    (* _buf is _rbuf                                             *)
  pending,    (* _pending: the value the last header announced             *)
  depth,      (* _depth                                                    *)
  skipDepth,  (* _skip_depth                                               *)
  resume,     (* _resume_kind                                              *)
  status,     (* _status                                                   *)
  limit,      (* _limit is not None                                        *)
  pc,         (* where the running feed stands; idle when none runs        *)
  ret,        (* history: how the last feed ended                          *)
  events,     (* history: the hook calls made, with the bytes each got     *)
  broken,     (* history: a hook raised in the last feed, breaking it off  *)
  lost        (* history: a refused carry dropped bytes of this message    *)

wire     == Bytes[msg]
field(c) == Fields[msg][c]

buffer  == <<rbuf, rstart, rend>>
window  == <<view, pos, keep, inPlace>>
framing == <<pending, depth, skipDepth, resume>>
outcome == <<status, limit, ret, broken>>
vars == <<msg, fed, buffer, window, framing, outcome, pc, events, lost>>

-----------------------------------------------------------------------------
NoPending == [tag |-> "none", capped |-> FALSE, c |-> 0,
              bytes |-> 0, vars |-> 0, vb |-> 0]

Pending == [tag : {"none", "discard"} \cup Values, capped : BOOLEAN,
            c : Nat, bytes : Nat, vars : Nat, vb : Nat]

Event == [c : Nat, what : {"open", "close", "value"}, bytes : Seq(Nat)]

TypeOK ==
  /\ msg \in Messages
  /\ fed \in 0 .. Len(wire)
  /\ rbuf \in [1 .. Reassembly -> Nat]
  /\ rstart \in Nat /\ rend \in Nat
  /\ view \in Seq(Nat) /\ pos \in Nat /\ keep \in Nat /\ inPlace \in BOOLEAN
  /\ pending \in Pending
  /\ depth \in Nat /\ skipDepth \in Nat \cup {-1}
  /\ resume \in {"none", "skip", "visit"}
  /\ status \in {"COMPLETE", "INCOMPLETE", "INVALID"} /\ limit \in BOOLEAN
  /\ pc \in {"idle", "walk", "skip", "value"}
  /\ ret \in {"none", "COMPLETE", "INCOMPLETE", "INVALID", "LIMIT",
              "RAISED", "REFUSED"}
  /\ events \in Seq(Event)
  /\ broken \in BOOLEAN /\ lost \in BOOLEAN

Init ==
  /\ msg \in Messages /\ fed = 0
  /\ rbuf = [i \in 1 .. Reassembly |-> 0] /\ rstart = 0 /\ rend = 0
  /\ view = <<>> /\ pos = 0 /\ keep = 0 /\ inPlace = FALSE
  /\ pending = NoPending /\ depth = 0 /\ skipDepth = -1 /\ resume = "none"
  /\ status = "COMPLETE" /\ limit = FALSE /\ ret = "none" /\ broken = FALSE
  /\ pc = "idle" /\ events = <<>> /\ lost = FALSE

-----------------------------------------------------------------------------
(* Leaving feed: the outcome is latched and _retain keeps the tail.        *)

CloseWindow == view' = <<>> /\ pos' = 0 /\ keep' = 0 /\ inPlace' = FALSE

(* Terminal: there is nothing to keep.  A limit leaves _status alone.      *)
Reject(verdict) ==
  /\ pc' = "idle" /\ ret' = verdict
  /\ IF verdict = "LIMIT" THEN limit' = TRUE /\ UNCHANGED status
                          ELSE status' = "INVALID" /\ UNCHANGED limit
  /\ rstart' = 0 /\ rend' = 0 /\ UNCHANGED rbuf
  /\ CloseWindow
  /\ UNCHANGED <<msg, fed, framing, events, broken, lost>>

(* _retain with the cursor at p, for a feed that ends with result r.       *)
Retain(p, r) ==
  LET carry == Len(view) - p IN
  /\ pc' = "idle"
  /\ CloseWindow
  /\ \/ /\ carry = 0
        /\ rstart' = 0 /\ rend' = 0
        /\ ret' = r
        /\ UNCHANGED <<rbuf, lost>>
     \/ /\ carry > 0 /\ inPlace
        /\ rstart' = p
        /\ ret' = r
        /\ UNCHANGED <<rbuf, rend, lost>>
     \/ /\ carry > 0 /\ ~inPlace /\ carry > Reassembly
        /\ ret' = "REFUSED"
        /\ lost' = TRUE
        /\ UNCHANGED buffer
     \/ /\ carry > 0 /\ ~inPlace /\ carry <= Reassembly
        /\ rbuf' = [i \in 1 .. Reassembly |->
                      IF i <= carry THEN view[p + i] ELSE rbuf[i]]
        /\ rstart' = 0 /\ rend' = carry
        /\ ret' = r
        /\ UNCHANGED lost

(* SofaIncompleteError, or the cheap "stopped short" return.               *)
RunOut(p) ==
  /\ Retain(p, "INCOMPLETE")
  /\ status' = "INCOMPLETE" /\ UNCHANGED <<limit, broken>>

(* _suspend: back to where the transaction in flight began.                *)
Suspend == RunOut(keep)

(* Mutant: the transaction is not re-armed at a construct's end.           *)
AdvanceNotArmed(p) ==
  /\ pos' = p /\ UNCHANGED keep
  /\ UNCHANGED <<view, inPlace, buffer, outcome, msg, fed, lost>>

(* The walk goes on from p, which opens the next transaction.              *)
Advance(p) ==
  /\ pos' = p /\ keep' = p
  /\ UNCHANGED <<view, inPlace, buffer, outcome, msg, fed, lost>>

-----------------------------------------------------------------------------
(* Varints.  A varint ends at the byte without a continuation bit, and at  *)
(* its VarintMax-th byte whatever that says: a larger one does not fit.    *)

at(i) == wire[view[i]]

Ends(p) == {q \in p + 1 .. Len(view) : ~at(q).cont}

(* How many bytes of its varint byte q completes, when vb of the varint in *)
(* flight came before the cursor p.                                        *)
Ordinal(p, vb, q) ==
    Cardinality({r \in p + 1 .. q : \A e \in Ends(p) : e < q => e < r})
  + (IF \E e \in Ends(p) : e < q THEN 0 ELSE vb)

Overlong(p, vb, q) == Ordinal(p, vb, q) = VarintMax /\ at(q).big

(* The n-th varint from p ends in byte q (q = p when there is none to read). *)
EndsAt(p, n, q) ==
  \/ n = 0 /\ q = p
  \/ n > 0 /\ q \in Ends(p) /\ Cardinality({e \in Ends(p) : e <= q}) = n

(* Byte q is reached while n varints are read from p.                      *)
Reached(p, n, q) == n > 0 /\ Cardinality({e \in Ends(p) : e < q}) < n

Malformed(p, n, vb) ==
  \E q \in p + 1 .. Len(view) : Reached(p, n, q) /\ Overlong(p, vb, q)

-----------------------------------------------------------------------------
(* feed: _reassemble the chunk, then finish what the last feed left over.  *)

held == rend - rstart

(* The bytes the caller hands over next.                                   *)
Chunk(n) == [i \in 1 .. n |-> fed + i]

(* _value_ready: only a payload of known length is asked about.            *)
ValueReady(v) == pending.tag = "payload" => Len(v) - pos' >= pending.bytes

Enter(v) ==
  /\ view' = v
  /\ keep' = pos'
  /\ pc' = CASE resume = "none"  -> "walk"
             [] resume = "skip"  -> "skip"
             [] resume = "visit" -> "value"
  /\ resume' = IF resume = "visit" /\ ~ValueReady(v) THEN "visit" ELSE "none"
  /\ ret' = "none" /\ broken' = FALSE
  /\ UNCHANGED <<msg, pending, depth, skipDepth, status, limit, events, lost>>

Feedable == pc = "idle" /\ ~limit /\ status # "INVALID"

(* Nothing is held: the chunk is read where it lies.                       *)
FeedAdopt(n) ==
  /\ Feedable /\ held = 0
  /\ fed + n <= Len(wire)
  /\ fed' = fed + n
  /\ rstart' = 0 /\ rend' = 0 /\ UNCHANGED rbuf
  /\ pos' = 0 /\ inPlace' = FALSE
  /\ Enter(Chunk(n))

(* What is held slides to the front when the chunk would run off the end.  *)
Slides(n) == rend + n > Reassembly /\ rstart > 0
(* Mutant: the slide starts one byte early.                                *)
SlidEarly(n) == IF Slides(n)
                THEN [i \in 1 .. Reassembly |->
                        IF i <= held THEN rbuf[rstart + i - 1] ELSE rbuf[i]]
                ELSE rbuf
Slid(n)   == IF Slides(n)
             THEN [i \in 1 .. Reassembly |->
                     IF i <= held THEN rbuf[rstart + i] ELSE rbuf[i]]
             ELSE rbuf
HeldFrom(n)  == IF Slides(n) THEN 0 ELSE rstart

(* Something is held: the chunk is appended in the reassembly buffer.      *)
FeedAppend(n) ==
  /\ Feedable /\ held > 0
  /\ fed + n <= Len(wire)
  /\ HeldFrom(n) + held + n <= Reassembly
  /\ fed' = fed + n
  /\ rstart' = HeldFrom(n) /\ rend' = HeldFrom(n) + held + n
  /\ rbuf' = [i \in 1 .. Reassembly |->
                 IF i \in HeldFrom(n) + held + 1 .. HeldFrom(n) + held + n
                 THEN fed + (i - HeldFrom(n) - held) ELSE Slid(n)[i]]
  /\ pos' = HeldFrom(n) /\ inPlace' = TRUE
  /\ Enter(SubSeq(rbuf', 1, rend'))

(* The chunk and what is held do not fit together: nothing is consumed,    *)
(* but the slide has happened.                                             *)
FeedRefuse(n) ==
  /\ Feedable /\ held > 0
  /\ fed + n <= Len(wire)
  /\ held + n > Reassembly
  /\ rbuf' = Slid(n)
  /\ rstart' = HeldFrom(n) /\ rend' = HeldFrom(n) + held
  /\ ret' = "REFUSED"
  /\ UNCHANGED <<msg, fed, window, framing, status, limit, pc, events,
                 broken, lost>>

(* The resumed payload has not all arrived: INCOMPLETE, no second attempt. *)
StillShort ==
  /\ pc = "value" /\ resume = "visit"
  /\ RunOut(pos)
  /\ UNCHANGED <<msg, fed, framing, events>>

(* reset, between messages.  What the buffer held belongs to no message.   *)
Reset ==
  /\ pc = "idle"
  /\ msg' \in Followers /\ fed' = 0
  /\ rbuf' = [i \in 1 .. Reassembly |-> 0] /\ rstart' = 0 /\ rend' = 0
  /\ pending' = NoPending /\ depth' = 0 /\ skipDepth' = -1 /\ resume' = "none"
  /\ status' = "COMPLETE" /\ limit' = FALSE /\ ret' = "none" /\ broken' = FALSE
  /\ events' = <<>> /\ lost' = FALSE
  /\ UNCHANGED <<window, pc>>

-----------------------------------------------------------------------------
(* _next_wire, first half: _skip_pending discards the value the last       *)
(* header announced and nobody took.  A parked cap does not matter here.   *)

Walking == pc \in {"walk", "skip"}

(* Mutant: a skip that runs out of bytes is not resumed as a skip.         *)
SkipForgotten == resume' = "none"

(* _resume_kind when the bytes run out in the header walk.                 *)
SkipInFlight == resume' = IF pc = "skip" THEN "skip" ELSE "none"

(* A skipped scalar is replayed like any read, so it may suspend.          *)
SkipScalar ==
  /\ Walking /\ pending.tag = "scalar"
  /\ \/ /\ Malformed(pos, 1, 0)
        /\ Reject("INVALID")
     \/ /\ ~Malformed(pos, 1, 0)
        /\ \E q \in pos + 1 .. Len(view) :
             /\ EndsAt(pos, 1, q)
             /\ Advance(q)
             /\ pending' = NoPending
             /\ UNCHANGED <<depth, skipDepth, resume, pc, events>>
     \/ /\ ~Malformed(pos, 1, 0)
        /\ Ends(pos) = {}
        /\ Suspend
        /\ SkipInFlight
        /\ UNCHANGED <<msg, fed, pending, depth, skipDepth, events>>

(* Mutant: the pending value is not replaced by what is left to drop.      *)
DiscardForgotten ==
  /\ Walking /\ pending.tag \in {"payload", "varints"}
  /\ pending' = [pending EXCEPT !.capped = FALSE]
  /\ UNCHANGED <<msg, fed, buffer, window, depth, skipDepth, resume, outcome,
                 pc, events, lost>>

(* Anything longer becomes a count of bytes and varints still to drop ...  *)
Discard ==
  /\ Walking /\ pending.tag \in {"payload", "varints"}
  /\ pending' = [pending EXCEPT !.tag = "discard", !.capped = FALSE]
  /\ UNCHANGED <<msg, fed, buffer, window, depth, skipDepth, resume, outcome,
                 pc, events, lost>>

(* Mutant: what came before the payload in the chunk counts as dropped.    *)
UndrainedFromStart == pending.bytes - Len(view)

(* The bytes of a discarded payload the chunk does not have.               *)
Undrained == pending.bytes - (Len(view) - pos)

(* ... and _drain_discard drops what this chunk has of it.  No rewind: the *)
(* cursor ends at the end of the chunk and nothing is carried.             *)
DrainBytes ==
  /\ Walking /\ pending.tag = "discard" /\ pending.bytes > 0
  /\ \/ /\ pos + pending.bytes <= Len(view)
        /\ Advance(pos + pending.bytes)
        /\ pending' = NoPending
        /\ UNCHANGED <<depth, skipDepth, resume, pc, events>>
     \/ /\ pos + pending.bytes > Len(view)
        /\ RunOut(Len(view))
        /\ pending' = [pending EXCEPT !.bytes = Undrained]
        /\ SkipInFlight
        /\ UNCHANGED <<msg, fed, depth, skipDepth, events>>

(* Mutant: a varint split over chunks is counted from the last cut.        *)
InFlightHere ==
  Cardinality({r \in pos + 1 .. Len(view) : \A e \in Ends(pos) : e < r})

(* The bytes of the varint in flight are counted across chunks.            *)
InFlight ==
    Cardinality({r \in pos + 1 .. Len(view) : \A e \in Ends(pos) : e < r})
  + (IF Ends(pos) = {} THEN pending.vb ELSE 0)

DrainVarints ==
  /\ Walking /\ pending.tag = "discard" /\ pending.bytes = 0
  /\ \/ /\ Malformed(pos, pending.vars, pending.vb)
        /\ Reject("INVALID")
     \/ /\ ~Malformed(pos, pending.vars, pending.vb)
        /\ \E q \in pos .. Len(view) :
             /\ EndsAt(pos, pending.vars, q)
             /\ Advance(q)
             /\ pending' = NoPending
             /\ UNCHANGED <<depth, skipDepth, resume, pc, events>>
     \/ /\ ~Malformed(pos, pending.vars, pending.vb)
        /\ Cardinality(Ends(pos)) < pending.vars
        /\ RunOut(Len(view))
        /\ pending' = [pending EXCEPT !.vars = @ - Cardinality(Ends(pos)),
                                      !.vb = InFlight]
        /\ SkipInFlight
        /\ UNCHANGED <<msg, fed, depth, skipDepth, events>>

-----------------------------------------------------------------------------
(* _next_wire, second half: the next header, or the end of the chunk.      *)

AtHeader == Walking /\ pending.tag = "none"

(* The byte a sender means as the first of a construct.                    *)
FirstByte(i) == view[i] > 1 => wire[view[i] - 1].c # at(i).c

(* The header from the cursor is complete in byte q.                       *)
HeaderEnd(q) == q \in Ends(pos) /\ \A e \in Ends(pos) : q <= e

CleanEnd ==
  /\ AtHeader /\ pos = Len(view) /\ depth = 0
  /\ Retain(pos, "COMPLETE")
  /\ status' = "COMPLETE"
  /\ UNCHANGED <<msg, fed, framing, limit, broken, events>>

(* Out of bytes between constructs of an open sequence, or in a header.    *)
HeaderShort ==
  /\ AtHeader /\ Ends(pos) = {} /\ (pos < Len(view) \/ depth > 0)
  /\ Suspend
  /\ SkipInFlight
  /\ UNCHANGED <<msg, fed, pending, depth, skipDepth, events>>

(* A header no continuation of bytes can repair.                           *)
HeaderInvalid ==
  /\ AtHeader
  /\ \E q \in pos + 1 .. Len(view) :
       /\ HeaderEnd(q)
       /\ LET f == field(at(q).c) IN
          \/ ~FirstByte(pos + 1)      \* bytes that were never a header
          \/ f.kind = "bad"
          \/ f.kind = "end" /\ depth = 0
          \/ f.kind = "start" /\ depth >= MaxDepth
  /\ Reject("INVALID")

(* A header this decoder accepts: construct c, ending in byte q.           *)
Header(q, c, kinds) ==
  /\ AtHeader
  /\ HeaderEnd(q)
  /\ FirstByte(pos + 1)
  /\ c = at(q).c
  /\ field(c).kind \in kinds
  /\ Advance(q)

Heard(c, what, bytes) ==
  events' = Append(events, [c |-> c, what |-> what, bytes |-> bytes])

SequenceStart ==
  \E q \in pos + 1 .. Len(view), c \in 1 .. Len(Fields[msg]) :
    /\ Header(q, c, {"start"})
    /\ depth < MaxDepth
    /\ depth' = depth + 1
    /\ \/ /\ pc = "walk" /\ field(c).want
          /\ Heard(c, "open", <<>>)
          /\ UNCHANGED <<skipDepth, pc>>
       \/ /\ pc = "walk" /\ ~field(c).want
          /\ pc' = "skip" /\ skipDepth' = depth
          /\ UNCHANGED events
       \/ /\ pc = "skip"
          /\ UNCHANGED <<skipDepth, pc, events>>
    /\ UNCHANGED <<pending, resume>>

SequenceEnd ==
  \E q \in pos + 1 .. Len(view), c \in 1 .. Len(Fields[msg]) :
    /\ Header(q, c, {"end"})
    /\ depth > 0
    /\ depth' = depth - 1
    /\ \/ /\ pc = "walk"
          /\ Heard(c, "close", <<>>)
          /\ UNCHANGED <<skipDepth, pc>>
       \/ /\ pc = "skip" /\ depth - 1 > skipDepth
          /\ UNCHANGED <<skipDepth, pc, events>>
       \/ /\ pc = "skip" /\ depth - 1 <= skipDepth
          /\ pc' = "walk" /\ skipDepth' = -1
          /\ UNCHANGED events
    /\ UNCHANGED <<pending, resume>>

(* A value: parked, and read at once if the handler takes it.              *)
Park(c) ==
  LET f == field(c) IN
  [tag |-> f.kind, capped |-> f.over, c |-> c,
   bytes |-> IF f.kind = "payload" THEN f.items[1] ELSE 0,
   vars |-> CASE f.kind = "scalar" -> 1
              [] f.kind = "varints" -> Len(f.items)
              [] f.kind = "payload" -> 0,
   vb |-> 0]

ValueHeader ==
  \E q \in pos + 1 .. Len(view), c \in 1 .. Len(Fields[msg]) :
    /\ Header(q, c, Values)
    /\ pending' = Park(c)
    /\ pc' = IF pc = "walk" /\ field(c).want THEN "value" ELSE pc
    /\ UNCHANGED <<depth, skipDepth, resume, events>>

-----------------------------------------------------------------------------
(* _visit_value / _mapped_field: the value the handler takes.              *)

Reading == pc = "value" /\ resume = "none"

OverCap == Reading /\ pending.capped /\ Reject("LIMIT")

(* The value's last byte, once all of it is here.                          *)
ValueEnd(q) ==
  IF pending.tag = "payload" THEN q = pos + pending.bytes
                             ELSE EndsAt(pos, pending.vars, q)

(* An element is judged when its own last byte is decoded, a payload when  *)
(* all of it is here.                                                      *)
Unacceptable ==
  IF pending.tag = "payload"
  THEN /\ pos + pending.bytes <= Len(view)
       /\ \E q \in pos + 1 .. pos + pending.bytes : at(q).bad
  ELSE \/ Malformed(pos, pending.vars, 0)
       \/ \E q \in Ends(pos) : Reached(pos, pending.vars, q) /\ at(q).bad

ValueInvalid == Reading /\ ~pending.capped /\ Unacceptable /\ Reject("INVALID")

(* Consume first, commit after; then the typed hook runs, and may raise:   *)
(* the exception passes through feed, whose _retain keeps the rest.        *)
TakeValue ==
  /\ Reading /\ ~pending.capped /\ ~Unacceptable
  /\ \E q \in pos .. Len(view) :
       /\ ValueEnd(q)
       /\ Heard(pending.c, "value", SubSeq(view, pos + 1, q))
       /\ \/ /\ ~field(pending.c).raises
             /\ Advance(q)
             /\ pc' = "walk"
          \/ /\ field(pending.c).raises
             /\ Retain(q, "RAISED")
             /\ broken' = TRUE
             /\ UNCHANGED <<msg, fed, status, limit>>
  /\ pending' = NoPending
  /\ UNCHANGED <<depth, skipDepth, resume>>

ValueShort ==
  /\ Reading /\ ~pending.capped /\ ~Unacceptable
  /\ ~ \E q \in pos .. Len(view) : ValueEnd(q)
  /\ Suspend
  /\ resume' = "visit"
  /\ UNCHANGED <<msg, fed, pending, depth, skipDepth, events>>

-----------------------------------------------------------------------------
Feed == \E n \in 0 .. MaxChunk : FeedAdopt(n) \/ FeedAppend(n) \/ FeedRefuse(n)

Walk ==
  \/ StillShort
  \/ SkipScalar \/ Discard \/ DrainBytes \/ DrainVarints
  \/ CleanEnd \/ HeaderShort \/ HeaderInvalid
  \/ SequenceStart \/ SequenceEnd \/ ValueHeader
  \/ OverCap \/ ValueInvalid \/ TakeValue \/ ValueShort

Next == Feed \/ Walk \/ Reset

(* feed is a call: once entered it runs to its return.  Whether another    *)
(* chunk ever comes is the caller's business.                              *)
Spec == Init /\ [][Next]_vars /\ WF_vars(Walk)

-----------------------------------------------------------------------------
(* Properties.                                                             *)

Meaning == INSTANCE MessageMeaning

Delivered == [i \in 1 .. Len(events) |-> events[i].c]
Verdict == IF limit THEN "LIMIT" ELSE status

(* Chunk invariance (test_resume, test_reassembly): whenever no feed runs, *)
(* what the handler has heard and what the decoder answers depend on the   *)
(* bytes fed so far and not on where the chunks were cut, how often a      *)
(* construct was retried or whether the buffer slid.  A feed a handler     *)
(* broke off by raising has not looked at the rest of its chunk yet.       *)
ChunkInvariance ==
  pc = "idle" /\ ~lost /\ ~broken =>
    /\ Meaning!Listing(Delivered, Meaning!HeardBy(msg, fed))
    /\ Verdict = Meaning!Outcome(msg, fed)

(* No fabricated field (decoder.py, "resume transactions"): every value    *)
(* the handler got was built from exactly the bytes its sender wrote for   *)
(* that field, first to last.                                              *)
Genuine(e) ==
  /\ {e.bytes[i] : i \in 1 .. Len(e.bytes)} = IF e.what = "value" THEN ValueOf(msg, e.c) ELSE {}
  /\ \A i \in 1 .. Len(e.bytes) - 1 : e.bytes[i] < e.bytes[i + 1]

AllGenuine == \A e \in {events[i] : i \in 1 .. Len(events)} : Genuine(e)

NoFabricatedField == ~lost => AllGenuine

(* The same promise with no exception for a caller who feeds on after      *)
(* feed raised SofaArgumentError on the way out.                           *)
NoFabricatedFieldEver == AllGenuine

(* The reassembly buffer holds the construct in flight and nothing else: a *)
(* header, a value the handler takes, or a skipped scalar.  A skipped      *)
(* payload or array never occupies it, whatever its size, and neither does *)
(* anything after a verdict.  (A carry that was refused left a gap in the  *)
(* stream: what is carried from then on is no construct's.)                *)
Carried == {rbuf[i] : i \in rstart + 1 .. rend}

CarriesConstructInFlight ==
  pc = "idle" /\ ~broken /\ ~lost /\ held > 0 =>
    /\ status = "INCOMPLETE" /\ ~limit
    /\ \E c \in Meaning!Index(msg) :
         /\ Carried \subseteq Meaning!Of(msg, c)
         /\ \/ Carried \subseteq Meaning!OfItem(msg, c, 0)
            \/ Carried \cap Meaning!OfItem(msg, c, 0) = {}
               /\ (resume = "visit" \/ pending.tag = "scalar")

(* The bytes the walk is about to read are the next bytes of the stream,   *)
(* in order and without a gap, as long as no carry was refused: through    *)
(* every copy into, append to and slide of the reassembly buffer.          *)
InOrder ==
  ~lost => /\ \A i \in pos + 1 .. Len(view) : view[i] = fed - Len(view) + i
           /\ pc = "idle" =>
                \A i \in rstart + 1 .. rend : rbuf[i] = fed - rend + i

(* The level a skip ends at (_skip_depth) survives every suspension: the   *)
(* decoder knows it exactly while it skips, also across feeds, and it lies *)
(* below the open sequences, of which there are never more than MaxDepth.  *)
(* A value the handler waits for is never inside a skipped sequence.       *)
Skipping == pc = "skip" \/ resume = "skip"

SkipLevel ==
  /\ depth <= MaxDepth /\ skipDepth < depth
  /\ status # "INVALID" => (Skipping <=> skipDepth >= 0)
  /\ resume = "visit" \/ pc = "value" =>
       pending.tag \in Values /\ skipDepth = -1

(* A running feed returns, whatever the bytes: each step of the walk uses  *)
(* up bytes of the chunk, drops what is pending, or ends the feed.         *)
FeedReturns == pc # "idle" ~> pc = "idle"

(* Push-feed decoding keeps its promise (DecodePromise) step by step, but  *)
(* for the steps in which bytes of the message are lost or were before.    *)
Promise == INSTANCE DecodePromise WITH
             delivered <- Delivered,
             verdict <- IF limit THEN "LIMIT"
                        ELSE IF status = "INVALID" THEN "INVALID" ELSE "open"

KeepsPromise == Promise!Init /\ [][Promise!Next \/ lost']_(Promise!vars)
=============================================================================
