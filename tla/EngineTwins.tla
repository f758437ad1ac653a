----------------------------- MODULE EngineTwins -----------------------------
(***************************************************************************)
(* What a sender and a receiver use beside the decoder, both engines at    *)
(* once and given the same: an encoder through a series of calls, legal    *)
(* and not; the slots of one array through its elements; a float array     *)
(* held against its default.  The three share nothing, so an execution is  *)
(* about one of them.                                                      *)
(***************************************************************************)
EXTENDS NativeWriters, WrapperArrays

CONSTANTS
  MaxCalls,    \* bound: calls of one encoder, arrivals of one array
  Calls,       \* the calls a sender may make
  Rooms,       \* the sizes of its buffer
  Caps, Rcaps, \* the bounds a schema and a receiver give an array
  Ids,         \* the element ids of the wire
  Arrays,      \* the float arrays a field may hold, [elems, list]
  Defaults     \* its declared defaults

(* An id is an index of the machine.                                       *)
ASSUME IndexAssumption ==
  SsizeMax \in Nat /\ Ids \subseteq 0 .. SsizeMax /\ Caps \subseteq Int
  /\ Rcaps \subseteq [int : BOOLEAN, n : Int]

ASSUME FloatsAssumption ==
  /\ \A a \in Arrays : a.list \in BOOLEAN /\ a.elems \in Seq(Elements)
  /\ Defaults \subseteq Seq(STRING)

ASSUME SenderAssumption == Rooms \subseteq Nat /\ \A c \in Calls : IsCall(c)

(* A count and a schema's bound that both engines take: the native one     *)
(* raises an exception of its own where they are no lengths of the machine.*)
CountsConvert == \A c \in Calls : c.op = "floatsBits" => Converts(c.count)
CapsConvert   == Caps \subseteq -SsizeMax - 1 .. SsizeMax

Engines == {"pure", "native"}

VARIABLES
  part,   \* which of the three
  calls,  \* how many calls were made, or elements arrived
  enc,    \* the encoders
  eager,  \* what was accepted, as an encoder that holds nothing back writes it
  broken, \* an array broke off, or the buffer filled, in mid-field
  accepted, \* whether the last call was, "unsure" once a field broke off
  kind, cap, rcap, \* the array: what it holds and its two bounds
  slots, made, told, \* each engine's list, objects made, last refusal
  came,   \* what arrived for each id, in order
  latest, \* the id that arrived last, <<>> before the first
  held,   \* the float array and the default compared last
  same    \* each engine's answer

sender == <<enc, eager, broken, accepted>>
array  == <<kind, cap, rcap, slots, made, told, came, latest>>
floats == <<held, same>>
vars   == <<part, calls, sender, array, floats>>

Init ==
  /\ part \in {"sender", "array", "floats"} /\ calls = 0
  /\ \E sticky \in IF part = "sender" THEN BOOLEAN ELSE {FALSE},
        room \in IF part = "sender" THEN Rooms ELSE {0} :
       enc = [e \in Engines |-> Fresh(sticky, room)]
  /\ eager = <<>> /\ broken = FALSE /\ accepted = "yes"
  /\ kind \in IF part = "array" THEN {"leaf", "elem", "row"} ELSE {"leaf"}
  /\ cap  \in IF part = "array" THEN Caps ELSE {-1}
  /\ rcap \in IF part = "array" THEN Rcaps ELSE {[int |-> FALSE, n |-> 0]}
  /\ slots = [e \in Engines |-> <<>>] /\ made = [e \in Engines |-> 0]
  /\ told = [e \in Engines |-> ""]
  /\ came = [id \in Ids |-> <<>>] /\ latest = <<>>
  /\ held = <<>> /\ same = [e \in Engines |-> FALSE]

-----------------------------------------------------------------------------
(* What a writer promises of a call, whatever order it checks in.          *)
IdFits(c)    == c.id.int /\ c.id.n \in 0 .. IdMax
CountFits(c) ==
  c.bound # <<>> =>
    /\ c.bound[1].int /\ (c.bound[1].n < 0 \/ Len(c.elems) <= c.bound[1].n)
    /\ c.op = "array" => c.bound[1].n \in -SizeMax - 1 .. SizeMax
ValueFits(v, c) == v.int /\ v.n \in Width(c.kind, c.width)

HeaderFits(c) ==
  CASE c.op = "array"  -> IdFits(c) /\ CountFits(c)
    [] c.op = "scalar" -> IdFits(c) /\ ValueFits(c.v, c)
    [] c.op = "bool"   -> IdFits(c)
    [] c.op = "bools"  -> IdFits(c) /\ CountFits(c)
    [] c.op = "floats" -> IdFits(c) /\ CountFits(c) /\ c.ok
    [] c.op = "float"  -> IdFits(c) /\ c.ok
    [] c.op = "bits"   -> IdFits(c) /\ c.ok /\ c.inRange
    [] c.op \in {"text", "blob"} ->
         /\ IdFits(c) /\ c.ok /\ Len(c.payload) <= FixlenMax
         /\ c.bound # <<>> => c.bound[1].int /\ Len(c.payload) <= c.bound[1].n
    [] c.op = "floatsBits" ->
         /\ IdFits(c) /\ c.ok /\ Len(c.payload) % FloatSize = 0
         /\ c.count # <<>> => c.count[1] * FloatSize = Len(c.payload)

Fits(c) == HeaderFits(c) /\ (c.op = "array" => \A i \in DOMAIN c.elems : ValueFits(c.elems[i], c))

Framed(c, wt)    == EncodeVarint[8 * c.id.n + wt]
Payload(c, sub)  == EncodeVarint[8 * Len(c.payload) + sub] \o c.payload
Varints(s)       == FlattenSeq([i \in DOMAIN s |-> EncodeVarint[s[i]]])

FieldBytes(c) ==
  CASE c.op = "scalar" -> Framed(c, WireType[c.kind]) \o EncodeVarint[Raw(c.kind, c.v.n)]
    [] c.op = "bool"   -> Framed(c, WireType.unsigned) \o <<IF c.v THEN 1 ELSE 0>>
    [] c.op = "array"  -> Framed(c, ArrayType[c.kind]) \o EncodeVarint[Len(c.elems)]
         \o Varints([i \in DOMAIN c.elems |-> Raw(c.kind, c.elems[i].n)])
    [] c.op = "bools"  -> Framed(c, ArrayType.unsigned) \o EncodeVarint[Len(c.elems)]
         \o [i \in DOMAIN c.elems |-> IF c.elems[i] THEN 1 ELSE 0]
    [] c.op = "floats" -> Framed(c, ArrayType.fixlen) \o EncodeVarint[Len(c.elems)]
         \o EncodeVarint[8 * FloatSize] \o FlattenSeq(c.elems)
    [] c.op = "floatsBits" ->
         Framed(c, ArrayType.fixlen) \o EncodeVarint[Len(c.payload) \div FloatSize]
         \o EncodeVarint[8 * FloatSize] \o c.payload
    [] OTHER -> Framed(c, WireType.fixlen) \o Payload(c, SubType[c.op])

Opened(id) == EncodeVarint[8 * id + WireType.start]
Ended      == EncodeVarint[WireType.end]
Depth(s)   == Cardinality({i \in DOMAIN s : s[i].is = "begin"})
              - Cardinality({i \in DOMAIN s : s[i].is = "end"})
Item(is, bytes) == [is |-> is, bytes |-> bytes]
Total(s)   == FlattenSeq([i \in DOMAIN s |-> s[i].bytes])

Permitted(c) ==
  CASE c.op = "begin" -> IdFits(c) /\ Depth(eager) < MaxDepth
    [] c.op = "end"   -> Depth(eager) > 0
    [] OTHER          -> Fits(c)

(* A sequence that was opened last, and not to be kept, leaves no trace.   *)
Dropped(c) == c.op = "end" /\ Last(eager).is = "begin" /\ ~c.keep

Extended(c) ==
  CASE c.op = "begin" -> Append(eager, Item("begin", Opened(c.id.n)))
    [] c.op = "end"   -> IF Dropped(c) THEN Front(eager) ELSE Append(eager, Item("end", Ended))
    [] OTHER          -> Append(eager, Item("field", FieldBytes(c)))

(* A header went out and something after it did not.                       *)
BreaksOff(c) ==
  \/ c.op = "array" /\ HeaderFits(c) /\ ~Fits(c)
  \/ /\ Permitted(c) /\ c.op # "begin" /\ ~Dropped(c)
     /\ Len(Total(Extended(c))) > enc["pure"].room

Latched == enc["pure"].error # "none"

Call(c) ==
  /\ part = "sender" /\ calls < MaxCalls
  /\ calls' = calls + 1
  /\ enc' = [e \in Engines |->
               Run(e, enc[e], IF e = "pure" THEN PureWrite(c) ELSE NativeWrite(c))]
  /\ accepted' = IF broken THEN "unsure"
                 ELSE IF Permitted(c) /\ ~BreaksOff(c) THEN "yes" ELSE "no"
  /\ eager' = IF accepted' = "yes" /\ ~Latched THEN Extended(c) ELSE eager
  /\ broken' = (broken \/ (~Latched /\ BreaksOff(c)))
  /\ UNCHANGED <<part, array, floats>>

-----------------------------------------------------------------------------
(* An element's header, and what a generated visitor stores behind it.     *)
Reserved(e, id) ==
  CASE kind = "leaf" -> ReserveLeaf(slots[e], id)
    [] kind = "elem" -> ReserveElem(slots[e], id, made[e])
    [] kind = "row"  -> ReserveRow(slots[e], id, made[e])

Bound(e, id) == IF e = "pure" THEN PureBound(id, cap, rcap) ELSE NativeBound(id, cap, rcap)

(* A leaf is stored over the default; the fields of an element, and the    *)
(* leaves of a row, go into the object the slot holds.                     *)
Stored(list, id, val) ==
  IF kind = "leaf" THEN [list EXCEPT ![id + 1] = [obj |-> 0, val |-> <<val>>]]
  ELSE [i \in DOMAIN list |->
          IF list[i].obj = list[id + 1].obj THEN [list[i] EXCEPT !.val = Append(@, val)]
          ELSE list[i]]

Arrive(id, val) ==
  /\ part = "array" /\ calls < MaxCalls
  /\ calls' = calls + 1
  /\ told' = [e \in Engines |-> Bound(e, id)]
  /\ slots' = [e \in Engines |->
                 IF told'[e] = "" THEN Stored(Reserved(e, id), id, val) ELSE slots[e]]
  /\ made' = [e \in Engines |->
                IF told'[e] = "" /\ kind # "leaf" THEN made[e] + id + 1 ELSE made[e]]
  /\ came' = [came EXCEPT ![id] = Append(@, val)] /\ latest' = <<id>>
  /\ UNCHANGED <<part, kind, cap, rcap, sender, floats>>

Compare(a, v) ==
  /\ part = "floats" /\ held = <<>>
  /\ held' = <<a, v>>
  /\ same' = [e \in Engines |-> IF e = "pure" THEN PureMatches(a.elems, a.list, v)
                                ELSE NativeMatches(a.elems, a.list, v)]
  /\ UNCHANGED <<part, calls, sender, array>>

Next == \/ \E c \in Calls : Call(c)
        \/ \E id \in Ids, val \in 1 .. 2 : Arrive(id, val)
        \/ \E a \in Arrays, v \in Defaults : Compare(a, v)

Spec == Init /\ [][Next]_vars

-----------------------------------------------------------------------------
(* Two engines given the same calls have written the same bytes, hold back *)
(* the same headers, keep the same error and stopped for the same reason,  *)
(* calls that broke off in the middle included.                            *)
EnginesWriteAlike == enc["pure"] = enc["native"]

(* Until a field breaks off half way, the bytes and the headers held back  *)
(* are those of the accepted calls and of nothing else: no refused call    *)
(* left a header, no refused id gave a sequence a frame, no latched error  *)
(* let a later call through.                                               *)
WireIsWhatWasAccepted ==
  ~broken => \A e \in Engines :
    enc[e].out \o FlattenSeq([i \in DOMAIN enc[e].pending |-> Opened(enc[e].pending[i])])
      = Total(eager)

(* A refused call is never silent: it raises, or it leaves an error that   *)
(* stays; and an accepted one raises nothing.                              *)
RefusalIsTold ==
  \A e \in Engines :
    /\ accepted = "yes" => enc[e].stop \in {"none", "skip"}
    /\ accepted = "no"  => enc[e].stop \notin {"none", "skip"} \/ enc[e].error # "none"

(* The list is what the admitted elements make of it, in each engine: as   *)
(* long as the highest index and no longer, defaults in the gaps, a leaf   *)
(* the last one sent, an element all of its fields, a row only what came   *)
(* since it was opened last, no object in two slots; and a refused index   *)
(* changed nothing and was refused for the reason that applies.            *)
Admitted(id) == IF cap >= 0 THEN id < cap ELSE rcap.int /\ id < rcap.n
Reason(id) ==
  IF Admitted(id) THEN "" ELSE IF cap >= 0 THEN "invalid"
  ELSE IF rcap.int /\ rcap.n >= 0 THEN "limit" ELSE "argument"
ArrayByRule ==
  LET Vals(id) == IF id \in Ids THEN came[id] ELSE <<>>
      ids      == {id \in Ids : Admitted(id) /\ came[id] # <<>>}
  IN part = "array" => \A e \in Engines :
       /\ Len(slots[e]) = IF ids = {} THEN 0 ELSE Max(ids) + 1
       /\ \A i \in DOMAIN slots[e] :
            slots[e][i].val = IF kind = "elem" \/ Vals(i - 1) = <<>> THEN Vals(i - 1)
                              ELSE <<Last(Vals(i - 1))>>
       /\ kind # "leaf" => IsInjective([i \in DOMAIN slots[e] |-> slots[e][i].obj])
       /\ latest # <<>> => told[e] = Reason(latest[1])

(* A field that is left out of the message is one the receiver's default   *)
(* restores bit for bit, and one of ordinary numbers that is that default  *)
(* is left out: in both engines, lists and other sequences alike.          *)
LeftOutOnlyAtDefault ==
  held # <<>> =>
    LET a == held[1].elems  bits == [i \in DOMAIN a |-> a[i].bits] IN
    /\ same["pure"] = same["native"]
    /\ "" \notin Range(bits) => BitsEqual(a, held[2]) = (bits = held[2])
    /\ \A e \in Engines :
         (\A i \in DOMAIN a : a[i].type \in {"float", "int"}) => same[e] = (bits = held[2])
=============================================================================
