----------------------------- MODULE FieldWriters -----------------------------
(***************************************************************************)
(* The writers of the encoder, in both engines, as the checks and the      *)
(* writes each makes in the order it makes them.  A check that fails stops *)
(* the call there: with "argument" or "buffer", which the encoder reports  *)
(* or latches, or with "python", an exception of the language that passes  *)
(* through.  What was written before stays written.                        *)
(*                                                                         *)
(* A call is a record, see IsCall.  An integer argument is [int, n], int   *)
(* FALSE for an object that is none.                                       *)
(***************************************************************************)
EXTENDS EncodedValues, SequencesExt

CONSTANTS
  IdMax,     \* the largest field id
  FixlenMax, \* the longest payload
  SizeMax,   \* the largest length of the machine, which a cap is converted to
  Narrow,    \* the largest value of the unsigned width that is no 64 bits
  MaxDepth   \* open sequences

(* What fits the word: a header, the longest payload's, the widths.        *)
ASSUME WordAssumption ==
  /\ IdMax \in Nat /\ 8 * IdMax + 7 <= UnsignedMax
  /\ FixlenMax \in Nat /\ 8 * FixlenMax + 3 <= UnsignedMax
  /\ Narrow \in 0 .. UnsignedMax /\ SizeMax \in Nat /\ MaxDepth \in Nat

WireType  == [unsigned |-> 0, signed |-> 1, fixlen |-> 2, start |-> 6, end |-> 7]
ArrayType == [unsigned |-> 3, signed |-> 4, fixlen |-> 5]
SubType  == [float |-> 0, bits |-> 0, text |-> 2, blob |-> 3]
FloatSize == 2

ASSUME FloatAssumption == FloatSize <= FixlenMax

Format(kind) == IF kind = "unsigned" THEN 0 .. UnsignedMax ELSE SignedMin .. SignedMax
Width(kind, w) ==
  IF w = "wide" THEN Format(kind)
  ELSE IF kind = "unsigned" THEN 0 .. Narrow
  ELSE -((Narrow + 1) \div 2) .. Narrow \div 2
Raw(kind, n) == IF kind = "unsigned" THEN n ELSE ZigZag(n)

(* The arguments of each writer, as their types and conversions leave them:*)
(* ok and inRange say whether an object is what the writer takes, payload  *)
(* is its bytes, bound and count are <<>> when the caller gives none.  A   *)
(* list never has more elements than the word counts.                      *)
Arg == [int : BOOLEAN, n : Int]
IsCall(c) ==
  /\ c.op \in {"scalar", "bool", "float", "bits", "text", "blob", "array", "bools", "floats",
              "floatsBits", "begin", "end"}
  /\ c.op # "end" => c.id \in Arg
  /\ c.op \in {"scalar", "array"} => c.kind \in {"unsigned", "signed"} /\ c.width \in {"wide", "narrow"}
  /\ c.op = "scalar" => c.v \in Arg
  /\ c.op = "bool" => c.v \in BOOLEAN
  /\ c.op \in {"float", "bits", "text", "blob", "floats", "floatsBits"} => c.ok \in BOOLEAN
  /\ c.op \in {"float", "bits", "text", "blob", "floatsBits"} => c.payload \in Seq(Nat)
  /\ c.op \in {"float", "bits"} => Len(c.payload) = FloatSize
  /\ c.op = "bits" => c.inRange \in BOOLEAN
  /\ c.op = "array" => c.elems \in Seq(Arg)
  /\ c.op = "bools" => c.elems \in Seq(BOOLEAN)
  /\ c.op = "floats" => c.elems \in Seq(Seq(Nat))
  /\ c.op \in {"array", "bools", "floats"} => Len(c.elems) <= UnsignedMax
  /\ c.op = "floatsBits" => Len(c.payload) <= UnsignedMax /\ c.count \in Seq(Int) /\ Len(c.count) <= 1
  /\ c.op \in {"text", "blob", "array", "bools", "floats"} => c.bound \in Seq(Arg) /\ Len(c.bound) <= 1
  /\ c.op = "end" => c.keep \in BOOLEAN

-----------------------------------------------------------------------------
(* An encoder over a buffer of room bytes that nobody drains, and its      *)
(* steps.  A sticky one latches its first error.                           *)
Fresh(sticky, room) ==
  [out |-> <<>>, pending |-> <<>>, depth |-> 0, error |-> "none", stop |-> "none",
   sticky |-> sticky, room |-> room]

Gate          == [do |-> "gate"]
Check(ok, as) == [do |-> "check", ok |-> ok, as |-> as]
Commit        == [do |-> "commit"]
Varint(v)     == [do |-> "varint", v |-> v]
Bytes(b)      == [do |-> "bytes", bytes |-> b]
Enter         == [do |-> "enter"]
Inside        == [do |-> "inside"]
Pushed(id)    == [do |-> "push", id |-> id]
Closed(keep)  == [do |-> "close", keep |-> keep]

(* _put: the bytes that fit are written, then the buffer is full.          *)
Put(s, b) ==
  LET left == s.room - Len(s.out) IN
  IF s.stop # "none" THEN s
  ELSE IF Len(b) <= left THEN [s EXCEPT !.out = @ \o b]
  ELSE [s EXCEPT !.out = @ \o SubSeq(b, 1, left), !.stop = "buffer"]

EmitVarint(engine, s, v) ==
  Put(s, IF engine = "native" THEN VarintPut(v)
         ELSE IF s.room - Len(s.out) >= VarintMax THEN InlineVarint[v]
         ELSE EncodeVarint[v])

(* The run is emptied before its first header goes out.                    *)
CommitPending(engine, s) ==
  LET done[i \in 0 .. Len(s.pending)] ==
        IF i = 0 THEN [s EXCEPT !.pending = <<>>]
        ELSE EmitVarint(engine, done[i - 1], 8 * s.pending[i] + WireType.start)
  IN done[Len(s.pending)]

Push(s, id) == [s EXCEPT !.pending = Append(@, id), !.depth = @ + 1]

(* A sequence that is still held back vanishes, unless it is to be kept.   *)
Close(engine, s, keep) ==
  IF s.pending # <<>> /\ ~keep
  THEN [s EXCEPT !.pending = Front(@), !.depth = @ - 1]
  ELSE LET t == EmitVarint(engine, CommitPending(engine, s), WireType.end)
       IN IF t.stop = "none" THEN [t EXCEPT !.depth = @ - 1] ELSE t

Do(engine, s, step) ==
  IF s.stop # "none" THEN s
  ELSE CASE step.do = "gate"   -> IF s.sticky /\ s.error # "none" THEN [s EXCEPT !.stop = "skip"] ELSE s
         [] step.do = "check"  -> IF step.ok THEN s ELSE [s EXCEPT !.stop = step.as]
         [] step.do = "commit" -> CommitPending(engine, s)
         [] step.do = "varint" -> EmitVarint(engine, s, step.v)
         [] step.do = "bytes"  -> Put(s, step.bytes)
         [] step.do = "enter"  -> IF s.depth < MaxDepth THEN s ELSE [s EXCEPT !.stop = "argument"]
         [] step.do = "push"   -> Push(s, step.id)
         [] step.do = "inside" -> IF s.depth > 0 THEN s ELSE [s EXCEPT !.stop = "argument"]
         [] step.do = "close"  -> Close(engine, s, step.keep)

(* Broken on purpose: a full buffer ends the call and is latched nowhere.  *)
FailArguments(s) ==
  IF s.sticky /\ s.stop \in {"argument", "buffer"}
  THEN [s EXCEPT !.error = IF @ = "none" /\ s.stop = "argument" THEN "argument" ELSE @, !.stop = "none"]
  ELSE s

(* The first error of a sticky encoder is kept and the call returns.       *)
Fail(s) ==
  IF s.sticky /\ s.stop \in {"argument", "buffer"}
  THEN [s EXCEPT !.error = IF @ = "none" THEN s.stop ELSE @, !.stop = "none"]
  ELSE s

After(engine, s, steps) ==
  LET done[i \in 0 .. Len(steps)] == IF i = 0 THEN s ELSE Do(engine, done[i - 1], steps[i])
  IN done[Len(steps)]

Run(engine, s, steps) == Fail(After(engine, [s EXCEPT !.stop = "none"], steps))

-----------------------------------------------------------------------------
(* The bound a call brings along: <<>> none, or [int, n].                  *)
Maxlen(n, bound) ==
  IF bound = <<>> THEN <<>>
  ELSE <<Check(bound[1].int, "python"), Check(n <= bound[1].n, "argument")>>

Cap(n, bound) ==
  IF bound = <<>> THEN <<>>
  ELSE <<Check(bound[1].int, "python"), Check(bound[1].n < 0 \/ n <= bound[1].n, "argument")>>

(* A typed array writer's cap is an integer of the machine, made one       *)
(* before anything else is looked at.                                      *)
CapOf(bound) ==
  <<Check(bound[1].int, "python"), Check(bound[1].n \in -SizeMax - 1 .. SizeMax, "python")>>

-----------------------------------------------------------------------------
(* encoder.py                                                              *)

(* Broken on purpose: the id is looked at after the run has been written.  *)
HeaderLate(id, wt) ==
  <<Commit, Check(id.int, "argument"), Check(id.n \in 0 .. IdMax, "argument"),
    Varint(8 * id.n + wt)>>

Header(id, wt) ==
  <<Check(id.int, "argument"), Check(id.n \in 0 .. IdMax, "argument"), Commit,
    Varint(8 * id.n + wt)>>

PureScalar(c) ==
  <<Gate, Check(c.v.int, "argument"), Check(c.v.n \in Format(c.kind), "argument"),
    Check(c.v.n \in Width(c.kind, c.width), "argument")>>
  \o Header(c.id, WireType[c.kind]) \o <<Varint(Raw(c.kind, c.v.n))>>

PureBool(c) ==
  PureScalar([kind |-> "unsigned", id |-> c.id, width |-> "wide",
              v |-> [int |-> TRUE, n |-> IF c.v THEN 1 ELSE 0]])

WriteFixlen(c, n) ==
  <<Gate, Check(n <= FixlenMax, "argument")>> \o Header(c.id, WireType.fixlen)
  \o <<Varint(8 * n + SubType[c.op]), Bytes(c.payload)>>

PureFloat(c) == <<Check(c.ok, "python")>> \o WriteFixlen(c, Len(c.payload))
PureFloatBits(c) ==
  <<Gate, Check(c.ok, "argument"), Check(c.inRange, "argument")>> \o WriteFixlen(c, Len(c.payload))

PureText(c) ==
  <<Gate, Check(c.ok, "argument")>> \o Maxlen(Len(c.payload), c.bound)
  \o WriteFixlen(c, Len(c.payload))

PureBlob(c) ==
  <<Gate, Check(c.ok, "argument"), Check(Len(c.payload) <= FixlenMax, "argument")>>
  \o Maxlen(Len(c.payload), c.bound) \o WriteFixlen(c, Len(c.payload))

ArrayHeader(c, wt, n) == Header(c.id, wt) \o <<Varint(n)>>

PureElems(c) ==
  FlattenSeq([i \in DOMAIN c.elems |->
    <<Check(c.elems[i].int, "argument"),
      Check(c.elems[i].n \in Width(c.kind, c.width), "argument"),
      Varint(Raw(c.kind, c.elems[i].n))>>])

(* An array without a cap is one whose cap is -1.                          *)
PureArray(c) ==
  LET bound == IF c.bound = <<>> THEN <<[int |-> TRUE, n |-> -1]>> ELSE c.bound
  IN CapOf(bound) \o <<Gate>> \o Cap(Len(c.elems), bound)
     \o ArrayHeader(c, ArrayType[c.kind], Len(c.elems)) \o PureElems(c)

PureBools(c) ==
  <<Gate>> \o Cap(Len(c.elems), c.bound) \o ArrayHeader(c, ArrayType.unsigned, Len(c.elems))
  \o [i \in DOMAIN c.elems |-> Bytes(<<IF c.elems[i] THEN 1 ELSE 0>>)]

(* Every element is a float before the first check on the array.           *)
PureFloats(c) ==
  <<Gate, Check(c.ok, "python")>> \o Cap(Len(c.elems), c.bound)
  \o ArrayHeader(c, ArrayType.fixlen, Len(c.elems))
  \o <<Varint(8 * FloatSize + SubType.float), Bytes(FlattenSeq(c.elems))>>

PureFloatsBits(c) ==
  <<Gate, Check(c.ok, "python"), Check(Len(c.payload) % FloatSize = 0, "argument"),
    Check(c.count = <<>> \/ c.count = <<Len(c.payload) \div FloatSize>>, "argument")>>
  \o ArrayHeader(c, ArrayType.fixlen, Len(c.payload) \div FloatSize)
  \o <<Varint(8 * FloatSize + SubType.float), Bytes(c.payload)>>

PureBegin(c) ==
  <<Gate, Enter, Check(c.id.int, "argument"), Check(c.id.n \in 0 .. IdMax, "argument"),
    Pushed(c.id.n)>>

End(c) == <<Gate, Inside, Closed(c.keep)>>

PureWrite(c) ==
  CASE c.op = "scalar" -> PureScalar(c)
    [] c.op = "bool"   -> PureBool(c)
    [] c.op = "float"  -> PureFloat(c)
    [] c.op = "bits"   -> PureFloatBits(c)
    [] c.op = "text"   -> PureText(c)
    [] c.op = "blob"   -> PureBlob(c)
    [] c.op = "array"  -> PureArray(c)
    [] c.op = "bools"  -> PureBools(c)
    [] c.op = "floats" -> PureFloats(c)
    [] c.op = "floatsBits" -> PureFloatsBits(c)
    [] c.op = "begin"  -> PureBegin(c)
    [] c.op = "end"    -> End(c)
=============================================================================
