---------------------------- MODULE NativeWriters ----------------------------
(***************************************************************************)
(* The same writers in the compiled encoder, check by check: conversions   *)
(* that are their own range checks, an id converted once, bounds compared  *)
(* as machine words where they are, and no detour over another writer.     *)
(***************************************************************************)
EXTENDS FieldWriters

IdArg(id) == Check(id.int /\ id.n \in 0 .. IdMax, "argument")
HeaderC(id, wt) == <<Commit, Varint(8 * id.n + wt)>>
NativeHeader(id, wt) == <<IdArg(id)>> \o HeaderC(id, wt)

(* The conversion fails on what the format has no room for.                *)
Converted(v, kind) == Check(v.int /\ v.n \in Format(kind), "argument")

(* A bound that is a word is compared as one; any other as Python would.   *)
Over(n, bound) ==
  IF bound.n \in 0 .. UnsignedMax THEN n > bound.n
  ELSE IF bound.n > UnsignedMax THEN FALSE
  ELSE n > bound.n

NativeMaxlen(n, bound) ==
  IF bound = <<>> THEN <<>>
  ELSE <<Check(bound[1].int, "python"), Check(~Over(n, bound[1]), "argument")>>

(* None, or below zero: no bound.                                          *)
CheckCap(n, bound) ==
  IF bound = <<>> THEN <<>>
  ELSE <<Check(bound[1].int, "python"),
         Check(bound[1].n < 0 \/ ~Over(n, bound[1]), "argument")>>

NativeScalar(c) ==
  <<Gate, Converted(c.v, c.kind), Check(c.v.n \in Width(c.kind, c.width), "argument"),
    IdArg(c.id)>>
  \o HeaderC(c.id, WireType[c.kind]) \o <<Varint(Raw(c.kind, c.v.n))>>

NativeBool(c) ==
  <<Gate>> \o NativeHeader(c.id, WireType.unsigned) \o <<Varint(IF c.v THEN 1 ELSE 0)>>

NativeFixlen(c, n) ==
  <<Gate, Check(n <= FixlenMax, "argument")>> \o NativeHeader(c.id, WireType.fixlen)
  \o <<Varint(8 * n + SubType[c.op]), Bytes(c.payload)>>

(* The argument is a C double before the body runs.                        *)
NativeFloat(c) == <<Check(c.ok, "python")>> \o NativeFixlen(c, Len(c.payload))
NativeFloatBits(c) ==
  <<Gate, Check(c.ok, "argument"), Check(c.inRange, "argument")>> \o NativeFixlen(c, Len(c.payload))

NativeText(c) ==
  <<Gate, Check(c.ok, "argument")>> \o NativeMaxlen(Len(c.payload), c.bound)
  \o NativeFixlen(c, Len(c.payload))

NativeBlob(c) ==
  <<Gate, Check(c.ok, "argument"), Check(Len(c.payload) <= FixlenMax, "argument")>>
  \o NativeMaxlen(Len(c.payload), c.bound) \o NativeFixlen(c, Len(c.payload))

NativeArrayHeader(c, wt, n) == NativeHeader(c.id, wt) \o <<Varint(n)>>

NativeElems(c) ==
  FlattenSeq([i \in DOMAIN c.elems |->
    <<Converted(c.elems[i], c.kind),
      Check(c.elems[i].n \in Width(c.kind, c.width), "argument"),
      Varint(Raw(c.kind, c.elems[i].n))>>])

(* The cap is converted with the arguments; the plain writers have none.   *)
NativeArray(c) ==
  (IF c.bound = <<>> THEN <<Gate>>
   ELSE CapOf(c.bound)
        \o <<Gate, Check(c.bound[1].n < 0 \/ Len(c.elems) <= c.bound[1].n, "argument")>>)
  \o NativeArrayHeader(c, ArrayType[c.kind], Len(c.elems)) \o NativeElems(c)

NativeBools(c) ==
  <<Gate>> \o CheckCap(Len(c.elems), c.bound)
  \o NativeArrayHeader(c, ArrayType.unsigned, Len(c.elems))
  \o [i \in DOMAIN c.elems |-> Varint(IF c.elems[i] THEN 1 ELSE 0)]

(* An array that does not fit the room left is written element by element. *)
NativeFloats(c) ==
  <<Gate, Check(c.ok, "python")>> \o CheckCap(Len(c.elems), c.bound)
  \o NativeArrayHeader(c, ArrayType.fixlen, Len(c.elems))
  \o <<Varint(8 * FloatSize + SubType.float)>>
  \o [i \in DOMAIN c.elems |-> Bytes(c.elems[i])]

(* The count is converted after the payload was looked at.                 *)
Converts(count) == \A i \in DOMAIN count : count[i] \in -SizeMax - 1 .. SizeMax

NativeFloatsBits(c) ==
  <<Gate, Check(c.ok, "python"), Check(Len(c.payload) % FloatSize = 0, "argument"),
    Check(Converts(c.count), "python"),
    Check(c.count = <<>> \/ c.count = <<Len(c.payload) \div FloatSize>>, "argument")>>
  \o NativeArrayHeader(c, ArrayType.fixlen, Len(c.payload) \div FloatSize)
  \o <<Varint(8 * FloatSize + SubType.float)>>
  \o (IF c.payload = <<>> THEN <<>> ELSE <<Bytes(c.payload)>>)

NativeBegin(c) == <<Gate, Enter, IdArg(c.id), Pushed(c.id.n)>>

NativeWrite(c) ==
  CASE c.op = "scalar" -> NativeScalar(c)
    [] c.op = "bool"   -> NativeBool(c)
    [] c.op = "float"  -> NativeFloat(c)
    [] c.op = "bits"   -> NativeFloatBits(c)
    [] c.op = "text"   -> NativeText(c)
    [] c.op = "blob"   -> NativeBlob(c)
    [] c.op = "array"  -> NativeArray(c)
    [] c.op = "bools"  -> NativeBools(c)
    [] c.op = "floats" -> NativeFloats(c)
    [] c.op = "floatsBits" -> NativeFloatsBits(c)
    [] c.op = "begin"  -> NativeBegin(c)
    [] c.op = "end"    -> End(c)
=============================================================================
