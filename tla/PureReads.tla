------------------------------ MODULE PureReads ------------------------------
(***************************************************************************)
(* The value reads of decoder.py: from the walk that has a field's header  *)
(* in hand to the value stored, handed over, refused or left for the next  *)
(* feed.  d is the decoder, f the field, h the receiver's answers, a how   *)
(* many of the field's units are there.                                    *)
(***************************************************************************)
EXTENDS FieldValues

(* _read_varints: lo and hi are <<>> on an open side.  The compare of a    *)
(* one-byte element is hoisted where the width spans all of them.          *)
ReadVarints(f, a, lo, hi, zigzag) ==
  LET blo == IF lo = <<>> THEN SignedMin ELSE lo[1]
      bhi == IF hi = <<>> THEN UnsignedMax ELSE hi[1]
      bounded   == lo # <<>> \/ hi # <<>>
      checkFast == bounded /\ IF zigzag
                              THEN blo > -(OneByte \div 2) - 1 \/ bhi < OneByte \div 2 - 1
                              ELSE blo > 0 \/ bhi < OneByte - 1
      values  == [i \in 1 .. N(f) |-> IF zigzag THEN Unzigzag(f.elems[i]) ELSE f.elems[i]]
      outside == {i \in 1 .. N(f) : values[i] < blo \/ values[i] > bhi}
      small   == {i \in 1 .. N(f) : f.elems[i] < OneByte}
      bad     == {i \in 1 .. N(f) \ small : Malformed(f.elems[i])}
                 \cup (IF bounded THEN outside \ small ELSE {})
                 \cup (IF checkFast THEN outside \cap small ELSE {})
  IN Looped(f, a, values, bad)

(* A payload or a fixlen array that is not all there rewinds and suspends. *)
Short(f, a) == a < N(f)

(* Broken on purpose: the parked cap outlives the bound.                   *)
SettleBoundCapped(d, f, declared) ==
  IF declared >= 0 /\ N(f) > declared THEN Ends(d, "invalid") ELSE d

(* The schema bound, wherever it came from: above it INVALID, and a cap    *)
(* never governed the field.                                               *)
SettleBound(d, f, declared) ==
  IF declared < 0 THEN d
  ELSE IF N(f) > declared THEN Ends(d, "invalid")
  ELSE Uncapped(d)

SchemaBound(d, f, h) ==
  IF f.kind \notin Countable THEN d
  ELSE SettleBound(Told(d, "on_schema_bound", <<N(f)>>), f, h.bound)

(* Does the declared width fit an item of the destination?                 *)
WidthFits(bits, zigzag, lo, hi) ==
  IF zigzag
  THEN /\ lo # <<>> /\ hi # <<>>
       /\ lo[1] >= -(2^(bits - 1)) /\ hi[1] < 2^(bits - 1)
  ELSE hi # <<>> /\ hi[1] < 2^bits

TakeBlobInto(d, f, a, dst) ==
  IF ~dst.writable \/ dst.bits # ByteBits \/ dst.slots < N(f) THEN Ends(d, "argument")
  ELSE IF Short(f, a) THEN Ends(d, "incomplete")
  ELSE Consumed(Filled(d, f.elems))

TakeStringInto(d, f, a, dst) ==
  IF ~dst.writable \/ dst.bits # ByteBits \/ dst.slots < N(f) THEN Ends(d, "argument")
  ELSE IF Short(f, a) THEN Ends(d, "incomplete")
  ELSE IF InvalidText(f) THEN Ends(d, "invalid")
  ELSE Consumed(Filled(d, f.elems))

TakeInto(d, f, a, dst) ==
  IF f.kind = "text" THEN TakeStringInto(d, f, a, dst) ELSE TakeBlobInto(d, f, a, dst)

-----------------------------------------------------------------------------
(* The handler's route.                                                    *)

(* Integer arrays: asked for a destination and a width before a parked cap *)
(* is answered.                                                            *)
VisitVarints(d, f, h, a) ==
  LET zigzag == f.kind = "signeds"
      asked  == Told(d, "on_array_begin", <<N(f)>>)
      read   == ReadVarints(f, a, h.lo, h.hi, zigzag)
      typed  == IF zigzag THEN "on_signed_array" ELSE "on_unsigned_array"
      dst    == h.dst[1]
  IN IF h.dst = <<>>
     THEN IF d.capped THEN Ends(asked, "limit")
          ELSE IF read.out = "complete" THEN Delivered(asked, typed, read.values)
          ELSE Ends(asked, read.out)
     ELSE IF \/ ~dst.writable \/ dst.bits \notin Items
             \/ dst.bits # Bits /\ ~WidthFits(dst.bits, zigzag, h.lo, h.hi)
             \/ dst.slots < N(f)
     THEN Ends(Uncapped(asked), "argument")
     ELSE LET filled == Filled(Uncapped(asked), read.values)
          IN IF read.out = "complete" THEN Consumed(filled) ELSE Ends(filled, read.out)

(* _visit_farray_bits: a cap governs it, nothing is asked.                 *)
VisitFarrayBits(d, f, a) ==
  IF d.capped THEN Ends(d, "limit")
  ELSE IF Short(f, a) THEN Ends(d, "incomplete")
  ELSE Delivered(d, "on_float32_array_bits", f.elems)

(* _visit_farray_into, and _take_farray_values where no destination came.  *)
VisitFarray(d, f, h, a) ==
  LET asked == Told(d, "on_float_array_begin", <<N(f)>>)
      typed == IF f.kind = "floats32" THEN "on_float32_array" ELSE "on_float64_array"
      dst   == h.dst[1]
  IN IF h.dst = <<>>
     THEN IF d.capped THEN Ends(asked, "limit")
          ELSE IF Short(f, a) THEN Ends(asked, "incomplete")
          ELSE Delivered(asked, typed, f.elems)
     ELSE IF ~dst.writable \/ dst.bits # Bits \/ dst.slots < N(f)
     THEN Ends(Uncapped(asked), "argument")
     ELSE IF Short(f, a) THEN Ends(Uncapped(asked), "incomplete")
     ELSE Consumed(Filled(Uncapped(asked), f.elems))

(* Strings and blobs.                                                      *)
VisitPayload(d, f, h, a) ==
  LET asked == Told(d, IF f.kind = "text" THEN "on_string_begin" ELSE "on_blob_begin",
                    <<N(f)>>)
  IN IF h.dst # <<>> THEN TakeInto(Uncapped(asked), f, a, h.dst[1])
     ELSE IF d.capped THEN Ends(asked, "limit")
     ELSE IF Short(f, a) THEN Ends(asked, "incomplete")
     ELSE IF f.kind = "text" /\ InvalidText(f) THEN Ends(Consumed(asked), "invalid")
     ELSE Delivered(asked, IF f.kind = "text" THEN "on_string" ELSE "on_bytes", f.elems)

VisitScalar(d, f, h, a) ==
  IF Short(f, a) THEN Ends(d, "incomplete")
  ELSE IF f.kind \in {"unsigned", "signed"} /\ Malformed(f.elems[1]) THEN Ends(d, "invalid")
  ELSE IF f.kind = "unsigned" THEN Delivered(d, "on_unsigned", f.elems)
  ELSE IF f.kind = "signed" THEN Delivered(d, "on_signed", <<Unzigzag(f.elems[1])>>)
  ELSE IF f.kind = "float64" THEN Delivered(d, "on_float64", f.elems)
  ELSE Delivered(d, IF h.bits THEN "on_float32_bits" ELSE "on_float32", f.elems)

VisitValue(d, f, h, a) ==
  IF f.kind \in Scalars THEN VisitScalar(d, f, h, a)
  ELSE IF f.kind \in Payloads THEN VisitPayload(d, f, h, a)
  ELSE IF f.kind \in Integral THEN VisitVarints(d, f, h, a)
  ELSE IF f.kind = "floats32" /\ h.bits THEN VisitFarrayBits(d, f, a)
  ELSE VisitFarray(d, f, h, a)

-----------------------------------------------------------------------------
(* The destination table's route (_mapped_field), its option switch apart. *)

Declared(row) ==
  IF row.kind \in Integral \cup Floats \cup {"flags"} THEN row.cap
  ELSE IF row.kind \in Payloads /\ row.cap > 0 THEN row.cap ELSE -1

(* A read that has ended well, its count slot included.                    *)
Stored(d, row, values, got) ==
  [Consumed(Filled(d, values)) EXCEPT !.count = IF row.counts THEN got ELSE @]

MappedScalar(d, f, row, a) ==
  LET v == IF row.kind = "signed" THEN Unzigzag(f.elems[1])
           ELSE IF row.kind = "boolean" THEN (IF f.elems[1] = 0 THEN 0 ELSE 1)
           ELSE f.elems[1]
  IN IF Short(f, a) THEN Ends(d, "incomplete")
     ELSE IF f.kind \in {"unsigned", "signed"} /\ Malformed(f.elems[1])
     THEN Ends(d, "invalid")
     ELSE IF row.bounded /\ (v > row.hi \/ (row.kind = "signed" /\ v < row.lo))
     THEN Ends(Consumed(d), "invalid")
     ELSE Stored(d, row, <<v>>, 1)

MappedPayload(d, f, row, a) ==
  IF row.into
  THEN LET t == TakeInto(Uncapped(d), f, a, row.dst)
       IN IF t.out = "complete" THEN Stored(t, row, f.elems, N(f)) ELSE t
  ELSE IF d.capped THEN Ends(d, "limit")
  ELSE IF Short(f, a) THEN Ends(d, "incomplete")
  ELSE IF f.kind = "text" /\ InvalidText(f) THEN Ends(Consumed(d), "invalid")
  ELSE Stored(d, row, f.elems, 1)

(* A boolean's elements are put to 0 and 1 once all of them are stored.    *)
MappedArray(d, f, row, a) ==
  LET read == ReadVarints(f, a, IF row.bounded /\ row.kind = "signeds" THEN <<row.lo>> ELSE <<>>,
                          IF row.bounded THEN <<row.hi>> ELSE <<>>, row.kind = "signeds")
      flags == [i \in DOMAIN read.values |-> IF read.values[i] > 1 THEN 1 ELSE read.values[i]]
  IN IF f.kind \in Floats
     THEN IF Short(f, a) THEN Ends(d, "incomplete") ELSE Stored(d, row, f.elems, N(f))
     ELSE IF read.out # "complete" THEN Ends(Filled(d, read.values), read.out)
     ELSE Stored(d, row, IF row.kind = "flags" THEN flags ELSE read.values, N(f))

MappedField(d, f, row, a) ==
  LET b == SettleBound(d, f, Declared(row))
  IN IF b.out # "complete" THEN b
     ELSE IF f.kind \in Scalars THEN MappedScalar(b, f, row, a)
     ELSE IF f.kind \in Payloads THEN MappedPayload(b, f, row, a)
     ELSE MappedArray(b, f, row, a)

-----------------------------------------------------------------------------
(* The walk (_drive_push) from a header parsed, and from a value resumed.  *)

(* A read that ran out of bytes is what the next feed takes up again.      *)
Suspends(d) == [d EXCEPT !.resume = (d.out = "incomplete")]

Walk(d, f, h, a) ==
  LET heard == Told(d, "on_field", <<N(f)>>)
      b     == SchemaBound(heard, f, h)
  IN IF h.by = "row" THEN Suspends(MappedField(d, f, h, a))
     ELSE IF h.skip THEN heard
     ELSE IF b.out # "complete" THEN b
     ELSE Suspends(VisitValue(b, f, h, a))

ValueReady(f, a) == f.kind \in Whole => a >= N(f)

(* Broken on purpose: the bound is asked for once more.                    *)
ResumeAsking(d, f, h, a) ==
  IF ~ValueReady(f, a) THEN Ends(d, "incomplete")
  ELSE LET r == Ends(d, "complete")
       IN Suspends(IF h.by = "row" THEN MappedField(r, f, h, a)
                   ELSE VisitValue(SchemaBound(r, f, h), f, h, a))

Resume(d, f, h, a) ==
  IF ~ValueReady(f, a) THEN Ends(d, "incomplete")
  ELSE LET r == Ends(d, "complete")
       IN Suspends(IF h.by = "row" THEN MappedField(r, f, h, a)
                   ELSE VisitValue(r, f, h, a))

(* The next header walk drops what nobody took, cap and all; a varint that *)
(* does not fit is INVALID there too.                                      *)
SkipPending(d, f) ==
  IF d.pend /\ f.kind \in Integral \cup {"unsigned", "signed"} /\ InvalidText(f)
  THEN Ends(d, "invalid")
  ELSE Fresh

Reset(d) == Fresh
=============================================================================
