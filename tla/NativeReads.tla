----------------------------- MODULE NativeReads -----------------------------
(***************************************************************************)
(* The value reads of _speedups.pyx, the native engine, with the casts its *)
(* C types make.  d is the decoder, f the field, h the receiver's answers, *)
(* a how many of the field's units are there.                              *)
(***************************************************************************)
EXTENDS FieldValues

(* <int64_t> and <uint64_t> of the other; a store into a narrower item.    *)
Signed(v)   == IF v > SignedMax THEN v - 2^Bits ELSE v
Unsigned(v) == v % 2^Bits

Item(v, bits, zigzag) ==
  LET u == v % 2^bits
  IN IF zigzag /\ u >= 2^(bits - 1) THEN u - 2^bits ELSE u

(* _varint_take and _zigzag_decode of each element.                        *)
Decoded(f, zigzag) ==
  [i \in 1 .. N(f) |-> IF zigzag THEN Unzigzag(f.elems[i]) ELSE f.elems[i]]

Overlong(f) == {i \in 1 .. N(f) : Malformed(f.elems[i])}

(* _read_varints: a list.  Both ends are signed words.                     *)
ReadVarints(f, a, zigzag, bounded, lo, hi) ==
  LET v == Decoded(f, zigzag)
      outside == {i \in 1 .. N(f) :
                    IF zigzag THEN v[i] < lo \/ v[i] > hi ELSE v[i] > Unsigned(hi)}
  IN Looped(f, a, v, Overlong(f) \cup (IF bounded THEN outside ELSE {}))

(* _fill_varints_at: the caller's slots.  The lower end is a signed word,  *)
(* the upper one an unsigned word.                                         *)
FillVarints(f, a, bits, zigzag, bounded, lo, hi) ==
  LET v == Decoded(f, zigzag)
      outside == {i \in 1 .. N(f) :
                    IF zigzag THEN v[i] < lo \/ v[i] > Signed(hi) ELSE v[i] > hi}
  IN Looped(f, a, [i \in 1 .. N(f) |-> Item(v[i], bits, zigzag)],
            Overlong(f) \cup (IF bounded THEN outside ELSE {}))

(* Broken on purpose: the sign takes no bit.                               *)
WidthFitsUnsigned(bits, zigzag, bounded, lo, hi) ==
  bounded /\ IF zigzag THEN lo >= -(2^bits) /\ Signed(hi) < 2^bits ELSE hi < 2^bits

WidthFits(bits, zigzag, bounded, lo, hi) ==
  bounded /\ IF zigzag
             THEN lo >= -(2^(bits - 1)) /\ Signed(hi) < 2^(bits - 1)
             ELSE hi < 2^bits

(* _mismatch: a read that finds the cap where it looks for its kind.       *)
Mismatch(d) == Ends(d, "limit")

(* _take_fixlen_ptr, _take_farray_ptr, _fill_farray, _read_exact           *)
Short(f, a) == a < N(f)

SettleBound(d, f, bound) ==
  IF bound < 0 THEN d
  ELSE IF N(f) > bound THEN Ends(d, "invalid")
  ELSE Uncapped(d)

(* A Python integer that is made a signed word raises where it is none.    *)
Fits(v) == v \in SignedMin .. SignedMax

SchemaBound(d, f, h) ==
  LET told == Told(d, "on_schema_bound", <<N(f)>>) IN
  IF f.kind \notin Payloads \cup Integral \cup Floats THEN d
  ELSE IF ~Fits(h.bound) THEN Ends(told, "overflow")
  ELSE SettleBound(told, f, h.bound)

TakeBlobInto(d, f, a, dst) ==
  IF ~dst.writable \/ dst.bits # ByteBits \/ dst.slots < N(f) THEN Ends(d, "argument")
  ELSE IF Short(f, a) THEN Ends(d, "incomplete")
  ELSE Filled(Consumed(d), f.elems)

(* Broken on purpose: what is refused is in the caller's buffer already.   *)
TakeStringIntoUnchecked(d, f, a, dst) ==
  IF ~dst.writable \/ dst.bits # ByteBits \/ dst.slots < N(f) THEN Ends(d, "argument")
  ELSE IF Short(f, a) THEN Ends(d, "incomplete")
  ELSE IF InvalidText(f) THEN Ends(Filled(Consumed(d), f.elems), "invalid")
  ELSE Filled(Consumed(d), f.elems)

(* The value is taken before it is validated.                              *)
TakeStringInto(d, f, a, dst) ==
  IF ~dst.writable \/ dst.bits # ByteBits \/ dst.slots < N(f) THEN Ends(d, "argument")
  ELSE IF Short(f, a) THEN Ends(d, "incomplete")
  ELSE IF InvalidText(f) THEN Ends(Consumed(d), "invalid")
  ELSE Filled(Consumed(d), f.elems)

-----------------------------------------------------------------------------
(* The handler's route.                                                    *)

(* _string and _bytes; _float32 and its kin.                               *)
ReadPayload(d, f, a) ==
  IF d.capped THEN Mismatch(d)
  ELSE IF Short(f, a) THEN Ends(d, "incomplete")
  ELSE IF f.kind = "text" /\ InvalidText(f) THEN Ends(Consumed(d), "invalid")
  ELSE Delivered(d, IF f.kind = "text" THEN "on_string" ELSE "on_bytes", f.elems)

(* _read_unsigned_array, which makes a word of the upper end only, and     *)
(* _read_signed_array.                                                     *)
ReadArray(d, f, a, lo, hi) ==
  LET zigzag == f.kind = "signeds"
      read == IF zigzag
              THEN ReadVarints(f, a, TRUE, lo # <<>> \/ hi # <<>>,
                               IF lo = <<>> THEN SignedMin ELSE lo[1],
                               IF hi = <<>> THEN SignedMax ELSE hi[1])
              ELSE ReadVarints(f, a, FALSE, hi # <<>>, 0, IF hi = <<>> THEN 0 ELSE hi[1])
  IN IF \/ zigzag /\ lo # <<>> /\ ~Fits(lo[1])
        \/ hi # <<>> /\ ~Fits(hi[1])
     THEN Ends(d, "overflow")
     ELSE IF read.out # "complete" THEN Ends(d, read.out)
     ELSE Delivered(d, IF zigzag THEN "on_signed_array" ELSE "on_unsigned_array", read.values)

(* An upper end above the signed words is dropped.  The fill takes the     *)
(* lower end as a signed word, the upper one as an unsigned word.          *)
VisitVarints(d, f, h, a) ==
  LET zigzag  == f.kind = "signeds"
      asked   == Told(d, "on_array_begin", <<N(f)>>)
      hi      == IF h.hi # <<>> /\ h.hi[1] > SignedMax THEN <<>> ELSE h.hi
      bounded == h.lo # <<>> \/ hi # <<>>
      clo     == IF h.lo = <<>> THEN SignedMin ELSE h.lo[1]
      chi     == IF hi = <<>> THEN UnsignedMax ELSE hi[1]
      dst     == h.dst[1]
      fill    == FillVarints(f, a, dst.bits, zigzag, bounded, clo, chi)
      filled  == Filled(Uncapped(asked), fill.values)
  IN IF h.dst = <<>>
     THEN IF d.capped THEN Ends(asked, "limit") ELSE ReadArray(asked, f, a, h.lo, hi)
     ELSE IF ~Fits(clo) \/ chi < 0 THEN Ends(Uncapped(asked), "overflow")
     ELSE IF \/ ~dst.writable \/ dst.bits \notin Items
             \/ dst.bits # Bits /\ ~WidthFits(dst.bits, zigzag, bounded, clo, chi)
             \/ dst.slots < N(f)
     THEN Ends(Uncapped(asked), "argument")
     ELSE IF fill.out = "complete" THEN Consumed(filled) ELSE Ends(filled, fill.out)

VisitFarrayBits(d, f, a) ==
  IF d.capped THEN Ends(d, "limit")
  ELSE IF Short(f, a) THEN Ends(d, "incomplete")
  ELSE Delivered(d, "on_float32_array_bits", f.elems)

(* _read_farray                                                            *)
ReadFarray(d, f, a) ==
  IF d.capped THEN Mismatch(d)
  ELSE IF Short(f, a) THEN Ends(d, "incomplete")
  ELSE Delivered(d, IF f.kind = "floats32" THEN "on_float32_array" ELSE "on_float64_array",
                 f.elems)

VisitFarray(d, f, h, a) ==
  LET asked == Told(d, "on_float_array_begin", <<N(f)>>)
      dst   == h.dst[1]
  IN IF h.dst = <<>> THEN ReadFarray(asked, f, a)
     ELSE IF ~dst.writable \/ dst.bits # Bits \/ dst.slots < N(f)
     THEN Ends(Uncapped(asked), "argument")
     ELSE IF Short(f, a) THEN Ends(Uncapped(asked), "incomplete")
     ELSE Filled(Consumed(Uncapped(asked)), f.elems)

(* _take_scalar and the reads of one number.                               *)
VisitScalar(d, f, h, a) ==
  IF Short(f, a) THEN Ends(d, "incomplete")
  ELSE IF f.kind \in {"unsigned", "signed"} /\ Overlong(f) # {} THEN Ends(d, "invalid")
  ELSE IF f.kind = "unsigned" THEN Delivered(d, "on_unsigned", f.elems)
  ELSE IF f.kind = "signed" THEN Delivered(d, "on_signed", <<Unzigzag(f.elems[1])>>)
  ELSE IF f.kind = "float64" THEN Delivered(d, "on_float64", f.elems)
  ELSE Delivered(d, IF h.bits THEN "on_float32_bits" ELSE "on_float32", f.elems)

VisitValue(d, f, h, a) ==
  LET begun == Told(d, IF f.kind = "text" THEN "on_string_begin" ELSE "on_blob_begin",
                    <<N(f)>>)
  IN IF f.kind \in Scalars THEN VisitScalar(d, f, h, a)
     ELSE IF f.kind = "text"
     THEN IF h.dst # <<>> THEN TakeStringInto(Uncapped(begun), f, a, h.dst[1])
          ELSE ReadPayload(begun, f, a)
     ELSE IF f.kind = "blob"
     THEN IF h.dst # <<>> THEN TakeBlobInto(Uncapped(begun), f, a, h.dst[1])
          ELSE ReadPayload(begun, f, a)
     ELSE IF f.kind \in Integral THEN VisitVarints(d, f, h, a)
     ELSE IF f.kind = "floats32" /\ h.bits THEN VisitFarrayBits(d, f, a)
     ELSE VisitFarray(d, f, h, a)

-----------------------------------------------------------------------------
(* The destination table's route (_mapped_field), its option switch apart. *)

Counted(d, row, got) == [d EXCEPT !.count = IF row.counts THEN got ELSE @]

(* _normalize_bools                                                        *)
NormalizeBools(values) == [i \in DOMAIN values |-> IF values[i] # 0 THEN 1 ELSE 0]

(* The dispatch is on the wire's type; a boolean's is that of a number.    *)
MappedScalar(d, f, row, a) ==
  LET v == f.elems[1]
      s == Unzigzag(v)
  IN IF Short(f, a) THEN Ends(d, "incomplete")
     ELSE IF f.kind \in {"unsigned", "signed"} /\ Overlong(f) # {} THEN Ends(d, "invalid")
     ELSE IF f.kind = "unsigned" /\ row.bounded /\ v > row.hi THEN Ends(Consumed(d), "invalid")
     ELSE IF f.kind = "signed" /\ row.bounded /\ (s < row.lo \/ s > Signed(row.hi))
     THEN Ends(Consumed(d), "invalid")
     ELSE Counted(Filled(Consumed(d),
                         <<IF f.kind = "signed" THEN s
                           ELSE IF row.kind = "boolean" THEN (IF v # 0 THEN 1 ELSE 0) ELSE v>>),
                  row, 1)

(* A payload; _take_object where it is not copied into a buffer.           *)
MappedPayload(d, f, row, a) ==
  LET t == IF row.kind = "blob" THEN TakeBlobInto(Uncapped(d), f, a, row.dst)
           ELSE TakeStringInto(Uncapped(d), f, a, row.dst)
  IN IF row.into THEN IF t.out = "complete" THEN Counted(t, row, N(f)) ELSE t
     ELSE IF d.capped THEN Ends(d, "limit")
     ELSE IF Short(f, a) THEN Ends(d, "incomplete")
     ELSE IF f.kind = "text" /\ InvalidText(f) THEN Ends(Consumed(d), "invalid")
     ELSE Counted(Filled(Consumed(d), f.elems), row, 1)

MappedArray(d, f, row, a) ==
  LET fill == FillVarints(f, a, Bits, f.kind = "signeds", row.bounded, row.lo, row.hi)
      filled == Filled(d, fill.values)
  IN IF f.kind \in Floats
     THEN IF Short(f, a) THEN Ends(d, "incomplete")
          ELSE Counted(Filled(Consumed(d), f.elems), row, N(f))
     ELSE IF fill.out # "complete" THEN Ends(filled, fill.out)
     ELSE Counted(Filled(Consumed(filled), IF row.kind = "flags" THEN NormalizeBools(fill.values)
                                           ELSE fill.values), row, N(f))

MappedField(d, f, row, a) ==
  LET b == IF row.kind \in Integral \cup Floats \cup {"flags"} THEN SettleBound(d, f, row.cap)
           ELSE IF row.kind \in Payloads
           THEN SettleBound(d, f, IF row.cap > 0 THEN row.cap ELSE -1)
           ELSE d
  IN IF b.out # "complete" THEN b
     ELSE IF f.kind \in Scalars THEN MappedScalar(b, f, row, a)
     ELSE IF f.kind \in Payloads THEN MappedPayload(b, f, row, a)
     ELSE MappedArray(b, f, row, a)

-----------------------------------------------------------------------------
(* The walk (_drive_push) from a header parsed, and from a value resumed.  *)

Suspends(d) == [d EXCEPT !.resume = (d.out = "incomplete")]

Walk(d, f, h, a) ==
  LET heard == Told(d, "on_field", <<N(f)>>)
      b     == SchemaBound(heard, f, h)
  IN IF h.by = "row" THEN Suspends(MappedField(d, f, h, a))
     ELSE IF h.skip THEN heard
     ELSE IF b.out # "complete" THEN b
     ELSE Suspends(VisitValue(b, f, h, a))

ValueReady(f, a) == f.kind \in Fixlen \cup Floats => a >= N(f)

Resume(d, f, h, a) ==
  IF ~ValueReady(f, a) THEN Ends(d, "incomplete")
  ELSE LET r == Ends(d, "complete")
       IN Suspends(IF h.by = "row" THEN MappedField(r, f, h, a)
                   ELSE VisitValue(r, f, h, a))

(* _skip_pending, and _drain_discard: each varint in turn.                 *)
SkipPending(d, f) ==
  IF d.pend /\ f.kind \in Integral \cup {"unsigned", "signed"} /\ Overlong(f) # {}
  THEN Ends(d, "invalid")
  ELSE Fresh

Reset(d) == Fresh
=============================================================================
