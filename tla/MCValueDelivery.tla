--------------------------- MODULE MCValueDelivery ---------------------------
(* Words of three bits: 8 is a varint too long, or a byte no text has.     *)
EXTENDS ValueDelivery

MCItems == {2, 3}

Seqs(S) == {<<>>} \cup {<<x>> : x \in S} \cup {<<x, y>> : x \in S, y \in S}
Field(kind, elems) == [kind |-> kind, elems |-> elems]

(* Buffers: one that will do, one too short, read-only, of another item.   *)
Buf(bits, slots, writable) == [bits |-> bits, slots |-> slots, writable |-> writable]
Buffers(good) ==
  {<<>>, <<Buf(good, 2, TRUE)>>, <<Buf(good, 1, TRUE)>>, <<Buf(good, 2, FALSE)>>,
   <<Buf(5 - good, 2, TRUE)>>, <<Buf(1, 2, TRUE)>>}

Hook(skip, bound, dst, lo, hi, bits) ==
  [by |-> "hooks", skip |-> skip, bound |-> bound, dst |-> dst, lo |-> lo, hi |-> hi,
   bits |-> bits, kind |-> "any"]
Row(kind, cap, bounded, lo, hi, into, dst, counts) ==
  [by |-> "row", kind |-> kind, cap |-> cap, bounded |-> bounded, lo |-> lo, hi |-> hi,
   into |-> into, dst |-> dst, counts |-> counts]

Bounds == {-1, 1, 2}
Skipped == Hook(TRUE, -1, <<>>, <<>>, <<>>, FALSE)

UnsignedEnds == {<<<<>>, <<>>>>, <<<<>>, <<1>>>>, <<<<>>, <<3>>>>}
SignedEnds == {<<<<>>, <<>>>>, <<<<>>, <<1>>>>, <<<<-1>>, <<1>>>>, <<<<-3>>, <<2>>>>}

Offer(fields, answers) == {[field |-> f, answer |-> h] : f \in fields, h \in answers}
Of(kind, elems) == {Field(kind, e) : e \in elems}

Words == {0, 1, 3, 4, 6, 7, 8}
Pairs == Seqs(Words)
Few   == Seqs({0, 5, 8})
Ones  == {<<x>> : x \in 0 .. 8}

HookOffers ==
  Offer(Of("unsigneds", Pairs),
        {Skipped} \cup {Hook(FALSE, b, d, e[1], e[2], FALSE) :
                          b \in Bounds, d \in Buffers(3), e \in UnsignedEnds})
  \cup Offer(Of("signeds", Pairs),
        {Skipped} \cup {Hook(FALSE, b, d, e[1], e[2], FALSE) :
                          b \in Bounds, d \in Buffers(3), e \in SignedEnds})
  \cup Offer(Of("text", Few) \cup Of("blob", Few),
        {Skipped} \cup {Hook(FALSE, b, d, <<>>, <<>>, FALSE) : b \in Bounds, d \in Buffers(2)})
  \cup Offer(Of("floats32", Few) \cup Of("floats64", Few),
        {Skipped} \cup {Hook(FALSE, b, d, <<>>, <<>>, x) :
                          b \in Bounds, d \in Buffers(3), x \in BOOLEAN})
  \cup Offer(Of("unsigned", Ones) \cup Of("signed", Ones) \cup Of("float32", {<<5>>})
               \cup Of("float64", {<<5>>}),
        {Skipped} \cup {Hook(FALSE, -1, <<>>, <<>>, <<>>, x) : x \in BOOLEAN})

(* A row's array always has a bound, a payload has one where it is not 0.  *)
NoBuf == Buf(2, 0, TRUE)
RowOffers ==
  Offer(Of("unsigned", Ones), {Row("unsigned", 0, b, -4, 3, FALSE, NoBuf, TRUE) : b \in BOOLEAN}
                              \cup {Row("boolean", 0, FALSE, 0, 0, FALSE, NoBuf, FALSE)})
  \cup Offer(Of("signed", Ones), {Row("signed", 0, b, -2, 1, FALSE, NoBuf, TRUE) : b \in BOOLEAN})
  \cup Offer(Of("float32", {<<5>>}), {Row("float32", 0, FALSE, 0, 0, FALSE, NoBuf, FALSE)})
  \cup Offer(Of("float64", {<<5>>}), {Row("float64", 0, FALSE, 0, 0, FALSE, NoBuf, TRUE)})
  \cup UNION {Offer(Of(k, Few), {Row(k, c, FALSE, 0, 0, i, d[1], n) :
                 c \in 0 .. 2, i \in BOOLEAN, d \in Buffers(2) \ {<<>>}, n \in BOOLEAN})
              : k \in Payloads}
  \cup UNION {Offer(Of(k, Few), {Row(k, c, FALSE, 0, 0, FALSE, NoBuf, n) :
                 c \in 1 .. 2, n \in BOOLEAN}) : k \in Floats}
  \cup Offer(Of("unsigneds", Pairs), {Row("unsigneds", c, b, -4, 3, FALSE, NoBuf, TRUE) :
                 c \in 1 .. 2, b \in BOOLEAN}
                 \cup {Row("flags", 2, FALSE, 0, 0, FALSE, NoBuf, TRUE)})
  \cup Offer(Of("signeds", Pairs), {Row("signeds", c, b, -2, 1, FALSE, NoBuf, TRUE) :
                 c \in 1 .. 2, b \in BOOLEAN})

MCOffers == HookOffers \cup RowOffers

(* The condition of the theorems about both engines is met by these.       *)
ASSUME AnswersAlike == \A o \in MCOffers : ReadAlike(o.field, o.answer)

(* Arrays that a row of the table takes, with a slot for the count.        *)
CountedOffers == {o \in RowOffers : o.answer.counts /\ o.field.kind \in Integral \cup Floats}

(* A signed array into a buffer, with a lower end only.                    *)
OneSidedOffers ==
  Offer(Of("signeds", Pairs), {Hook(FALSE, b, <<Buf(3, 2, TRUE)>>, <<lo>>, <<>>, FALSE) :
                                 b \in {-1, 1}, lo \in {-2, 0}})
=============================================================================
