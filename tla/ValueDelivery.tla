---------------------------- MODULE ValueDelivery ----------------------------
(***************************************************************************)
(* One field after another through the value reads of both engines, fed    *)
(* the same units at the same time and answered alike: a bound, a cap, a   *)
(* destination and an element width, each settled at a moment of its own,  *)
(* and every read started over when the bytes run out.                     *)
(***************************************************************************)
EXTENDS FieldValues

CONSTANT
  Offers \* [field, answer]: the fields sent, with what the receiver says of each

(***************************************************************************)
(* An answer is a handler's, which may skip the field, bound it, lend a    *)
(* buffer and declare what an array's elements may be, or a row's of the   *)
(* destination table, whose kind is the wire's, or the flag's read as one, *)
(* and whose ends are words, of the kind's sign.                           *)
(***************************************************************************)
Fields == [kind : Scalars \cup Countable, elems : Seq(Nat)]
Lent   == [bits : Nat, slots : Nat, writable : BOOLEAN]

HookAnswers ==
  {h \in [by : {"hooks"}, kind : {"any"}, skip : BOOLEAN, bound : Int, dst : Seq(Lent),
          lo : Seq(Int), hi : Seq(Int), bits : BOOLEAN] :
     Len(h.dst) <= 1 /\ Len(h.lo) <= 1 /\ Len(h.hi) <= 1}

Rows ==
  {h \in [by : {"row"}, kind : Scalars \cup Countable \cup {"boolean", "flags"}, cap : Nat,
          bounded : BOOLEAN, lo : SignedMin .. SignedMax, hi : 0 .. UnsignedMax, into : BOOLEAN,
          dst : Lent, counts : BOOLEAN] :
     /\ h.bounded => h.kind \in {"unsigned", "signed"} \cup Integral
     /\ h.kind \in {"signed", "signeds"} => h.hi <= SignedMax}

Stores(row, kind) ==
  \/ row.kind = kind
  \/ row.kind = "boolean" /\ kind = "unsigned"
  \/ row.kind = "flags" /\ kind = "unsigneds"

ASSUME OffersAssumption ==
  \A o \in Offers :
    /\ o.field \in Fields /\ (o.field.kind \in Scalars => N(o.field) = 1)
    /\ o.answer \in HookAnswers \cup Rows
    /\ o.answer \in Rows => Stores(o.answer, o.field.kind)

Pure   == INSTANCE PureReads
Native == INSTANCE NativeReads

VARIABLES
  field,   \* the field whose header was parsed last
  answer,  \* what the receiver says of it
  over,    \* its count or length is above the receiver's cap
  arrived, \* how many of its units have been fed
  pure, native

vars == <<field, answer, over, arrived, pure, native>>

NoField  == [kind |-> "none", elems |-> <<>>]
NoAnswer == [by |-> "none"]

(* What a slot holds before anything is stored in it.                      *)
Before == -(2^(Bits + 1))

(* The caller's storage the answer names: a scalar or an object is stored  *)
(* whole.                                                                  *)
Storage(h) ==
  LET slots == IF h.by = "hooks" THEN (IF h.dst = <<>> THEN 0 ELSE h.dst[1].slots)
               ELSE IF h.kind \in Payloads THEN (IF h.into THEN h.dst.slots ELSE 0)
               ELSE IF h.kind \in Integral \cup Floats \cup {"flags"} THEN h.cap
               ELSE 1
  IN [i \in 1 .. slots |-> Before]

(* A header: the value is parked, under the cap where it is above one.     *)
Parked(h, capped) ==
  [Fresh EXCEPT !.pend = TRUE, !.capped = capped, !.mem = Storage(h)]

Init == /\ field = NoField /\ answer = NoAnswer /\ over = FALSE /\ arrived = 0
        /\ pure = Fresh /\ native = Fresh

Header(f, h, capped, a) ==
  /\ pure.out = "complete"
  /\ capped => f.kind \in Countable
  /\ field' = f /\ answer' = h /\ over' = capped /\ arrived' = a
  /\ pure' = Pure!Walk(Parked(h, capped), f, h, a)
  /\ native' = Native!Walk(Parked(h, capped), f, h, a)

Feed(n) ==
  /\ pure.out = "incomplete" /\ arrived + n <= N(field)
  /\ arrived' = arrived + n
  /\ pure' = Pure!Resume(pure, field, answer, arrived')
  /\ native' = Native!Resume(native, field, answer, arrived')
  /\ UNCHANGED <<field, answer, over>>

(* The walk goes on: from a value taken, skipped, or refused as a caller's *)
(* mistake, which ends no message.                                         *)
NextHeader ==
  /\ field # NoField /\ pure.out \in {"complete", "argument"}
  /\ field' = NoField /\ answer' = NoAnswer /\ over' = FALSE /\ arrived' = 0
  /\ pure' = Pure!SkipPending(pure, field)
  /\ native' = Native!SkipPending(native, field)

Reset ==
  /\ field' = NoField /\ answer' = NoAnswer /\ over' = FALSE /\ arrived' = 0
  /\ pure' = Pure!Reset(pure) /\ native' = Native!Reset(native)

Next ==
  \/ /\ field = NoField
     /\ \E o \in Offers, capped \in BOOLEAN, a \in 0 .. 2 :
          a <= N(o.field) /\ Header(o.field, o.answer, capped, a)
  \/ \E n \in 1 .. 2 : Feed(n)
  \/ NextHeader
  \/ Reset

Spec == Init /\ [][Next]_vars
-----------------------------------------------------------------------------
(* What the receiver said of field f in its answer h, whichever way it     *)
(* said it.                                                                *)

ByRow(h)  == h.by = "row"
Raw(f, h) == ~ByRow(h) /\ f.kind = "floats32" /\ h.bits

Bound(f, h) ==
  IF f.kind \notin Countable THEN -1
  ELSE IF ~ByRow(h) THEN h.bound
  ELSE IF f.kind \in Payloads /\ h.cap = 0 THEN -1 ELSE h.cap

(* The buffer the field goes to: <<>> where none was offered.              *)
Buffer(f, h) ==
  IF ByRow(h) THEN (IF f.kind \in Payloads /\ h.into THEN <<h.dst>> ELSE <<>>)
  ELSE IF f.kind \in Scalars \/ Raw(f, h) THEN <<>> ELSE h.dst

Lower(f, h) ==
  IF ByRow(h) THEN (IF h.bounded /\ h.kind \in {"signed", "signeds"} THEN <<h.lo>> ELSE <<>>)
  ELSE IF f.kind \in Integral THEN h.lo ELSE <<>>
Upper(f, h) ==
  IF ByRow(h) THEN (IF h.bounded THEN <<h.hi>> ELSE <<>>)
  ELSE IF f.kind \in Integral THEN h.hi ELSE <<>>

(* The values sent, and the ones that are not allowed.                     *)
Sent(f, h) ==
  [i \in 1 .. N(f) |->
     LET v == IF f.kind \in {"signed", "signeds"} THEN Unzigzag(f.elems[i]) ELSE f.elems[i]
     IN IF ByRow(h) /\ h.kind \in {"boolean", "flags"} /\ v # 0 THEN 1 ELSE v]

Refused(f, h, i) ==
  \/ f.kind \notin {"float32", "float64", "blob"} \cup Floats /\ Malformed(f.elems[i])
  \/ Lower(f, h) # <<>> /\ Sent(f, h)[i] < Lower(f, h)[1]
  \/ Upper(f, h) # <<>> /\ Sent(f, h)[i] > Upper(f, h)[1]

(* A buffer that cannot take the field: an integer buffer narrower than a  *)
(* word needs a width that fits it.                                        *)
NarrowFits(f, h, bits) ==
  LET lo == Lower(f, h)  hi == Upper(f, h)
  IN IF f.kind = "signeds"
     THEN lo # <<>> /\ hi # <<>> /\ lo[1] >= -(2^(bits - 1)) /\ hi[1] < 2^(bits - 1)
     ELSE hi # <<>> /\ hi[1] < 2^bits

Unusable(f, h, dst) ==
  \/ ~dst.writable \/ dst.slots < N(f)
  \/ f.kind \in Payloads /\ dst.bits # ByteBits
  \/ f.kind \in Floats /\ dst.bits # Bits
  \/ f.kind \in Integral
     /\ (dst.bits \notin Items \/ (dst.bits # Bits /\ ~NarrowFits(f, h, dst.bits)))

TooMany(f, h)          == Bound(f, h) >= 0 /\ N(f) > Bound(f, h)
BadBuffer(f, h)        == Buffer(f, h) # <<>> /\ Unusable(f, h, Buffer(f, h)[1])
AboveCap(f, h, capped) == capped /\ Bound(f, h) < 0 /\ Buffer(f, h) = <<>>
Settled(f, h, capped)  == ~TooMany(f, h) /\ ~BadBuffer(f, h) /\ ~AboveCap(f, h, capped)

(* A value whose extent is known is looked at when all of it is there, an  *)
(* array of integers element by element.                                   *)
Seen(f, a) == IF f.kind \in Whole /\ a < N(f) THEN 0 ELSE a

Verdict(f, h, capped, a) ==
  IF TooMany(f, h) THEN "invalid"
  ELSE IF BadBuffer(f, h) THEN "argument"
  ELSE IF AboveCap(f, h, capped) THEN "limit"
  ELSE IF \E i \in 1 .. Seen(f, a) : Refused(f, h, i) THEN "invalid"
  ELSE IF a < N(f) THEN "incomplete" ELSE "complete"

Open  == field # NoField /\ ~(answer.by = "hooks" /\ answer.skip)
Taken == Open /\ pure.out = "complete"

(* What a handler may answer for both engines to read a field alike. A     *)
(* bound is a signed word. So is an upper end, without sign or with a      *)
(* buffer not below 0, and a lower end, which without sign refuses no word;*)
(* a signed array with a buffer has no lower end alone (OpenSideIsOpen).   *)
Word == SignedMin .. SignedMax
UpperFits(zigzag, hi) == hi # <<>> => hi[1] \in Word /\ (~zigzag => hi[1] >= 0)
LowerFits(zigzag, lo) == lo # <<>> => lo[1] \in Word /\ (~zigzag => lo[1] <= 0)

ReadAlike(f, h) ==
  LET zigzag == f.kind = "signeds" IN
  /\ h.by = "hooks" /\ f.kind \in Countable => h.bound \in Word
  /\ h.by = "hooks" /\ f.kind \in Integral =>
       /\ UpperFits(zigzag, h.hi) /\ LowerFits(zigzag, h.lo)
       /\ h.dst # <<>> => /\ h.hi # <<>> => h.hi[1] >= 0
                          /\ zigzag /\ h.lo # <<>> => h.hi # <<>>

OffersAlike == \A o \in Offers : ReadAlike(o.field, o.answer)
-----------------------------------------------------------------------------
(* The verdict is the rule's, whatever the chunks and the order the        *)
(* answers were given in: the schema's bound, then the caller's buffer,    *)
(* then the cap, where neither of them has taken its place, then the       *)
(* elements that came.                                                     *)
VerdictByRule == Open => pure.out = Verdict(field, answer, over, arrived)

(* The two engines end every call alike, store the same and call the same  *)
(* hooks with the same arguments in the same order.                        *)
EnginesAgree ==
  /\ pure.out = native.out /\ pure.resume = native.resume
  /\ pure.mem = native.mem /\ pure.count = native.count
  /\ pure.calls = native.calls

(* The caller's storage: written with what was sent and nothing else, an   *)
(* array of integers by the elements that came, anything else whole and    *)
(* only once it is found valid, never behind a verdict of the header; with *)
(* the value its count, which a value that ended well is never without.    *)
DestinationKept ==
  Open =>
    LET sent   == Sent(field, answer)
        stored == ByRow(answer) \/ Buffer(field, answer) # <<>>
        counts == ByRow(answer) /\ answer.counts
    IN /\ \A i \in DOMAIN native.mem :
            /\ native.mem[i] # Before =>
                 /\ Settled(field, answer, over) /\ i <= Seen(field, arrived) /\ stored
                 /\ field.kind \in Integral \/ Taken
                 /\ native.mem[i] = sent[i] \/ (answer.kind = "flags" /\ ~Taken)
            /\ Taken /\ stored => native.mem[i] = (IF i <= N(field) THEN sent[i] ELSE Before)
       /\ counts /\ Taken =>
            native.count = (IF answer.kind \in Payloads /\ ~answer.into THEN 1 ELSE N(field))
       /\ ~counts => native.count = -1

(* "An array's count_at is written when the array's count header is read,  *)
(* not when its last element lands": a header that passed has counted.     *)
CountAtHeader ==
  (/\ Open /\ ByRow(answer) /\ answer.counts /\ field.kind \in Integral \cup Floats
   /\ Settled(field, answer, over))
    => pure.count = N(field)

(* Where hooks were called among the calls.                                *)
Calls(names) == {i \in DOMAIN pure.calls : pure.calls[i][1] \in names}
Begins == {"on_array_begin", "on_float_array_begin", "on_string_begin", "on_blob_begin"}
First  == {"on_field", "on_schema_bound"}

(* However often a read is started over, a value is handed over once, the  *)
(* values sent, last, and only where no storage took them; the field is    *)
(* offered and its bound asked for once, before anything else.             *)
HandedOverOnce ==
  Open =>
    LET calls   == pure.calls
        told    == DOMAIN calls \ Calls(First \cup Begins)
        counted == field.kind \in Countable
    IN IF ByRow(answer) THEN calls = <<>>
       ELSE /\ Calls({"on_field"}) = {1}
            /\ Calls({"on_schema_bound"}) = IF counted THEN {2} ELSE {}
            /\ Calls(Begins) # {} => counted
            /\ IF Taken /\ Buffer(field, answer) = <<>>
               THEN told = {Len(calls)} /\ calls[Len(calls)][2] = Sent(field, answer)
               ELSE told = {}

(* "None for an open side": a buffer with a lower end only refuses nothing *)
(* but what is below it.                                                   *)
OpenSideIsOpen ==
  (/\ Open /\ ~ByRow(answer) /\ field.kind = "signeds" /\ Buffer(field, answer) # <<>>
   /\ Upper(field, answer) = <<>> /\ ~TooMany(field, answer))
    => (native.out = "invalid" => \E i \in 1 .. arrived : Refused(field, answer, i))
=============================================================================
