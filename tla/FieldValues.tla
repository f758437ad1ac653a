----------------------------- MODULE FieldValues -----------------------------
(***************************************************************************)
(* What the two engines' value reads work on: a field as its header        *)
(* announced it, what the receiver answers about it, and the part of a     *)
(* decoder a value read changes.  PureReads and NativeReads hold the reads *)
(* themselves, one engine each.                                            *)
(*                                                                         *)
(* A field arrives in units: a scalar or an array element is one, a byte   *)
(* of a string or a blob is one.  A field is [kind, elems], elems what was *)
(* sent, an integer as its raw varint.  A row of a destination table names *)
(* the kind it stores, which is not the field's own for a boolean.         *)
(***************************************************************************)
EXTENDS Integers, Sequences, FiniteSets

CONSTANTS
  Bits,     (* width of a machine word: 64                                  *)
  Items,    (* the item widths a destination may have: 8, 16, 32, 64        *)
  ByteBits, (* the one a string or a blob is copied into: 8                 *)
  OneByte   (* the raw values a one-byte varint holds are below this: 128   *)

ASSUME WidthsAssumption ==
  /\ Bits \in Nat \ {0} /\ Items \subseteq 1 .. Bits /\ ByteBits \in Items
  /\ OneByte \in 1 .. 2^Bits /\ OneByte % 2 = 0

UnsignedMax == 2^Bits - 1
SignedMax   == 2^(Bits - 1) - 1
SignedMin   == -(2^(Bits - 1))

Scalars  == {"unsigned", "signed", "float32", "float64"}
Payloads == {"text", "blob"}
Integral == {"unsigneds", "signeds"}
Floats   == {"floats32", "floats64"}
Fixlen   == {"float32", "float64"} \cup Payloads

(* The kinds whose extent the header tells, and the kinds that have a      *)
(* count or a length to bound.                                             *)
Whole     == Fixlen \cup Floats
Countable == Payloads \cup Integral \cup Floats

N(f) == Len(f.elems)

(* A varint that does not fit a word, or a byte no text has.               *)
Malformed(x) == x > UnsignedMax

Unzigzag(raw) == IF raw % 2 = 0 THEN raw \div 2 ELSE -((raw + 1) \div 2)

InvalidText(f) == \E i \in 1 .. N(f) : Malformed(f.elems[i])

(***************************************************************************)
(* What a read changes of a decoder: whether the value is still pending    *)
(* and whether a cap is parked on it, whether a value is left to resume,   *)
(* what the read came to, and of the receiver's side what was stored, the  *)
(* count slot (-1: not written) and the hooks called.                      *)
(***************************************************************************)
Fresh == [pend |-> FALSE, capped |-> FALSE, resume |-> FALSE, out |-> "complete",
          mem |-> <<>>, count |-> -1, calls |-> <<>>]

Ends(d, out) == [d EXCEPT !.out = out]
Told(d, hook, args) == [d EXCEPT !.calls = Append(@, <<hook, args>>)]
Uncapped(d) == [d EXCEPT !.capped = FALSE]
Consumed(d) == [d EXCEPT !.pend = FALSE]

(* Values written from the start of a destination; what is behind stays.   *)
Filled(d, values) ==
  [d EXCEPT !.mem = values \o SubSeq(@, Len(values) + 1, Len(@))]

Delivered(d, hook, values) == Told(Consumed(d), hook, values)

(* A loop over elements, of which those at bad are refused: how far it got *)
(* and why it stopped.                                                     *)
Looped(f, a, values, bad) ==
  LET stops == bad \cup (a + 1 .. N(f))
      stop  == IF stops = {} THEN N(f) + 1 ELSE CHOOSE i \in stops : \A j \in stops : i <= j
  IN [values |-> SubSeq(values, 1, stop - 1),
      out    |-> IF stop > N(f) THEN "complete"
                 ELSE IF stop > a THEN "incomplete" ELSE "invalid"]
=============================================================================
