---------------------------- MODULE WrapperArrays ----------------------------
(***************************************************************************)
(* The helpers generated code calls beside the codec, each in both engines:*)
(* the slots of an array that arrives as a sequence of elements, and the   *)
(* comparison of a float array with its default.                           *)
(***************************************************************************)
EXTENDS Integers, Sequences, SequencesExt

CONSTANT SsizeMax \* the largest index of the machine

(* reserve_leaf, reserve_elem, reserve_row.  A slot is [obj, val]: obj is  *)
(* the object it holds, 0 the shared default, val what that object shows.  *)
(* rcap is [int, n].                                                       *)

(* The reason an index is refused for.                                     *)
Refusal(cap, rcap) ==
  IF cap >= 0 THEN "invalid"
  ELSE IF ~rcap.int \/ rcap.n < 0 THEN "argument"
  ELSE "limit"

PureBound(id, cap, rcap) ==
  IF IF cap >= 0 THEN id >= cap ELSE ~rcap.int \/ id >= rcap.n
  THEN Refusal(cap, rcap) ELSE ""

(* A cap no index of the machine reaches is told by its sign.              *)
PastRcap(id, rcap) ==
  IF ~rcap.int THEN TRUE
  ELSE IF rcap.n \in -SsizeMax - 1 .. SsizeMax THEN id >= rcap.n
  ELSE rcap.n < 0

(* The cap is converted with the arguments.                                *)
NativeBound(id, cap, rcap) ==
  IF cap \notin -SsizeMax - 1 .. SsizeMax THEN "overflow"
  ELSE IF IF cap >= 0 THEN id >= cap ELSE PastRcap(id, rcap)
  THEN Refusal(cap, rcap) ELSE ""

Leaf        == [obj |-> 0, val |-> <<>>]
Made(n)     == [obj |-> n, val |-> <<>>]
Missing(list, upto) == IF upto > Len(list) THEN upto - Len(list) ELSE 0

ReserveLeaf(list, id) == list \o [i \in 1 .. Missing(list, id + 1) |-> Leaf]

(* Broken on purpose: one object for every slot a call makes.              *)
ReserveElemShared(list, id, made) ==
  list \o [i \in 1 .. Missing(list, id + 1) |-> Made(made + 1)]

ReserveElem(list, id, made) ==
  list \o [i \in 1 .. Missing(list, id + 1) |-> Made(made + i)]

(* The row at the id is replaced, whatever it held.                        *)
ReserveRow(list, id, made) ==
  LET gaps == [i \in 1 .. Missing(list, id) |-> Made(made + i)]
      row  == Made(made + Missing(list, id) + 1)
  IN IF Len(list) <= id THEN list \o Append(gaps, row)
     ELSE [list EXCEPT ![id + 1] = row]

-----------------------------------------------------------------------------
(* FloatArrayDefault.  An element is [type, eq, sign, bits]: "float",      *)
(* "int" up to 53 bits, or another type; the doubles it says it equals;   *)
(* the sign copysign finds, 0 where it raises; the double float() makes of *)
(* it, "" where it raises.                                                 *)
NaNs      == {"nan", "snan"}
Zeros     == {"+0", "-0"}
SignOf(d) == IF d = "-0" THEN -1 ELSE 1

(* An element that has a double equals no other, a zero the other zero     *)
(* excepted; a float or a short integer has one and, no NaN, equals it.    *)
Elements ==
  {o \in [type : STRING, eq : SUBSET STRING, sign : {-1, 0, 1}, bits : STRING] :
     /\ o.bits # "" => \A d \in o.eq : d = o.bits \/ {d, o.bits} \subseteq Zeros
     /\ o.bits \in Zeros => o.sign = SignOf(o.bits)
     /\ o.type \in {"float", "int"} => o.bits # "" /\ o.bits \in o.eq \cup NaNs
     /\ o.type = "int" => o.bits \notin NaNs}

ElemMatches(o, d) ==
  IF d \in NaNs THEN o.type = "float" /\ o.bits = d
  ELSE d \in o.eq /\ (d \in Zeros => o.sign = SignOf(d))

SeqMatches(a, v) == Len(a) = Len(v) /\ \A i \in DOMAIN v : ElemMatches(a[i], v[i])

(* float_array_bits_equal: equal values share one double, the zeros aside; *)
(* the others are packed.                                                  *)
BitsEqual(a, v) ==
  /\ Len(a) = Len(v)
  /\ \A i \in DOMAIN v :
       IF v[i] \in a[i].eq THEN v[i] \in Zeros => a[i].sign = SignOf(v[i])
       ELSE a[i].bits = v[i]

(* == of two lists.                                                        *)
ListEquals(a, v) == Len(a) = Len(v) /\ \A i \in DOMAIN v : v[i] \in a[i].eq

(* Broken on purpose: the signs of the zeros are not looked at.            *)
PureMatchesUnsigned(a, list, v) ==
  IF ~list \/ \E i \in DOMAIN v : v[i] \in NaNs THEN SeqMatches(a, v) ELSE ListEquals(a, v)

(* A list is compared at C speed where the default has no NaN, and the     *)
(* zeros' signs are read only once the lists are equal; an element that    *)
(* has none sends the whole array through the rule.                        *)
PureMatches(a, list, v) ==
  LET zeros == {i \in DOMAIN v : v[i] \in Zeros} IN
  IF ~list \/ \E i \in DOMAIN v : v[i] \in NaNs THEN SeqMatches(a, v)
  ELSE IF ~ListEquals(a, v) THEN FALSE
  ELSE IF \E i \in zeros : a[i].sign = 0 THEN SeqMatches(a, v)
  ELSE \A i \in zeros : a[i].sign = SignOf(v[i])

(* By its bits, where it is a float or an integer of at most 53 of them.   *)
NativeMatches(a, list, v) ==
  IF ~list THEN SeqMatches(a, v)
  ELSE /\ Len(a) = Len(v)
       /\ \A i \in DOMAIN v :
            IF a[i].type \in {"float", "int"} THEN a[i].bits = v[i] ELSE ElemMatches(a[i], v[i])
=============================================================================
