---------------------------- MODULE EncodedValues ----------------------------
(***************************************************************************)
(* How an integer becomes bytes, in both engines.  A byte of a varint      *)
(* carries a group of bits and a continuation mark; the code's groups have *)
(* seven bits, and the word is always nine groups and one bit more, so     *)
(* that ten bytes hold it.                                                 *)
(***************************************************************************)
EXTENDS Integers, Sequences

CONSTANT Base \* the values of a group: 2^7 in the code

ASSUME BaseAssumption == Base \in Nat /\ Base >= 2

Power[n \in Nat] == IF n = 0 THEN 1 ELSE Base * Power[n - 1]

VarintMax   == 10
UnsignedMax == 2 * Power[9] - 1
SignedMax   == Power[9] - 1
SignedMin   == -Power[9]

Continued(d) == d + Base
Digit(v, i)  == (v \div Power[i]) % Base

ZigZag(v) == IF v >= 0 THEN 2 * v ELSE -2 * v - 1

(* One group at a time.                                                    *)
EncodeVarint[v \in Nat] ==
  IF v < Base THEN <<v>> ELSE <<Continued(v % Base)>> \o EncodeVarint[v \div Base]

(* The loop of the inlined writers: two groups a turn while three are left.*)
InlineVarint[v \in Nat] ==
  IF v >= Power[2] THEN <<Continued(Digit(v, 0)), Continued(Digit(v, 1))>> \o InlineVarint[v \div Power[2]]
  ELSE IF v >= Base THEN <<Continued(Digit(v, 0)), v \div Base>>
  ELSE <<v>>

Groups(v, n) == [i \in 1 .. n |-> Digit(v, i - 1)]
Marked(s, n) == [i \in DOMAIN s |-> IF i <= n THEN Continued(s[i]) ELSE s[i]]

(* How many groups a value of at most eight has.                           *)
GroupCount(v) == CHOOSE k \in 1 .. 8 : v < Power[k] /\ (k = 1 \/ v >= Power[k - 1])

(* Broken on purpose: the mark is missing on the eighth byte.              *)
VarintPutUnmarked(v) ==
  LET rest == v \div Power[8]  n == GroupCount(v) IN
  IF v < Power[8] THEN Marked(Groups(v, n), n - 1)
  ELSE Marked(Groups(v, 8), 7)
       \o (IF rest < Base THEN <<rest>> ELSE <<Continued(rest % Base), rest \div Base>>)

(* One store of eight groups spread over a word, as many bytes of it as    *)
(* the value has groups; above them one byte or two carry the rest.        *)
VarintPut(v) ==
  LET rest == v \div Power[8]  n == GroupCount(v) IN
  IF v < Power[8] THEN Marked(Groups(v, n), n - 1)
  ELSE Marked(Groups(v, 8), 8)
       \o (IF rest < Base THEN <<rest>> ELSE <<Continued(rest % Base), rest \div Base>>)

=============================================================================
