------------------------- MODULE EngineTwins_proofs -------------------------
(***************************************************************************)
(* The twins, for any words, ids, arguments, bounds, elements and rooms.   *)
(* The helpers beside the codec: the list of an array that arrives in      *)
(* elements is what the admitted ones make of it, and a float array is     *)
(* left out only at its default, in both engines.  The senders: both write *)
(* the same, what was accepted and nothing else, and tell every refusal.   *)
(***************************************************************************)
EXTENDS EngineTwins_writers_proofs, FiniteSetTheorems

-----------------------------------------------------------------------------
(* Float arrays.                                                           *)

(* By the rule or by the bits, a float or a short integer matches alike.   *)
LEMMA ByItsBits ==
  ASSUME NEW o \in Elements, NEW d, o.type \in {"float", "int"}
  PROVE  ElemMatches(o, d) <=> o.bits = d
<1>1. /\ o.bits # "" /\ o.bits \in o.eq \cup NaNs
      /\ \A x \in o.eq : x = o.bits \/ {x, o.bits} \subseteq Zeros
      /\ o.bits \in Zeros => o.sign = SignOf(o.bits)
      /\ o.type = "int" => o.bits \notin NaNs
  BY DEF Elements
<1>2. NaNs \cap Zeros = {} /\ Zeros = {"+0", "-0"} /\ SignOf("+0") = 1 /\ SignOf("-0") = -1
  BY DEF NaNs, Zeros, SignOf
<1>3. CASE d \in NaNs
  BY <1>1, <1>3 DEF ElemMatches
<1>4. CASE d \notin NaNs
  <2>1. ElemMatches(o, d) <=> d \in o.eq /\ (d \in Zeros => o.sign = SignOf(d))
    BY <1>4 DEF ElemMatches
  <2>2. ASSUME o.bits = d PROVE ElemMatches(o, d)
    BY <1>1, <1>4, <2>1, <2>2
  <2>3. ASSUME ElemMatches(o, d) PROVE o.bits = d
    <3>1. CASE d \in Zeros
      <4>1. o.bits \in Zeros /\ SignOf(o.bits) = SignOf(d)
        BY <1>1, <2>1, <2>3, <3>1
      <4> QED BY <1>2, <3>1, <4>1
    <3>2. CASE d \notin Zeros
      BY <1>1, <2>1, <2>3, <3>2
    <3> QED BY <3>1, <3>2
  <2> QED BY <2>2, <2>3
<1> QED BY <1>3, <1>4

(* The pure engine's shortcuts come to the rule, for any default.          *)
LEMMA ShortcutsKeepTheRule ==
  ASSUME NEW a \in Seq(Elements), NEW list \in BOOLEAN, NEW v \in Seq(STRING)
  PROVE  PureMatches(a, list, v) <=> SeqMatches(a, v)
<1> DEFINE zeros == {i \in DOMAIN v : v[i] \in Zeros}
           nan   == \E i \in DOMAIN v : v[i] \in NaNs
<1>1. CASE ~list \/ nan
  BY <1>1 DEF PureMatches
<1>2. CASE list /\ ~nan
  <2>1. SeqMatches(a, v) <=> ListEquals(a, v) /\ \A i \in zeros : a[i].sign = SignOf(v[i])
    BY <1>2 DEF SeqMatches, ListEquals, ElemMatches
  <2>2. PureMatches(a, list, v)
          <=> IF ~ListEquals(a, v) THEN FALSE
              ELSE IF \E i \in zeros : a[i].sign = 0 THEN SeqMatches(a, v)
              ELSE \A i \in zeros : a[i].sign = SignOf(v[i])
    BY <1>2 DEF PureMatches
  <2> HIDE DEF zeros, nan
  <2> QED BY <2>1, <2>2
<1> QED BY <1>1, <1>2

LEMMA NativeKeepsTheRule ==
  ASSUME NEW a \in Seq(Elements), NEW list \in BOOLEAN, NEW v \in Seq(STRING)
  PROVE  NativeMatches(a, list, v) <=> SeqMatches(a, v)
<1>1. CASE ~list
  BY <1>1 DEF NativeMatches
<1>2. CASE list
  <2>1. ASSUME Len(a) = Len(v), NEW i \in DOMAIN v
        PROVE  (IF a[i].type \in {"float", "int"} THEN a[i].bits = v[i] ELSE ElemMatches(a[i], v[i]))
                 <=> ElemMatches(a[i], v[i])
    <3>1. a[i] \in Elements
      BY <2>1
    <3>2. CASE a[i].type \in {"float", "int"}
      BY <3>1, <3>2, ByItsBits
    <3>3. CASE a[i].type \notin {"float", "int"}
      BY <3>3
    <3> QED BY <3>2, <3>3
  <2> QED BY <1>2, <2>1 DEF NativeMatches, SeqMatches
<1> QED BY <1>1, <1>2

(* Two arrays of doubles are one, element by element.                      *)
LEMMA SameBits ==
  ASSUME NEW a \in Seq(Elements), NEW v \in Seq(STRING)
  PROVE  [i \in DOMAIN a |-> a[i].bits] = v
           <=> Len(a) = Len(v) /\ \A i \in DOMAIN v : a[i].bits = v[i]
<1> DEFINE b == [i \in DOMAIN a |-> a[i].bits]
<1>1. /\ DOMAIN a = 1 .. Len(a) /\ Len(a) \in Nat /\ DOMAIN v = 1 .. Len(v) /\ Len(v) \in Nat
      /\ DOMAIN b = 1 .. Len(a) /\ v = [i \in 1 .. Len(v) |-> v[i]]
  OBVIOUS
<1>2. ASSUME b = v PROVE Len(a) = Len(v) /\ \A i \in DOMAIN v : a[i].bits = v[i]
  <2>1. 1 .. Len(a) = 1 .. Len(v)
    BY <1>1, <1>2
  <2>2. Len(a) = Len(v)
    <3> DEFINE m == Len(a)
               n == Len(v)
    <3>1. m \in Nat /\ n \in Nat /\ 1 .. m = 1 .. n
      BY <1>1, <2>1
    <3> HIDE DEF m, n
    <3>2. /\ m > 0 => m \in 1 .. m
          /\ n > 0 => n \in 1 .. n
      BY <3>1
    <3>3. /\ m > 0 => m <= n
          /\ n > 0 => n <= m
      BY <3>1, <3>2
    <3>4. m = n
      BY <3>1, <3>3
    <3> QED BY <3>4, SMTT(40) DEF m, n
  <2>3. \A i \in DOMAIN v : b[i] = a[i].bits
    BY <1>1, <2>2
  <2> QED BY <1>2, <2>2, <2>3, SMTT(40)
<1>3. ASSUME Len(a) = Len(v), \A i \in DOMAIN v : a[i].bits = v[i] PROVE b = v
  BY <1>1, <1>3
<1> QED BY <1>2, <1>3

LEMMA SignsDiffer ==
  /\ SignOf("+0") # SignOf("-0")
  /\ \A d, x \in Zeros : SignOf(d) = SignOf(x) <=> d = x
<1>1. SignOf("+0") # SignOf("-0")
  <2>1. 1 # -1
    OBVIOUS
  <2>2. SignOf("+0") = 1 /\ SignOf("-0") = -1
    BY Zenon DEF SignOf
  <2> QED BY <2>1, <2>2, Zenon
<1>2. \A d \in Zeros : d = "+0" \/ d = "-0"
  BY Zenon DEF Zeros
<1> QED BY <1>1, <1>2, Zenon

HasDouble(o) == o.bits # ""

(* float_array_bits_equal, for elements that all have a double.            *)
LEMMA BitsDecide ==
  ASSUME NEW a \in Seq(Elements), NEW v \in Seq(STRING), \A i \in DOMAIN a : HasDouble(a[i])
  PROVE  BitsEqual(a, v) <=> [i \in DOMAIN a |-> a[i].bits] = v
<1>1. ASSUME Len(a) = Len(v), NEW i \in DOMAIN v
      PROVE  (IF v[i] \in a[i].eq THEN v[i] \in Zeros => a[i].sign = SignOf(v[i])
              ELSE a[i].bits = v[i])
               <=> a[i].bits = v[i]
  <2> DEFINE o == a[i]
             d == v[i]
  <2>1. o \in Elements /\ HasDouble(o)
    <3>1. DOMAIN a = 1 .. Len(a) /\ DOMAIN v = 1 .. Len(v)
      OBVIOUS
    <3>2. i \in DOMAIN a
      BY <1>1, <3>1
    <3>3. a[i] \in Elements
      BY <3>1, <3>2
    <3> QED BY <3>2, <3>3
  <2> HIDE DEF o, d
  <2>2. /\ \A x \in o.eq : x = o.bits \/ {x, o.bits} \subseteq Zeros
        /\ o.bits \in Zeros => o.sign = SignOf(o.bits)
    BY <2>1 DEF Elements, HasDouble
  <2>4. (IF d \in o.eq THEN d \in Zeros => o.sign = SignOf(d) ELSE o.bits = d) <=> o.bits = d
    <3>1. CASE d \in o.eq /\ d \in Zeros
      <4>1. o.bits \in Zeros /\ o.sign = SignOf(o.bits)
        BY <2>2, <3>1
      <4>2. SignOf(o.bits) = SignOf(d) <=> o.bits = d
        BY <3>1, <4>1, SignsDiffer
      <4> QED BY <3>1, <4>1, <4>2
    <3>2. CASE d \in o.eq /\ d \notin Zeros
      BY <2>2, <3>2
    <3>3. CASE d \notin o.eq
      BY <3>3
    <3> QED BY <3>1, <3>2, <3>3
  <2> QED BY <2>4 DEF o, d
<1>2. BitsEqual(a, v) <=> Len(a) = Len(v) /\ \A i \in DOMAIN v : a[i].bits = v[i]
  BY <1>1 DEF BitsEqual
<1> QED BY <1>2, SameBits

(* What was compared, and what each engine answered.                       *)
Compared ==
  held # <<>> =>
    \E a \in Arrays, v \in Defaults :
      held = <<a, v>>
      /\ same = [e \in Engines |-> IF e = "pure" THEN PureMatches(a.elems, a.list, v)
                                   ELSE NativeMatches(a.elems, a.list, v)]

LEMMA ComparedIs == Spec => []Compared
<1>1. Init => Compared
  BY DEF Init, Compared, floats
<1>2. Compared /\ [Next]_vars => Compared'
  <2> SUFFICES ASSUME Compared, [Next]_vars PROVE Compared'
    OBVIOUS
  <2>1. ASSUME NEW a \in Arrays, NEW v \in Defaults, Compare(a, v) PROVE Compared'
    BY <2>1 DEF Compare, Compared
  <2>2. CASE UNCHANGED floats
    BY <2>2 DEF Compared, floats
  <2>3. ASSUME NEW c \in Calls, Call(c) PROVE UNCHANGED floats
    BY <2>3 DEF Call
  <2>4. ASSUME NEW id \in Ids, NEW val \in 1 .. 2, Arrive(id, val) PROVE UNCHANGED floats
    BY <2>4 DEF Arrive
  <2>5. CASE UNCHANGED vars
    BY <2>2, <2>5 DEF vars
  <2> QED BY <2>1, <2>2, <2>3, <2>4, <2>5 DEF Next
<1> QED BY <1>1, <1>2, PTL DEF Spec

(* LeftOutOnlyAtDefault, for any float arrays: FloatArrayDefault compares  *)
(* at C speed where it can, and bit by bit in the native engine, and       *)
(* leaves a field out exactly where the default's bits are the field's.    *)
THEOREM LeftOutAtDefault == Spec => []LeftOutOnlyAtDefault
<1>1. Compared => LeftOutOnlyAtDefault
  <2> SUFFICES ASSUME Compared, held # <<>>
               PROVE  LET a == held[1].elems  bits == [i \in DOMAIN a |-> a[i].bits] IN
                      /\ same["pure"] = same["native"]
                      /\ "" \notin Range(bits) => BitsEqual(a, held[2]) = (bits = held[2])
                      /\ \A e \in Engines :
                           (\A i \in DOMAIN a : a[i].type \in {"float", "int"})
                             => same[e] = (bits = held[2])
    BY DEF LeftOutOnlyAtDefault
  <2>1. PICK r \in Arrays, v \in Defaults :
          held = <<r, v>>
          /\ same = [e \in Engines |-> IF e = "pure" THEN PureMatches(r.elems, r.list, v)
                                       ELSE NativeMatches(r.elems, r.list, v)]
    BY DEF Compared
  <2> DEFINE a == r.elems
             bits == [i \in DOMAIN a |-> a[i].bits]
  <2>2. a \in Seq(Elements) /\ r.list \in BOOLEAN /\ v \in Seq(STRING)
    BY FloatsAssumption
  <2>3. held[1].elems = a /\ held[2] = v
    BY <2>1
  <2>4. /\ same["pure"] = PureMatches(a, r.list, v)
        /\ same["native"] = NativeMatches(a, r.list, v)
    BY <2>1 DEF Engines
  <2>5. PureMatches(a, r.list, v) \in BOOLEAN /\ NativeMatches(a, r.list, v) \in BOOLEAN
        /\ BitsEqual(a, v) \in BOOLEAN
    BY DEF PureMatches, NativeMatches, BitsEqual, SeqMatches, ListEquals
  <2> HIDE DEF a
  <2>6. same["pure"] = SeqMatches(a, v) /\ same["native"] = SeqMatches(a, v)
    <3>1. SeqMatches(a, v) \in BOOLEAN
      BY DEF SeqMatches
    <3> QED BY <2>2, <2>4, <2>5, <3>1, ShortcutsKeepTheRule, NativeKeepsTheRule
  <2>7. ASSUME "" \notin Range(bits) PROVE BitsEqual(a, v) = (bits = v)
    <3>1. \A i \in DOMAIN a : HasDouble(a[i])
      BY <2>7, Zenon DEF Range, HasDouble
    <3>2. BitsEqual(a, v) <=> bits = v
      BY <2>2, <3>1, BitsDecide
    <3> QED BY <2>5, <3>2
  <2>8. ASSUME \A i \in DOMAIN a : a[i].type \in {"float", "int"}
        PROVE  SeqMatches(a, v) = (bits = v)
    <3>1. ASSUME Len(a) = Len(v), NEW i \in DOMAIN v
          PROVE  ElemMatches(a[i], v[i]) <=> a[i].bits = v[i]
      <4>1. i \in DOMAIN a /\ a[i] \in Elements
        BY <2>2, <3>1
      <4> QED BY <2>8, <4>1, ByItsBits
    <3>2. SeqMatches(a, v) <=> Len(a) = Len(v) /\ \A i \in DOMAIN v : a[i].bits = v[i]
      BY <3>1 DEF SeqMatches
    <3>3. SeqMatches(a, v) <=> bits = v
      BY <2>2, <3>2, SameBits
    <3>4. SeqMatches(a, v) \in BOOLEAN
      BY DEF SeqMatches
    <3> QED BY <3>3, <3>4
  <2> HIDE DEF bits
  <2>9. /\ same["pure"] = same["native"]
        /\ "" \notin Range(bits) => BitsEqual(a, v) = (bits = v)
        /\ \A e \in Engines :
             (\A i \in DOMAIN a : a[i].type \in {"float", "int"}) => same[e] = (bits = v)
    BY <2>6, <2>7, <2>8 DEF Engines
  <2> QED BY <2>3, <2>9 DEF bits
<1> QED BY <1>1, ComparedIs, PTL

-----------------------------------------------------------------------------
(* The list of an array.                                                   *)

Slot   == [obj : Nat, val : Seq(1 .. 2)]
Bounds == cap \in -SsizeMax - 1 .. SsizeMax /\ rcap \in [int : BOOLEAN, n : Int]
Kinds  == {"leaf", "elem", "row"}

(* The values that came for an index, and what its slot is to show.        *)
Vals(id)  == IF id \in Ids THEN came[id] ELSE <<>>
Shown(id) == IF kind = "elem" \/ Vals(id) = <<>> THEN Vals(id) ELSE <<Last(Vals(id))>>

Apart(list, n) ==
  /\ \A i \in DOMAIN list : list[i].obj \in 1 .. n
  /\ \A i, j \in DOMAIN list : list[i].obj = list[j].obj => i = j

(* As long as the highest admitted index that came, and no longer.         *)
ListReaches(list) ==
  /\ \A id \in Ids : Admitted(id) /\ came[id] # <<>> => id < Len(list)
  /\ Len(list) > 0 => /\ Len(list) - 1 \in Ids /\ Admitted(Len(list) - 1)
                      /\ came[Len(list) - 1] # <<>>

ListTyped == \A e \in Engines : slots[e] \in Seq(Slot) /\ made[e] \in Nat
ListIs ==
  \A e \in Engines :
    /\ kind # "leaf" => Apart(slots[e], made[e])
    /\ ListReaches(slots[e])
    /\ \A i \in DOMAIN slots[e] : slots[e][i].val = Shown(i - 1)

Typed ==
  /\ Bounds /\ kind \in Kinds /\ came \in [Ids -> Seq(1 .. 2)]
  /\ slots = [e \in Engines |-> slots[e]] /\ made = [e \in Engines |-> made[e]]
  /\ ListTyped

ReasonIsTold == \A e \in Engines : latest # <<>> => told[e] = Reason(latest[1])

ArrayInv == Typed /\ ListIs /\ ReasonIsTold

(* Both engines refuse an index for the reason that applies, a machine     *)
(* word's cap or a longer one.                                             *)
LEMMA BoundIsReason ==
  ASSUME Bounds, NEW id \in Ids, NEW e \in Engines
  PROVE  Bound(e, id) = Reason(id)
<1>1. id \in 0 .. SsizeMax /\ SsizeMax \in Nat
  BY IndexAssumption
<1>2. PureBound(id, cap, rcap) = Reason(id)
  <2>1. Admitted(id) <=> ~ IF cap >= 0 THEN id >= cap ELSE ~rcap.int \/ id >= rcap.n
    BY <1>1 DEF Admitted, Bounds
  <2>2. rcap.int /\ rcap.n >= 0 <=> ~(~rcap.int \/ rcap.n < 0)
    BY DEF Bounds
  <2>3. CASE Admitted(id)
    BY <2>1, <2>3 DEF PureBound, Reason
  <2>4. CASE ~Admitted(id)
    BY <2>1, <2>2, <2>4 DEF PureBound, Refusal, Reason
  <2> QED BY <2>3, <2>4
<1>3. NativeBound(id, cap, rcap) = Reason(id)
  <2>1. PastRcap(id, rcap) <=> ~rcap.int \/ id >= rcap.n
    BY <1>1 DEF PastRcap, Bounds
  <2>2. NativeBound(id, cap, rcap) = PureBound(id, cap, rcap)
    BY <2>1 DEF NativeBound, PureBound, Bounds
  <2> QED BY <1>2, <2>2
<1> QED BY <1>2, <1>3 DEF Bound

LEMMA ReasonIsNone ==
  ASSUME NEW id PROVE Reason(id) = "" <=> Admitted(id)
BY DEF Reason

(* What is below an admitted index is admitted.                            *)
LEMMA AdmittedBelow ==
  ASSUME Bounds, NEW id \in Nat, NEW i \in 0 .. id, Admitted(id)
  PROVE  Admitted(i)
BY DEF Admitted, Bounds

LEMMA Padding ==
  ASSUME NEW list \in Seq(Slot), NEW n \in Nat
  PROVE  /\ Missing(list, n) \in Nat
         /\ Len(list) + Missing(list, n) = IF Len(list) >= n THEN Len(list) ELSE n
BY LenProperties DEF Missing

(* A list with slots behind it.                                            *)
LEMMA Padded ==
  ASSUME NEW list \in Seq(Slot), NEW k \in Nat, NEW made0 \in Nat,
         NEW pad \in Seq(Slot), Len(pad) = k,
         \A i \in 1 .. k : pad[i].val = <<>>
  PROVE  LET r == list \o pad IN
         /\ r \in Seq(Slot) /\ Len(r) = Len(list) + k
         /\ \A i \in DOMAIN r : IF i <= Len(list) THEN r[i] = list[i]
                                ELSE r[i] = pad[i - Len(list)] /\ r[i].val = <<>>
         /\ Apart(list, made0) /\ (\A i \in 1 .. k : pad[i].obj = made0 + i)
              => Apart(r, made0 + k)
<1> DEFINE r == list \o pad
<1>1. /\ r \in Seq(Slot) /\ Len(r) = Len(list) + k
      /\ \A i \in 1 .. Len(list) + k : r[i] = IF i <= Len(list) THEN list[i] ELSE pad[i - Len(list)]
  BY ConcatProperties
<1>2. Len(list) \in Nat /\ DOMAIN r = 1 .. Len(list) + k /\ DOMAIN list = 1 .. Len(list)
  BY <1>1, LenProperties
<1> HIDE DEF r
<1>3. \A i \in DOMAIN r : IF i <= Len(list) THEN r[i] = list[i]
                          ELSE r[i] = pad[i - Len(list)] /\ r[i].val = <<>>
  BY <1>1, <1>2
<1>4. ASSUME Apart(list, made0), \A i \in 1 .. k : pad[i].obj = made0 + i
      PROVE  Apart(r, made0 + k)
  <2>1. ASSUME NEW i \in DOMAIN r
        PROVE  /\ i <= Len(list) => i \in DOMAIN list /\ r[i].obj = list[i].obj
                                    /\ r[i].obj \in 1 .. made0
               /\ i > Len(list) => r[i].obj = made0 + (i - Len(list))
    <3>1. CASE i <= Len(list)
      <4>1. i \in DOMAIN list /\ r[i] = list[i]
        BY <1>2, <1>3, <2>1, <3>1
      <4>2. list[i].obj \in 1 .. made0
        BY <1>4, <4>1 DEF Apart
      <4> QED BY <1>2, <3>1, <4>1, <4>2
    <3>2. CASE i > Len(list)
      <4>1. r[i] = pad[i - Len(list)] /\ i - Len(list) \in 1 .. k
        BY <1>2, <1>3, <2>1, <3>2
      <4> QED BY <1>2, <1>4, <3>2, <4>1
    <3> QED BY <1>2, <3>1, <3>2
  <2>2. \A i \in DOMAIN r : r[i].obj \in 1 .. made0 + k
    BY <1>2, <2>1
  <2>3. ASSUME NEW i \in DOMAIN r, NEW j \in DOMAIN r, r[i].obj = r[j].obj
        PROVE  i = j
    <3>1. CASE i <= Len(list) /\ j <= Len(list)
      BY <1>4, <2>1, <2>3, <3>1 DEF Apart
    <3>2. CASE ~(i <= Len(list) /\ j <= Len(list))
      BY <1>2, <2>1, <2>3, <3>2
    <3> QED BY <3>1, <3>2
  <2> QED BY <2>2, <2>3 DEF Apart
<1> QED BY <1>1, <1>3, <1>4 DEF r

(* What reserving does, whichever the kind: an index past the end is given *)
(* slots of its own up to it, the others stay, a row is opened again.      *)
Readied(r, list, id, n) ==
  /\ r \in Seq(Slot) /\ Len(r) = IF Len(list) > id THEN Len(list) ELSE id + 1
  /\ \A i \in DOMAIN r :
       r[i].val = IF i <= Len(list) /\ ~(kind = "row" /\ i = id + 1) THEN list[i].val ELSE <<>>
  /\ kind # "leaf" => Apart(r, n)

LEMMA FreshSlots ==
  ASSUME NEW n \in Nat, NEW k \in Nat
  PROVE  LET f == [i \in 1 .. k |-> Made(n + i)] IN
         /\ f \in Seq(Slot) /\ Len(f) = k
         /\ \A i \in 1 .. k : f[i].val = <<>> /\ f[i].obj = n + i
<1> DEFINE f == [i \in 1 .. k |-> Made(n + i)]
<1>1. \A m \in Nat : Made(m) \in Slot /\ Made(m).val = <<>> /\ Made(m).obj = m
  BY DEF Made, Slot
<1>2. \A i \in 1 .. k : f[i] = Made(n + i) /\ n + i \in Nat
  OBVIOUS
<1>3. f \in [1 .. k -> Slot]
  BY <1>1, <1>2
<1>4. DOMAIN f = 1 .. k
  OBVIOUS
<1> HIDE DEF f
<1>6. f \in Seq(Slot)
  BY <1>3, SeqDef
<1>7. Len(f) = k
  BY <1>4, <1>6, LenProperties
<1>5. \A i \in 1 .. k : f[i].val = <<>> /\ f[i].obj = n + i
  BY <1>1, <1>2
<1> QED BY <1>5, <1>6, <1>7 DEF f

LEMMA DefaultSlots ==
  ASSUME NEW k \in Nat
  PROVE  LET f == [i \in 1 .. k |-> Leaf] IN
         f \in Seq(Slot) /\ Len(f) = k /\ \A i \in 1 .. k : f[i].val = <<>>
<1> DEFINE f == [i \in 1 .. k |-> Leaf]
<1>1. Leaf \in Slot /\ Leaf.val = <<>>
  BY DEF Leaf, Slot
<1>2. f \in [1 .. k -> Slot] /\ \A i \in 1 .. k : f[i].val = <<>>
  BY <1>1
<1>3. f \in Seq(Slot) /\ Len(f) = k
  BY <1>2, SeqDef, LenProperties
<1> QED BY <1>2, <1>3

(* Objects apart stay apart when more are counted.                         *)
LEMMA ApartWithin ==
  ASSUME NEW list, NEW n \in Nat, NEW m \in Nat, n <= m, Apart(list, n)
  PROVE  Apart(list, m)
<1>1. 1 .. n \subseteq 1 .. m
  OBVIOUS
<1> QED BY <1>1 DEF Apart

LEMMA ReadiedLeaf ==
  ASSUME NEW list \in Seq(Slot), NEW id \in Nat, NEW n \in Nat, kind = "leaf"
  PROVE  Readied(ReserveLeaf(list, id), list, id, n)
<1> DEFINE k == Missing(list, id + 1)
           pad == [i \in 1 .. k |-> Leaf]
           r == list \o pad
<1>1. id + 1 \in Nat /\ k \in Nat
      /\ Len(list) + k = IF Len(list) >= id + 1 THEN Len(list) ELSE id + 1
  <2>1. id + 1 \in Nat
    OBVIOUS
  <2> QED BY <2>1, Padding
<1>2. ReserveLeaf(list, id) = r
  BY DEF ReserveLeaf
<1> HIDE DEF k
<1>3. pad \in Seq(Slot) /\ Len(pad) = k /\ \A i \in 1 .. k : pad[i].val = <<>>
  BY <1>1, DefaultSlots
<1> HIDE DEF pad
<1>4. /\ r \in Seq(Slot) /\ Len(r) = Len(list) + k
      /\ \A i \in DOMAIN r : IF i <= Len(list) THEN r[i] = list[i] ELSE r[i].val = <<>>
  BY <1>1, <1>3, Padded
<1> HIDE DEF r
<1>5. Len(list) \in Nat
  BY LenProperties
<1>6. kind # "row"
  OBVIOUS
<1> QED BY <1>1, <1>2, <1>4, <1>5, <1>6 DEF Readied

LEMMA ReadiedElem ==
  ASSUME NEW list \in Seq(Slot), NEW id \in Nat, NEW n \in Nat, kind = "elem", Apart(list, n)
  PROVE  Readied(ReserveElem(list, id, n), list, id, n + id + 1)
<1> DEFINE k == Missing(list, id + 1)
           pad == [i \in 1 .. k |-> Made(n + i)]
           r == list \o pad
<1>1. id + 1 \in Nat /\ k \in Nat
      /\ Len(list) + k = IF Len(list) >= id + 1 THEN Len(list) ELSE id + 1
  <2>1. id + 1 \in Nat
    OBVIOUS
  <2> QED BY <2>1, Padding
<1>2. ReserveElem(list, id, n) = r
  BY DEF ReserveElem
<1>3. Len(list) \in Nat
  BY LenProperties
<1>4. k <= id + 1
  BY <1>3 DEF Missing
<1> HIDE DEF k
<1>5. pad \in Seq(Slot) /\ Len(pad) = k /\ \A i \in 1 .. k : pad[i].val = <<>> /\ pad[i].obj = n + i
  BY <1>1, FreshSlots
<1> HIDE DEF pad
<1>6. /\ r \in Seq(Slot) /\ Len(r) = Len(list) + k
      /\ \A i \in DOMAIN r : IF i <= Len(list) THEN r[i] = list[i] ELSE r[i].val = <<>>
      /\ Apart(r, n + k)
  <2>1. k \in Nat /\ pad \in Seq(Slot) /\ Len(pad) = k /\ \A i \in 1 .. k : pad[i].val = <<>>
    BY <1>1, <1>5
  <2>2. \A i \in 1 .. k : pad[i].obj = n + i
    BY <1>5
  <2> QED BY <2>1, <2>2, Padded, SMTT(40)
<1> HIDE DEF r
<1>7. Apart(r, n + id + 1)
  BY <1>1, <1>4, <1>6, ApartWithin
<1>8. kind # "row" /\ kind # "leaf"
  OBVIOUS
<1> QED BY <1>1, <1>2, <1>3, <1>6, <1>7, <1>8 DEF Readied

LEMMA ReadiedRow ==
  ASSUME NEW list \in Seq(Slot), NEW id \in Nat, NEW n \in Nat, kind = "row", Apart(list, n)
  PROVE  Readied(ReserveRow(list, id, n), list, id, n + id + 1)
<1> DEFINE m == Missing(list, id)
           gaps == [i \in 1 .. m |-> Made(n + i)]
           row == Made(n + m + 1)
           pad == Append(gaps, row)
<1>1. m \in Nat /\ Len(list) \in Nat /\ m <= id
      /\ Len(list) + m = IF Len(list) >= id THEN Len(list) ELSE id
  BY Padding, LenProperties DEF Missing
<1>2. ReserveRow(list, id, n)
        = IF Len(list) <= id THEN list \o pad ELSE [list EXCEPT ![id + 1] = row]
  BY DEF ReserveRow
<1> HIDE DEF m
<1>3. row \in Slot /\ row.val = <<>> /\ row.obj = n + m + 1 /\ n + m + 1 \in Nat
  BY <1>1 DEF Made, Slot
<1>4. gaps \in Seq(Slot) /\ Len(gaps) = m /\ \A i \in 1 .. m : gaps[i].val = <<>> /\ gaps[i].obj = n + i
  BY <1>1, FreshSlots
<1> HIDE DEF gaps, row
<1>5. /\ pad \in Seq(Slot) /\ Len(pad) = m + 1
      /\ \A i \in 1 .. m + 1 : pad[i].val = <<>> /\ pad[i].obj = n + i
  <2>1. row \in Slot /\ gaps \in Seq(Slot)
    BY <1>3, <1>4
  <2>2. /\ pad \in Seq(Slot) /\ Len(pad) = Len(gaps) + 1 /\ pad[Len(gaps) + 1] = row
        /\ \A i \in 1 .. Len(gaps) : pad[i] = gaps[i]
    BY <2>1, AppendProperties
  <2> HIDE DEF pad
  <2>3. ASSUME NEW i \in 1 .. m + 1 PROVE pad[i].val = <<>> /\ pad[i].obj = n + i
    <3>1. CASE i = m + 1
      BY <1>1, <1>3, <1>4, <2>2, <3>1
    <3>2. CASE i \in 1 .. m
      BY <1>4, <2>2, <3>2
    <3> QED BY <1>1, <3>1, <3>2
  <2> QED BY <1>4, <2>2, <2>3
<1> HIDE DEF pad
<1>6. CASE Len(list) <= id
  <2> DEFINE r == list \o pad
  <2>1. m + 1 \in Nat
    BY <1>1
  <2>2. /\ r \in Seq(Slot) /\ Len(r) = Len(list) + (m + 1)
        /\ \A i \in DOMAIN r : IF i <= Len(list) THEN r[i] = list[i] ELSE r[i].val = <<>>
        /\ Apart(r, n + (m + 1))
    <3>1. /\ m + 1 \in Nat /\ pad \in Seq(Slot) /\ Len(pad) = m + 1
          /\ \A i \in 1 .. m + 1 : pad[i].val = <<>>
      BY <1>5, <2>1
    <3>2. \A i \in 1 .. m + 1 : pad[i].obj = n + i
      BY <1>5
    <3> DEFINE k == m + 1
    <3>3. /\ k \in Nat /\ Len(pad) = k /\ (\A i \in 1 .. k : pad[i].val = <<>>)
          /\ \A i \in 1 .. k : pad[i].obj = n + i
      BY <3>1, <3>2
    <3> HIDE DEF k
    <3>4. /\ r \in Seq(Slot) /\ Len(r) = Len(list) + k
          /\ \A i \in DOMAIN r : IF i <= Len(list) THEN r[i] = list[i] ELSE r[i].val = <<>>
          /\ Apart(r, n + k)
      BY <3>1, <3>3, Padded, SMTT(40)
    <3> QED BY <3>4 DEF k
  <2>3. ReserveRow(list, id, n) = r
    BY <1>2, <1>6
  <2> HIDE DEF r
  <2>4. Apart(r, n + id + 1)
    <3>1. n + (m + 1) \in Nat /\ n + id + 1 \in Nat /\ n + (m + 1) <= n + id + 1
      BY <1>1
    <3> QED BY <2>2, <3>1, ApartWithin
  <2>5. Len(r) = id + 1
    BY <1>1, <1>6, <2>2
  <2>6. \A i \in DOMAIN r : i <= Len(list) => ~(i = id + 1)
    BY <1>1, <1>6
  <2>7. \A i \in DOMAIN r :
          r[i].val = IF i <= Len(list) /\ ~(kind = "row" /\ i = id + 1) THEN list[i].val ELSE <<>>
    BY <2>2, <2>6
  <2>8. Len(r) = IF Len(list) > id THEN Len(list) ELSE id + 1
    BY <1>1, <1>6, <2>5
  <2>9. Readied(r, list, id, n + id + 1)
    BY <2>2, <2>4, <2>7, <2>8, Zenon DEF Readied
  <2> QED BY <2>3, <2>9
<1>7. CASE Len(list) > id
  <2> DEFINE r == [list EXCEPT ![id + 1] = row]
  <2>1. id + 1 \in 1 .. Len(list) /\ m = 0
    BY <1>1, <1>7
  <2>2. /\ r \in Seq(Slot) /\ Len(r) = Len(list)
        /\ \A j \in 1 .. Len(list) : r[j] = IF j = id + 1 THEN row ELSE list[j]
    BY <1>3, <2>1, ExceptSeq
  <2>3. ReserveRow(list, id, n) = r
    BY <1>1, <1>2, <1>7
  <2> HIDE DEF r
  <2>4. DOMAIN r = 1 .. Len(list) /\ DOMAIN list = 1 .. Len(list)
    BY <2>2, LenProperties
  <2>5. Apart(r, n + id + 1)
    <3>1. row.obj = n + 1
      BY <1>3, <2>1
    <3>2. \A j \in DOMAIN list : list[j].obj \in 1 .. n
      BY DEF Apart
    <3>3. \A j \in DOMAIN r : r[j].obj \in 1 .. n + id + 1
      BY <2>2, <2>4, <3>1, <3>2
    <3>4. ASSUME NEW i \in DOMAIN r, NEW j \in DOMAIN r, r[i].obj = r[j].obj PROVE i = j
      <4>1. CASE i = id + 1 \/ j = id + 1
        BY <2>2, <2>4, <3>1, <3>2, <3>4, <4>1
      <4>2. CASE i # id + 1 /\ j # id + 1
        <5>1. r[i] = list[i] /\ r[j] = list[j]
          BY <2>2, <2>4, <4>2
        <5> QED BY <2>4, <3>4, <5>1 DEF Apart
      <4> QED BY <4>1, <4>2
    <3> QED BY <3>3, <3>4 DEF Apart
  <2> QED BY <1>3, <1>7, <2>2, <2>3, <2>4, <2>5 DEF Readied
<1> QED BY <1>1, <1>6, <1>7

LEMMA ReservedIs ==
  ASSUME Typed, ListIs, NEW id \in Ids, NEW e \in Engines
  PROVE  Readied(Reserved(e, id), slots[e], id, made[e] + id + 1)
<1>1. id \in Nat
  BY IndexAssumption
<1>2. slots[e] \in Seq(Slot) /\ made[e] \in Nat
  BY DEF Typed, ListTyped
<1>3. made[e] + id + 1 \in Nat
  BY <1>1, <1>2
<1>4. CASE kind = "leaf"
  <2>1. Reserved(e, id) = ReserveLeaf(slots[e], id)
    BY <1>4 DEF Reserved
  <2> QED BY <1>1, <1>2, <1>3, <1>4, <2>1, ReadiedLeaf
<1>5. CASE kind = "elem"
  <2>1. Reserved(e, id) = ReserveElem(slots[e], id, made[e])
    BY <1>5 DEF Reserved
  <2>2. Apart(slots[e], made[e])
    BY <1>5 DEF ListIs
  <2> QED BY <1>1, <1>2, <1>5, <2>1, <2>2, ReadiedElem
<1>6. CASE kind = "row"
  <2>1. Reserved(e, id) = ReserveRow(slots[e], id, made[e])
    BY <1>6 DEF Reserved
  <2>2. Apart(slots[e], made[e])
    BY <1>6 DEF ListIs
  <2> QED BY <1>1, <1>2, <1>6, <2>1, <2>2, ReadiedRow
<1> QED BY <1>4, <1>5, <1>6 DEF Typed, Kinds

(* What is stored behind a header changes the slot at its index alone, the *)
(* objects being apart.                                                    *)
LEMMA StoredIs ==
  ASSUME NEW list \in Seq(Slot), NEW id \in Nat, NEW n \in Nat, NEW val \in 1 .. 2,
         id < Len(list), kind # "leaf" => Apart(list, n)
  PROVE  LET s == Stored(list, id, val) IN
         /\ s \in Seq(Slot) /\ Len(s) = Len(list)
         /\ \A i \in DOMAIN s :
              s[i].val = IF i # id + 1 THEN list[i].val
                         ELSE IF kind = "leaf" THEN <<val>> ELSE Append(list[i].val, val)
         /\ kind # "leaf" => Apart(s, n)
<1> DEFINE s == Stored(list, id, val)
<1>1. id + 1 \in 1 .. Len(list) /\ Len(list) \in Nat /\ DOMAIN list = 1 .. Len(list)
  BY LenProperties
<1>2. CASE kind = "leaf"
  <2> DEFINE x == [obj |-> 0, val |-> <<val>>]
  <2>1. x \in Slot /\ x.val = <<val>>
    BY DEF Slot
  <2>2. s = [list EXCEPT ![id + 1] = x]
    BY <1>2 DEF Stored
  <2> HIDE DEF s, x
  <2>3. /\ s \in Seq(Slot) /\ Len(s) = Len(list)
        /\ \A j \in 1 .. Len(list) : s[j] = IF j = id + 1 THEN x ELSE list[j]
    BY <1>1, <2>1, <2>2, ExceptSeq
  <2>4. DOMAIN s = 1 .. Len(list)
    BY <2>3, LenProperties
  <2>5. \A i \in DOMAIN s :
          s[i].val = IF i # id + 1 THEN list[i].val
                     ELSE IF kind = "leaf" THEN <<val>> ELSE Append(list[i].val, val)
    BY <1>2, <2>1, <2>3, <2>4
  <2> QED BY <1>2, <2>3, <2>5 DEF s
<1>3. CASE kind # "leaf"
  <2> DEFINE y(i) == [list[i] EXCEPT !.val = Append(@, val)]
  <2>1. s = [i \in DOMAIN list |-> IF list[i].obj = list[id + 1].obj THEN y(i) ELSE list[i]]
    BY <1>3 DEF Stored
  <2>2. ASSUME NEW i \in DOMAIN list
        PROVE  /\ y(i) \in Slot /\ y(i).val = Append(list[i].val, val) /\ y(i).obj = list[i].obj
               /\ list[i] \in Slot
    <3>1. list[i] \in Slot
      BY <1>1, <2>2, ElementOfSeq
    <3>2. Append(list[i].val, val) \in Seq(1 .. 2)
      BY <3>1, AppendProperties DEF Slot
    <3> QED BY <3>1, <3>2 DEF Slot
  <2> HIDE DEF y, s
  <2>3. \A i \in DOMAIN list : list[i].obj = list[id + 1].obj <=> i = id + 1
    BY <1>1, <1>3 DEF Apart
  <2>4. s = [i \in DOMAIN list |-> IF i = id + 1 THEN y(i) ELSE list[i]]
    BY <2>1, <2>3
  <2>5. s \in [1 .. Len(list) -> Slot]
    BY <1>1, <2>2, <2>4
  <2>6. s \in Seq(Slot) /\ DOMAIN s = DOMAIN list
    BY <1>1, <2>5, SeqDef
  <2>7. Len(s) = Len(list)
    BY <1>1, <2>6, LenProperties
  <2>8. \A i \in DOMAIN s :
          /\ s[i].val = IF i # id + 1 THEN list[i].val ELSE Append(list[i].val, val)
          /\ s[i].obj = list[i].obj
    BY <2>2, <2>4, <2>6
  <2>9. Apart(s, n)
    BY <1>3, <2>6, <2>8 DEF Apart
  <2> QED BY <1>3, <2>6, <2>7, <2>8, <2>9 DEF s
<1> QED BY <1>2, <1>3

(* What came, and what a slot is to show of it, when one more element has. *)
LEMMA OneMoreCame ==
  ASSUME Typed, NEW id \in Ids, NEW val \in 1 .. 2,
         came' = [came EXCEPT ![id] = Append(@, val)], kind' = kind
  PROVE  /\ came' \in [Ids -> Seq(1 .. 2)]
         /\ \A x : Vals(x)' = IF x = id THEN Append(Vals(x), val) ELSE Vals(x)
         /\ \A x : x # id => Shown(x)' = Shown(x)
         /\ Shown(id)' = IF kind = "elem" THEN Append(Vals(id), val) ELSE <<val>>
         /\ \A x \in Ids : came'[x] # <<>> <=> came[x] # <<>> \/ x = id
<1>1. came \in [Ids -> Seq(1 .. 2)]
  BY DEF Typed
<1>2. came[id] \in Seq(1 .. 2)
  BY <1>1
<1>3. /\ Append(came[id], val) \in Seq(1 .. 2) /\ Append(came[id], val) # <<>>
      /\ Len(Append(came[id], val)) = Len(came[id]) + 1
      /\ Append(came[id], val)[Len(came[id]) + 1] = val
  BY <1>2, AppendProperties
<1>4. Last(Append(came[id], val)) = val
  BY <1>3 DEF Last
<1>5. came' \in [Ids -> Seq(1 .. 2)]
      /\ \A x \in Ids : came'[x] = IF x = id THEN Append(came[x], val) ELSE came[x]
  BY <1>1, <1>3
<1>6. ASSUME NEW x PROVE Vals(x)' = IF x = id THEN Append(Vals(x), val) ELSE Vals(x)
  BY <1>5 DEF Vals
<1>7. ASSUME NEW x, x # id PROVE Shown(x)' = Shown(x)
  BY <1>6, <1>7 DEF Shown
<1>8. Shown(id)' = IF kind = "elem" THEN Append(Vals(id), val) ELSE <<val>>
  <2>1. Vals(id)' = Append(Vals(id), val) /\ Vals(id) = came[id]
    BY <1>6 DEF Vals
  <2>2. Shown(id)' = IF kind = "elem" \/ Vals(id)' = <<>> THEN Vals(id)' ELSE <<Last(Vals(id)')>>
    BY DEF Shown
  <2> QED BY <1>3, <1>4, <2>1, <2>2
<1>9. \A x \in Ids : came'[x] # <<>> <=> came[x] # <<>> \/ x = id
  BY <1>3, <1>5
<1> QED BY <1>5, <1>6, <1>7, <1>8, <1>9

(* An admitted element, in one engine: the slot at its index shows it, the *)
(* slots given before it the default, and the list ends with it or where   *)
(* it did.                                                                 *)
LEMMA AdmittedArrives ==
  ASSUME Typed, ListIs, NEW id \in Ids, NEW val \in 1 .. 2, Admitted(id), NEW e \in Engines,
         came' = [came EXCEPT ![id] = Append(@, val)],
         kind' = kind, cap' = cap, rcap' = rcap,
         NEW s, s = Stored(Reserved(e, id), id, val)
  PROVE  /\ s \in Seq(Slot)
         /\ kind # "leaf" => Apart(s, made[e] + id + 1)
         /\ ListReaches(s)'
         /\ \A i \in DOMAIN s : s[i].val = Shown(i - 1)'
<1> DEFINE r == Reserved(e, id)
           list == slots[e]
           n == made[e] + id + 1
<1>1. id \in Nat /\ \A x \in Ids : x \in Nat
  BY IndexAssumption
<1>2. /\ list \in Seq(Slot) /\ made[e] \in Nat /\ n \in Nat
      /\ Len(list) \in Nat /\ DOMAIN list = 1 .. Len(list)
  BY <1>1, LenProperties DEF Typed, ListTyped
<1>3. Readied(r, list, id, n)
  BY ReservedIs
<1>4. ListReaches(list) /\ \A i \in DOMAIN list : list[i].val = Shown(i - 1)
  BY DEF ListIs
<1> HIDE DEF r, list, n
<1>5. /\ r \in Seq(Slot) /\ Len(r) = IF Len(list) > id THEN Len(list) ELSE id + 1
      /\ \A i \in DOMAIN r :
           r[i].val = IF i <= Len(list) /\ ~(kind = "row" /\ i = id + 1) THEN list[i].val ELSE <<>>
      /\ kind # "leaf" => Apart(r, n)
  BY <1>3, Zenon DEF Readied
<1>13. s = Stored(r, id, val)
  BY DEF r
<1>6. id < Len(r)
  BY <1>1, <1>2, <1>5
<1>7. /\ s \in Seq(Slot) /\ Len(s) = Len(r)
      /\ \A i \in DOMAIN s :
           s[i].val = IF i # id + 1 THEN r[i].val
                      ELSE IF kind = "leaf" THEN <<val>> ELSE Append(r[i].val, val)
      /\ kind # "leaf" => Apart(s, n)
  BY <1>1, <1>2, <1>5, <1>6, <1>13, StoredIs
<1>8. DOMAIN s = 1 .. Len(r) /\ DOMAIN r = 1 .. Len(r) /\ Len(r) \in Nat
  BY <1>5, <1>7, LenProperties
<1>9. /\ \A x : x # id => Shown(x)' = Shown(x)
      /\ Shown(id)' = IF kind = "elem" THEN Append(Vals(id), val) ELSE <<val>>
      /\ \A x \in Ids : came'[x] # <<>> <=> came[x] # <<>> \/ x = id
  BY OneMoreCame
<1>10. \A x : Admitted(x)' <=> Admitted(x)
  BY DEF Admitted
<1>11. ListReaches(s)'
  <2>1. ASSUME NEW x \in Ids, Admitted(x)', came'[x] # <<>> PROVE x < Len(s)
    <3>1. CASE x = id
      BY <1>6, <1>7, <3>1
    <3>2. CASE x # id
      <4>1. x < Len(list)
        BY <1>4, <1>9, <1>10, <2>1, <3>2 DEF ListReaches
      <4> QED BY <1>1, <1>2, <1>5, <1>7, <4>1
    <3> QED BY <3>1, <3>2
  <2>2. Len(s) - 1 \in Ids /\ Admitted(Len(s) - 1)' /\ came'[Len(s) - 1] # <<>>
    <3>1. CASE Len(list) > id
      <4>1. Len(s) = Len(list) /\ Len(list) > 0
        BY <1>1, <1>5, <1>7, <3>1
      <4>2. Len(list) - 1 \in Ids /\ Admitted(Len(list) - 1) /\ came[Len(list) - 1] # <<>>
        BY <1>4, <4>1 DEF ListReaches
      <4> QED BY <1>9, <1>10, <4>1, <4>2
    <3>2. CASE ~(Len(list) > id)
      <4>1. Len(s) - 1 = id
        BY <1>1, <1>5, <1>7, <3>2
      <4> QED BY <1>9, <1>10, <4>1
    <3> QED BY <3>1, <3>2
  <2> QED BY <2>1, <2>2 DEF ListReaches
<1>12. ASSUME NEW i \in DOMAIN s PROVE s[i].val = Shown(i - 1)'
  <2>1. i \in 1 .. Len(r) /\ i \in DOMAIN r /\ i - 1 \in Nat
    BY <1>8, <1>12
  <2>2. CASE i # id + 1
    <3>1. s[i].val = r[i].val /\ Shown(i - 1)' = Shown(i - 1)
      <4>1. i - 1 # id
        BY <1>1, <2>1, <2>2
      <4> QED BY <1>7, <1>9, <1>12, <2>2, <4>1
    <3>2. CASE i <= Len(list)
      BY <1>2, <1>4, <1>5, <2>1, <2>2, <3>1, <3>2
    <3>3. CASE ~(i <= Len(list))
      <4>1. r[i].val = <<>>
        BY <1>5, <2>1, <3>3
      <4>2. i - 1 \in 0 .. id
        BY <1>1, <1>2, <1>5, <2>1, <3>3
      <4>3. Admitted(i - 1)
        BY <1>1, <4>2, AdmittedBelow DEF Typed
      <4>4. Vals(i - 1) = <<>>
        <5>1. CASE i - 1 \in Ids
          <6>1. ~(i - 1 < Len(list))
            BY <1>2, <2>1, <3>3
          <6>2. came[i - 1] = <<>>
            BY <1>4, <4>3, <5>1, <6>1 DEF ListReaches
          <6> QED BY <5>1, <6>2 DEF Vals
        <5>2. CASE i - 1 \notin Ids
          BY <5>2 DEF Vals
        <5> QED BY <5>1, <5>2
      <4>5. Shown(i - 1) = <<>>
        BY <4>4 DEF Shown
      <4> QED BY <3>1, <4>1, <4>5
    <3> QED BY <3>2, <3>3
  <2>3. CASE i = id + 1
    <3>1. i - 1 = id /\ s[i].val = IF kind = "leaf" THEN <<val>> ELSE Append(r[i].val, val)
      BY <1>1, <1>7, <1>12, <2>3
    <3>2. CASE kind = "leaf"
      <4>1. kind # "elem"
        BY <3>2
      <4> QED BY <1>9, <3>1, <3>2, <4>1
    <3>3. CASE kind = "row"
      <4>1. r[i].val = <<>>
        BY <1>5, <2>1, <2>3, <3>3
      <4>2. Append(r[i].val, val) = <<val>>
        BY <4>1
      <4>3. kind # "elem" /\ kind # "leaf"
        BY <3>3
      <4> QED BY <1>9, <3>1, <4>2, <4>3
    <3>4. CASE kind = "elem"
      <4>1. kind # "row" /\ kind # "leaf"
        BY <3>4
      <4>2. r[i].val = Vals(id)
        <5>1. CASE i <= Len(list)
          <6>1. r[i].val = list[i].val /\ list[i].val = Shown(id)
            BY <1>2, <1>4, <1>5, <2>1, <3>1, <4>1, <5>1
          <6> QED BY <3>4, <6>1 DEF Shown
        <5>2. CASE ~(i <= Len(list))
          <6>1. r[i].val = <<>>
            BY <1>5, <2>1, <5>2
          <6>2. ~(id < Len(list))
            BY <1>1, <1>2, <2>3, <5>2
          <6>3. came[id] = <<>>
            BY <1>4, <6>2 DEF ListReaches
          <6> QED BY <6>1, <6>3 DEF Vals
        <5> QED BY <5>1, <5>2
      <4> QED BY <1>9, <3>1, <3>4, <4>1, <4>2
    <3> QED BY <3>2, <3>3, <3>4 DEF Typed, Kinds
  <2> QED BY <2>2, <2>3
<1> QED BY <1>7, <1>11, <1>12 DEF n

(* A refused one changes nothing, and what came for it is shown nowhere.   *)
LEMMA RefusedArrives ==
  ASSUME Typed, ListIs, NEW id \in Ids, NEW val \in 1 .. 2, ~Admitted(id), NEW e \in Engines,
         came' = [came EXCEPT ![id] = Append(@, val)],
         kind' = kind, cap' = cap, rcap' = rcap,
         NEW s, s = slots[e]
  PROVE  ListReaches(s)' /\ \A i \in DOMAIN s : s[i].val = Shown(i - 1)'
<1>1. id \in Nat /\ \A x \in Ids : x \in Nat
  BY IndexAssumption
<1>2. s \in Seq(Slot) /\ Len(s) \in Nat /\ DOMAIN s = 1 .. Len(s)
  BY LenProperties DEF Typed, ListTyped
<1>3. ListReaches(s) /\ \A i \in DOMAIN s : s[i].val = Shown(i - 1)
  BY DEF ListIs
<1>4. /\ \A x : x # id => Shown(x)' = Shown(x)
      /\ \A x \in Ids : came'[x] # <<>> <=> came[x] # <<>> \/ x = id
  BY OneMoreCame
<1>5. \A x : Admitted(x)' <=> Admitted(x)
  BY DEF Admitted
<1>6. ListReaches(s)'
  <2>1. ASSUME NEW x \in Ids, Admitted(x)', came'[x] # <<>> PROVE x < Len(s)
    <3>1. x # id /\ Admitted(x)
      BY <1>5, <2>1
    <3> QED BY <1>3, <1>4, <2>1, <3>1 DEF ListReaches
  <2>2. ASSUME Len(s) > 0
        PROVE  Len(s) - 1 \in Ids /\ Admitted(Len(s) - 1)' /\ came'[Len(s) - 1] # <<>>
    <3>1. Len(s) - 1 \in Ids /\ Admitted(Len(s) - 1) /\ came[Len(s) - 1] # <<>>
      BY <1>3, <2>2 DEF ListReaches
    <3> QED BY <1>4, <1>5, <3>1
  <2> QED BY <2>1, <2>2 DEF ListReaches
<1>7. ASSUME NEW i \in DOMAIN s PROVE s[i].val = Shown(i - 1)'
  <2>1. i \in 1 .. Len(s) /\ i - 1 \in 0 .. Len(s) - 1 /\ Len(s) > 0 /\ Len(s) - 1 \in Nat
    BY <1>2, <1>7
  <2>2. Admitted(Len(s) - 1)
    BY <1>3, <2>1 DEF ListReaches
  <2>3. Admitted(i - 1)
    BY <2>1, <2>2, AdmittedBelow DEF Typed
  <2>4. i - 1 # id
    BY <2>3
  <2> QED BY <1>3, <1>4, <1>7, <2>4
<1> QED BY <1>6, <1>7

LEMMA ArrayInit ==
  ASSUME CapsConvert
  PROVE  Init => ArrayInv
<1> SUFFICES ASSUME Init PROVE ArrayInv
  OBVIOUS
<1>1. kind \in Kinds
  BY DEF Init, Kinds
<1>2. Bounds
  <2>1. Caps \subseteq -SsizeMax - 1 .. SsizeMax
    BY DEF CapsConvert
  <2>2. Rcaps \subseteq [int : BOOLEAN, n : Int]
    BY IndexAssumption
  <2>3. CASE part = "array"
    <3>1. cap \in Caps
      BY <2>3 DEF Init
    <3>2. rcap \in Rcaps
      BY <2>3 DEF Init
    <3> QED BY <2>1, <2>2, <3>1, <3>2 DEF Bounds
  <2>4. CASE part # "array"
    <3>1. cap = -1
      BY <2>4 DEF Init
    <3>2. rcap = [int |-> FALSE, n |-> 0]
      BY <2>4 DEF Init
    <3> QED BY <3>1, <3>2, IndexAssumption DEF Bounds
  <2> QED BY <2>3, <2>4
<1>3. /\ slots = [e \in Engines |-> <<>>] /\ made = [e \in Engines |-> 0]
      /\ came = [id \in Ids |-> <<>>] /\ latest = <<>>
  BY DEF Init
<1>4. Typed
  BY <1>1, <1>2, <1>3 DEF Typed, ListTyped
<1>5. ASSUME NEW e \in Engines
      PROVE  /\ Apart(slots[e], made[e]) /\ ListReaches(slots[e])
             /\ \A i \in DOMAIN slots[e] : slots[e][i].val = Shown(i - 1)
  <2>1. slots[e] = <<>> /\ DOMAIN slots[e] = {} /\ Len(slots[e]) = 0
    BY <1>3
  <2>2. \A id \in Ids : came[id] = <<>>
    BY <1>3
  <2> QED BY <2>1, <2>2 DEF Apart, ListReaches
<1>6. ListIs
  BY <1>5 DEF ListIs
<1>7. ReasonIsTold
  BY <1>3 DEF ReasonIsTold
<1> QED BY <1>4, <1>6, <1>7 DEF ArrayInv

LEMMA ArrayStep ==
  ASSUME ArrayInv, NEW id \in Ids, NEW val \in 1 .. 2, Arrive(id, val)
  PROVE  ArrayInv'
<1> USE DEF ArrayInv
<1>1. /\ came' = [came EXCEPT ![id] = Append(@, val)] /\ latest' = <<id>>
      /\ kind' = kind /\ cap' = cap /\ rcap' = rcap
      /\ told' = [e \in Engines |-> Bound(e, id)]
  BY DEF Arrive
<1>2. \A e \in Engines : told'[e] = Reason(id) /\ (told'[e] = "" <=> Admitted(id))
  <2>1. \A e \in Engines : Bound(e, id) = Reason(id)
    BY BoundIsReason DEF Typed
  <2> QED BY <1>1, <2>1, ReasonIsNone
<1>3. \A e \in Engines :
        /\ slots'[e] = IF Admitted(id) THEN Stored(Reserved(e, id), id, val) ELSE slots[e]
        /\ made'[e] = IF Admitted(id) /\ kind # "leaf" THEN made[e] + id + 1 ELSE made[e]
  BY <1>2 DEF Arrive
<1>4. slots' = [e \in Engines |-> slots'[e]] /\ made' = [e \in Engines |-> made'[e]]
  BY DEF Arrive
<1>5. id \in Nat
  BY IndexAssumption
<1>6. ASSUME NEW e \in Engines
      PROVE  /\ slots'[e] \in Seq(Slot) /\ made'[e] \in Nat
             /\ kind # "leaf" => Apart(slots'[e], made'[e])
             /\ ListReaches(slots[e])'
             /\ \A i \in DOMAIN slots'[e] : slots'[e][i].val = Shown(i - 1)'
  <2>1. made[e] \in Nat /\ slots[e] \in Seq(Slot) /\ (kind # "leaf" => Apart(slots[e], made[e]))
    BY DEF Typed, ListTyped, ListIs
  <2>2. made'[e] \in Nat
    BY <1>3, <1>5, <2>1
  <2>3. CASE Admitted(id)
    <3>1. PICK s : s = Stored(Reserved(e, id), id, val)
      OBVIOUS
    <3>2. /\ s \in Seq(Slot) /\ (kind # "leaf" => Apart(s, made[e] + id + 1))
          /\ ListReaches(s)' /\ \A i \in DOMAIN s : s[i].val = Shown(i - 1)'
      BY <1>1, <2>3, <3>1, AdmittedArrives, ZenonT(40)
    <3>3. slots'[e] = s /\ (kind # "leaf" => made'[e] = made[e] + id + 1)
      BY <1>3, <2>3, <3>1
    <3>4. ListReaches(slots[e])'
      BY <3>2, <3>3 DEF ListReaches
    <3> QED BY <2>2, <3>2, <3>3, <3>4
  <2>4. CASE ~Admitted(id)
    <3>1. PICK s : s = slots[e]
      OBVIOUS
    <3>2. ListReaches(s)' /\ \A i \in DOMAIN s : s[i].val = Shown(i - 1)'
      BY <1>1, <2>4, <3>1, RefusedArrives
    <3>3. slots'[e] = s /\ made'[e] = made[e]
      BY <1>3, <2>4, <3>1
    <3>4. ListReaches(slots[e])'
      BY <3>2, <3>3 DEF ListReaches
    <3> QED BY <2>1, <3>1, <3>2, <3>3, <3>4
  <2> QED BY <2>3, <2>4
<1>7. Typed'
  <2>1. came' \in [Ids -> Seq(1 .. 2)]
    BY <1>1, OneMoreCame
  <2>2. Bounds' /\ kind' \in Kinds
    BY <1>1 DEF Typed, Bounds
  <2>3. ListTyped'
    BY <1>6 DEF ListTyped
  <2> QED BY <1>4, <2>1, <2>2, <2>3 DEF Typed
<1>8. ListIs'
  BY <1>1, <1>6 DEF ListIs
<1>9. ReasonIsTold'
  <2>1. Reason(id)' = Reason(id)
    BY <1>1 DEF Reason, Admitted
  <2>2. latest'[1] = id
    BY <1>1
  <2> QED BY <1>2, <2>1, <2>2 DEF ReasonIsTold
<1> QED BY <1>7, <1>8, <1>9

LEMMA ArrayInvIs ==
  ASSUME CapsConvert
  PROVE  Spec => []ArrayInv
<1>1. ArrayInv /\ [Next]_vars => ArrayInv'
  <2> SUFFICES ASSUME ArrayInv, [Next]_vars PROVE ArrayInv'
    OBVIOUS
  <2>1. CASE UNCHANGED array
    <3>1. /\ kind' = kind /\ cap' = cap /\ rcap' = rcap /\ slots' = slots /\ made' = made
          /\ told' = told /\ came' = came /\ latest' = latest
      BY <2>1 DEF array
    <3>2. Typed'
      BY <3>1 DEF ArrayInv, Typed, Bounds, ListTyped
    <3>3. ListIs'
      BY <3>1 DEF ArrayInv, ListIs, ListReaches, Admitted, Shown, Vals, Apart
    <3>4. ReasonIsTold'
      BY <3>1 DEF ArrayInv, ReasonIsTold, Reason, Admitted
    <3> QED BY <3>2, <3>3, <3>4 DEF ArrayInv
  <2>2. ASSUME NEW id \in Ids, NEW val \in 1 .. 2, Arrive(id, val) PROVE ArrayInv'
    BY <2>2, ArrayStep
  <2>3. ASSUME NEW c \in Calls, Call(c) PROVE UNCHANGED array
    BY <2>3 DEF Call
  <2>4. ASSUME NEW a \in Arrays, NEW v \in Defaults, Compare(a, v) PROVE UNCHANGED array
    BY <2>4 DEF Compare
  <2>5. CASE UNCHANGED vars
    BY <2>1, <2>5 DEF vars
  <2> QED BY <2>1, <2>2, <2>3, <2>4, <2>5 DEF Next
<1> QED BY <1>1, ArrayInit, PTL DEF Spec

(* ArrayByRule, for any indices of the machine, any bound of the schema    *)
(* that is one and any of the receiver: whatever order the elements of an  *)
(* array arrive in, and however often, both engines hold the list the      *)
(* admitted ones make, and a refused index has changed nothing and is told *)
(* for the reason that applies.                                            *)
THEOREM ArrayIsByRule ==
  ASSUME CapsConvert
  PROVE  Spec => []ArrayByRule
<1>1. ArrayInv => ArrayByRule
  <2> SUFFICES ASSUME ArrayInv, NEW e \in Engines
               PROVE  LET ids == {id \in Ids : Admitted(id) /\ came[id] # <<>>} IN
                      /\ Len(slots[e]) = IF ids = {} THEN 0 ELSE Max(ids) + 1
                      /\ \A i \in DOMAIN slots[e] : slots[e][i].val = Shown(i - 1)
                      /\ kind # "leaf" => IsInjective([i \in DOMAIN slots[e] |-> slots[e][i].obj])
                      /\ latest # <<>> => told[e] = Reason(latest[1])
    BY Zenon DEF ArrayByRule, Shown, Vals
  <2> DEFINE ids == {id \in Ids : Admitted(id) /\ came[id] # <<>>}
             list == slots[e]
  <2>1. /\ list \in Seq(Slot) /\ ListReaches(list)
        /\ \A i \in DOMAIN list : list[i].val = Shown(i - 1)
        /\ kind # "leaf" => Apart(list, made[e])
        /\ latest # <<>> => told[e] = Reason(latest[1])
    BY DEF ArrayInv, Typed, ListTyped, ListIs, ReasonIsTold
  <2>2. Len(list) \in Nat /\ \A x \in Ids : x \in Nat
    BY <2>1, LenProperties, IndexAssumption
  <2> HIDE DEF list
  <2>3. /\ \A x \in ids : x \in Nat /\ x < Len(list)
        /\ Len(list) > 0 => Len(list) - 1 \in ids
    BY <2>1, <2>2 DEF ListReaches
  <2> HIDE DEF ids
  <2>4. Len(list) = IF ids = {} THEN 0 ELSE Max(ids) + 1
    <3>1. CASE ids = {}
      BY <2>2, <2>3, <3>1
    <3>2. CASE ids # {}
      <4>1. Len(list) - 1 \in ids /\ \A y \in ids : Len(list) - 1 >= y
        BY <2>2, <2>3, <3>2
      <4>2. Max(ids) \in ids /\ \A y \in ids : Max(ids) >= y
        BY <4>1 DEF Max
      <4>3. Max(ids) = Len(list) - 1
        BY <2>2, <2>3, <4>1, <4>2
      <4> QED BY <2>2, <3>2, <4>3
    <3> QED BY <3>1, <3>2
  <2>5. kind # "leaf" => IsInjective([i \in DOMAIN list |-> list[i].obj])
    BY <2>1 DEF Apart, IsInjective
  <2> QED BY <2>1, <2>4, <2>5 DEF list, ids
<1> QED BY <1>1, ArrayInvIs, PTL

-----------------------------------------------------------------------------
(* What was accepted: a list of items.                                     *)
Items == [is : {"begin", "end", "field"}, bytes : Seq(Nat)]

LEMMA ItemIs ==
  ASSUME NEW k \in {"begin", "end", "field"}, NEW b \in Seq(Nat)
  PROVE  Item(k, b) \in Items /\ Item(k, b).is = k /\ Item(k, b).bytes = b
BY DEF Item, Items

LEMMA TotalIs ==
  ASSUME NEW a \in Seq(Items)
  PROVE  /\ Total(a) \in Seq(Nat)
         /\ \A x \in Items : Total(Append(a, x)) = Total(a) \o x.bytes
<1>1. PICK bs : bs = [i \in DOMAIN a |-> a[i].bytes]
  OBVIOUS
<1>2. bs \in Seq(Seq(Nat)) /\ Len(bs) = Len(a) /\ \A i \in 1 .. Len(a) : bs[i] = a[i].bytes
  <2>1. \A i \in 1 .. Len(a) : a[i] \in Items
    OBVIOUS
  <2>2. \A i \in 1 .. Len(a) : a[i].bytes \in Seq(Nat)
    BY <2>1 DEF Items
  <2>3. DOMAIN a = 1 .. Len(a) /\ Len(a) \in Nat
    OBVIOUS
  <2>4. bs = [i \in 1 .. Len(a) |-> a[i].bytes]
    BY <1>1, <2>3
  <2> QED BY <2>2, <2>3, <2>4
<1>3. Total(a) = FlattenSeq(bs)
  BY <1>1 DEF Total
<1>4. ASSUME NEW x \in Items PROVE Total(Append(a, x)) = FlattenSeq(bs) \o x.bytes
  <2>1. PICK z, y : z = Append(a, x) /\ y = x.bytes
    OBVIOUS
  <2>2. z \in Seq(Items) /\ Len(z) = Len(a) + 1 /\ (\A i \in 1 .. Len(a) : z[i] = a[i]) /\ z[Len(a) + 1] = x
    BY <2>1
  <2>3. y \in Seq(Nat)
    BY <2>1 DEF Items
  <2>4. PICK ds : ds = [i \in DOMAIN z |-> z[i].bytes]
    OBVIOUS
  <2>5. PICK n \in Nat : n = Len(a)
    OBVIOUS
  <2>6. DOMAIN ds = 1 .. n + 1 /\ (\A i \in 1 .. n : ds[i] = bs[i]) /\ ds[n + 1] = y
    <3>1. DOMAIN z = 1 .. n + 1
      BY <2>2, <2>5
    <3>2. \A i \in 1 .. n + 1 : ds[i] = z[i].bytes
      BY <2>4, <3>1
    <3>3. \A i \in 1 .. n : i \in 1 .. n + 1 /\ z[i] = a[i] /\ bs[i] = a[i].bytes
      BY <1>2, <2>2, <2>5
    <3>4. n + 1 \in 1 .. n + 1 /\ z[n + 1] = x
      BY <2>2, <2>5
    <3> QED BY <2>1, <2>4, <3>1, <3>2, <3>3, <3>4
  <2>7. ds = Append(bs, y)
    <3>1. Len(bs) = n /\ Append(bs, y) \in Seq(Seq(Nat)) /\ Len(Append(bs, y)) = n + 1
          /\ (\A i \in 1 .. n : Append(bs, y)[i] = bs[i]) /\ Append(bs, y)[n + 1] = y
      BY <1>2, <2>3, <2>5
    <3>2. PICK ee : ee = Append(bs, y)
      OBVIOUS
    <3>3. DOMAIN ee = 1 .. n + 1 /\ \A i \in 1 .. n + 1 : ee[i] = ds[i]
      BY <2>5, <2>6, <3>1, <3>2
    <3>4. ee \in Seq(Seq(Nat)) /\ Len(ee) = n + 1
      BY <3>1, <3>2
    <3>5. \A i \in 1 .. n + 1 : ee[i] \in Seq(Nat)
      BY <3>4
    <3>6. ds = [i \in 1 .. n + 1 |-> z[i].bytes] /\ n + 1 \in Nat
      BY <2>2, <2>4, <2>5
    <3>7. ds \in Seq(Seq(Nat)) /\ Len(ds) = n + 1
      BY <3>3, <3>5, <3>6
    <3> QED BY <3>2, <3>3, <3>4, <3>7, SeqEqual
  <2>8. Total(z) = FlattenSeq(ds)
    BY <2>4 DEF Total
  <2>9. FlattenSeq(Append(bs, y)) = FlattenSeq(bs) \o y
    BY <1>2, <2>3, FlatAppend
  <2> QED BY <2>1, <2>7, <2>8, <2>9
<1>5. FlattenSeq(bs) \in Seq(Nat)
  <2>1. <<>> \in Seq(Nat)
    OBVIOUS
  <2> QED BY <1>2, <2>1, FlatAppend
<1> QED BY <1>3, <1>4, <1>5

(* The items of one kind.                                                  *)
Of(a, k) == {i \in DOMAIN a : a[i].is = k}

LEMMA OfAppend ==
  ASSUME NEW a \in Seq(Items), NEW x \in Items, NEW k
  PROVE  /\ Cardinality(Of(a, k)) \in Nat
         /\ x.is = k => Cardinality(Of(Append(a, x), k)) = Cardinality(Of(a, k)) + 1
         /\ x.is # k => Cardinality(Of(Append(a, x), k)) = Cardinality(Of(a, k))
<1>1. PICK n \in Nat : n = Len(a)
  OBVIOUS
<1>2. PICK z, p : z = Append(a, x) /\ p = Of(a, k)
  OBVIOUS
<1>3. DOMAIN a = 1 .. n /\ DOMAIN z = 1 .. n + 1 /\ (\A i \in 1 .. n : z[i] = a[i]) /\ z[n + 1] = x
  BY <1>1, <1>2
<1>4. p \subseteq 1 .. n /\ IsFiniteSet(p) /\ n + 1 \notin p
  <2>1. p \subseteq 1 .. n
    BY <1>2, <1>3 DEF Of
  <2>2. IsFiniteSet(1 .. n)
    BY FS_Interval
  <2>3. p \in SUBSET (1 .. n)
    BY <2>1
  <2>4. IsFiniteSet(p)
    BY <2>2, <2>3, FS_Subset
  <2>5. n + 1 \notin 1 .. n
    OBVIOUS
  <2> QED BY <2>1, <2>4, <2>5
<1>5. x.is = k => Of(z, k) = p \cup {n + 1}
  BY <1>2, <1>3 DEF Of
<1>6. x.is # k => Of(z, k) = p
  BY <1>2, <1>3 DEF Of
<1>7. Cardinality(p) \in Nat
  BY <1>4, FS_CardinalityType
<1>8. Cardinality(p \cup {n + 1}) = Cardinality(p) + 1
  BY <1>4, FS_AddElement
<1> QED BY <1>2, <1>5, <1>6, <1>7, <1>8

LEMMA DepthIs ==
  ASSUME NEW a \in Seq(Items)
  PROVE  /\ Depth(a) \in Int /\ Depth(<<>>) = 0
         /\ \A b \in Seq(Nat) : /\ Depth(Append(a, Item("begin", b))) = Depth(a) + 1
                                /\ Depth(Append(a, Item("end", b))) = Depth(a) - 1
                                /\ Depth(Append(a, Item("field", b))) = Depth(a)
<1>1. \A z : Depth(z) = Cardinality(Of(z, "begin")) - Cardinality(Of(z, "end"))
  BY DEF Depth, Of
<1>2. Depth(<<>>) = 0
  <2>1. Of(<<>>, "begin") = {} /\ Of(<<>>, "end") = {}
    BY DEF Of
  <2>2. Depth(<<>>) = Cardinality({}) - Cardinality({})
    BY <1>1, <2>1
  <2>3. Cardinality({}) = 0
    BY FS_EmptySet
  <2> QED BY <2>2, <2>3
<1>3. ASSUME NEW b \in Seq(Nat), NEW k \in {"begin", "end", "field"}
      PROVE  /\ Depth(a) \in Int
             /\ k = "begin" => Depth(Append(a, Item(k, b))) = Depth(a) + 1
             /\ k = "end" => Depth(Append(a, Item(k, b))) = Depth(a) - 1
             /\ k = "field" => Depth(Append(a, Item(k, b))) = Depth(a)
  <2>1. PICK x : x = Item(k, b)
    OBVIOUS
  <2>2. x \in Items /\ x.is = k
    BY <2>1, ItemIs
  <2>3. PICK m, n, u, v : /\ m = Cardinality(Of(a, "begin")) /\ n = Cardinality(Of(a, "end"))
                          /\ u = Cardinality(Of(Append(a, x), "begin")) /\ v = Cardinality(Of(Append(a, x), "end"))
    OBVIOUS
  <2>4. /\ m \in Nat /\ (k = "begin" => u = m + 1) /\ (k # "begin" => u = m)
    BY <2>2, <2>3, OfAppend
  <2>5. /\ n \in Nat /\ (k = "end" => v = n + 1) /\ (k # "end" => v = n)
    BY <2>2, <2>3, OfAppend
  <2>6. Depth(a) = m - n /\ Depth(Append(a, x)) = u - v
    BY <1>1, <2>3
  <2> QED BY <2>1, <2>4, <2>5, <2>6
<1>4. <<>> \in Seq(Nat)
  OBVIOUS
<1> QED BY <1>2, <1>3, <1>4

(* What the same bytes follow is the same.                                 *)
LEMMA Cancel ==
  ASSUME NEW x \in Seq(Nat), NEW y \in Seq(Nat), NEW b \in Seq(Nat), x \o b = y \o b
  PROVE  x = y
<1>1. PICK m \in Nat, n \in Nat, k \in Nat : m = Len(x) /\ n = Len(y) /\ k = Len(b)
  OBVIOUS
<1>2. Len(x \o b) = m + k /\ Len(y \o b) = n + k
  BY <1>1
<1>3. m = n
  BY <1>2
<1>4. \A i \in 1 .. m : x[i] = y[i]
  <2>1. \A i \in 1 .. m : (x \o b)[i] = x[i] /\ (y \o b)[i] = y[i]
    BY <1>1, <1>3
  <2> QED BY <2>1
<1> QED BY <1>1, <1>3, <1>4, SeqEqual

(* A list is its front and its last.                                       *)
LEMMA FrontLast ==
  ASSUME NEW T, NEW a \in Seq(T), a # <<>>
  PROVE  Front(a) \in Seq(T) /\ Last(a) \in T /\ a = Append(Front(a), Last(a)) /\ Len(Front(a)) = Len(a) - 1
         /\ \A i \in 1 .. Len(a) - 1 : Front(a)[i] = a[i]
<1>1. PICK n \in Nat : n = Len(a) /\ n > 0
  BY EmptySeq
<1>2. PICK f, x : f = Front(a) /\ x = Last(a)
  OBVIOUS
<1>3. f \in Seq(T) /\ Len(f) = n - 1 /\ \A i \in 1 .. n - 1 : f[i] = a[i]
  <2>1. f = SubSeq(a, 1, n - 1)
    BY <1>1, <1>2 DEF Front
  <2> QED BY <1>1, <2>1
<1>4. x \in T /\ x = a[n]
  BY <1>1, <1>2 DEF Last
<1>5. a = Append(f, x)
  <2>1. PICK z : z = Append(f, x)
    OBVIOUS
  <2>2. z \in Seq(T) /\ Len(z) = n /\ (\A i \in 1 .. n - 1 : z[i] = f[i]) /\ z[n] = x
    BY <1>1, <1>3, <1>4, <2>1
  <2>3. \A i \in 1 .. n : z[i] = a[i]
    BY <1>1, <1>3, <1>4, <2>2
  <2> QED BY <1>1, <2>1, <2>2, <2>3
<1> QED BY <1>1, <1>2, <1>3, <1>4, <1>5

-----------------------------------------------------------------------------
(* An encoder and what it accepted: the last items are the headers that it *)
(* holds back, no other sequence was opened last, and the rest is written. *)
Synced(s, a) ==
  /\ a \in Seq(Items) /\ Len(s.pending) <= Len(a)
  /\ \A i \in 1 .. Len(s.pending) : a[Len(a) - Len(s.pending) + i] = Item("begin", Opened(s.pending[i]))
  /\ Len(s.pending) < Len(a) => a[Len(a) - Len(s.pending)].is # "begin"
  /\ s.out \o FlattenSeq(Opens(s.pending)) = Total(a)
  /\ Depth(a) = s.depth

LEMMA SyncedSame ==
  ASSUME NEW s, NEW a, Synced(s, a), NEW t, t.out = s.out, t.pending = s.pending, t.depth = s.depth
  PROVE  Synced(t, a)
BY DEF Synced

LEMMA OpenedIs == \A n \in 0 .. IdMax : Opened(n) \in Seq(Nat)
<1>1. ASSUME NEW n \in 0 .. IdMax PROVE Opened(n) \in Seq(Nat)
  <2>1. 8 * n + 6 \in Nat /\ WireType.start = 6
    BY WordAssumption DEF WireType
  <2> QED BY <2>1, EncodeVarintIs DEF Opened
<1> QED BY <1>1

LEMMA WroteStop == \A s, x, y : IsEncoder(s) => Wrote(s, x, y).stop = y
BY DEF Wrote, IsEncoder

LEMMA FlatNone == FlattenSeq(<<>>) = <<>>
<1>1. PICK ss : ss = <<>>
  OBVIOUS
<1>2. ss \in Seq(Seq(Nat)) /\ 0 \in 0 .. Len(ss) /\ Len(ss) = 0
  BY <1>1
<1>3. Upto(ss, 0) = <<>> /\ Upto(ss, Len(ss)) = FlattenSeq(ss)
  BY <1>2, UptoIs
<1> QED BY <1>1, <1>2, <1>3

LEMMA NoneOpen == \A x \in Seq(Nat) : x \o FlattenSeq(Opens(<<>>)) = x
<1>1. Opens(<<>>) = <<>>
  BY DEF Opens
<1> QED BY <1>1, FlatNone

(* Something to be written: it goes out behind the headers, or does not    *)
(* fit.                                                                    *)
LEMMA SyncedWrites ==
  ASSUME NEW s, IsEncoder(s), NEW a, Synced(s, a), NEW k \in {"field", "end"}, NEW b \in Seq(Nat)
  PROVE  /\ Append(a, Item(k, b)) \in Seq(Items) /\ Total(Append(a, Item(k, b))) \in Seq(Nat)
         /\ Len(Total(Append(a, Item(k, b)))) <= s.room =>
              /\ Written(s, "none", b).stop = "none"
              /\ Written(s, "none", b).out = Total(Append(a, Item(k, b)))
         /\ Len(Total(Append(a, Item(k, b)))) > s.room => Written(s, "none", b).stop = "buffer"
<1>1. PICK z, run, x, y, o : /\ z = Emptied(Halted(s, "none")) /\ run = FlattenSeq(Opens(s.pending)) /\ x = run \o b
                             /\ y = Total(Append(a, Item(k, b))) /\ o = s.out
  OBVIOUS
<1>2. run \in Seq(Nat) /\ x \in Seq(Nat) /\ o \in Seq(Nat) /\ b \in Seq(Nat)
  <2>1. run \in Seq(Nat) /\ o \in Seq(Nat)
    BY <1>1, RunIs, EncoderIs
  <2> QED BY <1>1, <2>1
<1>3. IsEncoder(z) /\ z.stop = "none" /\ z.out = o /\ z.room = s.room
  <2>1. PICK h : h = Halted(s, "none")
    OBVIOUS
  <2>2. "none" \in Stops
    BY DEF Stops
  <2>3. IsEncoder(h) /\ h.out = o /\ h.room = s.room /\ h.stop = "none"
    BY <1>1, <2>1, <2>2, HaltedIs
  <2> QED BY <1>1, <2>1, <2>3, EmptiedIs
<1>4. Written(s, "none", b) = Put(z, x)
  BY <1>1 DEF Written
<1>5. y = o \o x /\ Append(a, Item(k, b)) \in Seq(Items)
  <2>1. PICK i : i = Item(k, b)
    OBVIOUS
  <2>2. i \in Items /\ i.bytes = b
    BY <2>1, ItemIs
  <2>3. a \in Seq(Items) /\ o \o run = Total(a)
    BY <1>1 DEF Synced
  <2>4. y = (o \o run) \o b
    BY <1>1, <2>1, <2>2, <2>3, TotalIs
  <2>5. (o \o run) \o b = o \o (run \o b)
    BY <1>2, Associative
  <2> QED BY <1>1, <2>1, <2>2, <2>3, <2>4, <2>5
<1>6. y \in Seq(Nat) /\ Len(y) = Len(o) + Len(x) /\ Len(o) \in Nat /\ Len(x) \in Nat /\ s.room \in Nat
  BY <1>2, <1>5, Joined, EncoderIs
<1>7. CASE Len(y) <= s.room
  <2>1. Put(z, x) = Wrote(z, o \o x, "none")
    BY <1>2, <1>3, <1>6, <1>7, PutIs
  <2>2. o \o x \in Seq(Nat) /\ Len(o \o x) <= z.room /\ "none" \in Stops
    BY <1>3, <1>5, <1>6, <1>7 DEF Stops
  <2>3. Wrote(z, o \o x, "none").out = o \o x /\ Wrote(z, o \o x, "none").stop = "none"
    <3>1. PICK d, v : d = o \o x /\ v = "none"
      OBVIOUS
    <3>2. d \in Seq(Nat) /\ Len(d) <= z.room /\ v \in Stops
      BY <2>2, <3>1
    <3>3. Wrote(z, d, v).out = d /\ Wrote(z, d, v).stop = v
      BY <1>3, <3>2, WroteIs
    <3> QED BY <3>1, <3>3
  <2>4. Written(s, "none", b).stop = "none" /\ Written(s, "none", b).out = y
    BY <1>4, <1>5, <2>1, <2>3
  <2>5. ~(Len(y) > s.room)
    BY <1>6, <1>7
  <2> QED BY <1>1, <1>5, <1>6, <2>4, <2>5
<1>8. CASE Len(y) > s.room
  <2>1. PICK m : m = SubSeq(x, 1, z.room - Len(z.out))
    OBVIOUS
  <2>2. Put(z, x) = Wrote(z, z.out \o m, "buffer")
    BY <1>2, <1>3, <1>6, <1>8, <2>1, PutIs
  <2>3. Wrote(z, z.out \o m, "buffer").stop = "buffer"
    BY <1>3, WroteStop
  <2>4. Written(s, "none", b).stop = "buffer"
    BY <1>4, <2>2, <2>3
  <2>5. ~(Len(y) <= s.room)
    BY <1>6, <1>8
  <2> QED BY <1>1, <1>5, <1>6, <2>4, <2>5
<1> QED BY <1>1, <1>5, <1>6, <1>7, <1>8

LEMMA SyncedBare ==
  ASSUME NEW u, NEW z \in Seq(Items), u.pending = <<>>, u.out = Total(z), Total(z) \in Seq(Nat),
         Depth(z) = u.depth, Len(z) > 0, z[Len(z)].is # "begin"
  PROVE  Synced(u, z)
<1>1. PICK p, n : p = u.pending /\ n = Len(z) /\ n \in Nat
  OBVIOUS
<1>2. Len(p) = 0 /\ 1 .. Len(p) = {} /\ n - 0 = n
  BY <1>1
<1>3. u.out \o FlattenSeq(Opens(p)) = Total(z)
  BY <1>1, NoneOpen
<1>4. z[n - Len(p)].is # "begin"
  BY <1>1, <1>2
<1> QED BY <1>1, <1>2, <1>3, <1>4 DEF Synced

(* A field behind what was accepted.                                       *)
LEMMA SyncedField ==
  ASSUME NEW s, IsEncoder(s), NEW a, Synced(s, a), NEW b \in Seq(Nat),
         Len(Total(Append(a, Item("field", b)))) <= s.room
  PROVE  Synced(Written(s, "none", b), Append(a, Item("field", b)))
<1>1. PICK t, x : t = Written(s, "none", b) /\ x = Item("field", b)
  OBVIOUS
<1>2. PICK z : z = Append(a, x)
  OBVIOUS
<1>3. t.out = Total(z) /\ z \in Seq(Items) /\ Total(z) \in Seq(Nat)
  BY <1>1, <1>2, SyncedWrites
<1>4. t.pending = <<>> /\ t.depth = s.depth
  BY <1>1, WrittenFields
<1>5. a \in Seq(Items) /\ Depth(a) = s.depth
  BY DEF Synced
<1>6. Depth(z) = Depth(a)
  BY <1>1, <1>2, <1>5, DepthIs
<1>7. Len(z) \in Nat /\ Len(z) = Len(a) + 1 /\ z[Len(z)] = x /\ x.is = "field"
  BY <1>1, <1>2, <1>5, ItemIs
<1>8. Len(z) > 0 /\ z[Len(z)].is # "begin"
  BY <1>5, <1>7
<1> QED BY <1>1, <1>2, <1>3, <1>4, <1>5, <1>6, <1>8, SyncedBare

(* An end that is written.                                                 *)
LEMMA SyncedEnd ==
  ASSUME NEW s, IsEncoder(s), NEW a, Synced(s, a), NEW b \in Seq(Nat), s.depth > 0,
         Len(Total(Append(a, Item("end", b)))) <= s.room
  PROVE  Synced(Risen(Written(s, "none", b)), Append(a, Item("end", b)))
<1>1. PICK t, x, u : t = Written(s, "none", b) /\ x = Item("end", b) /\ u = Risen(t)
  OBVIOUS
<1>2. PICK z : z = Append(a, x)
  OBVIOUS
<1>3. t.out = Total(z) /\ z \in Seq(Items) /\ Total(z) \in Seq(Nat)
  BY <1>1, <1>2, SyncedWrites
<1>4. t.pending = <<>> /\ t.depth = s.depth /\ IsEncoder(t)
  <2>1. "none" \in Stops
    BY DEF Stops
  <2> QED BY <1>1, <2>1, WrittenFields, WrittenIs
<1>5. a \in Seq(Items) /\ Depth(a) = s.depth
  BY DEF Synced
<1>6. Depth(z) = Depth(a) - 1
  BY <1>1, <1>2, <1>5, DepthIs
<1>7. Len(z) \in Nat /\ Len(z) = Len(a) + 1 /\ z[Len(z)] = x /\ x.is = "end"
  BY <1>1, <1>2, <1>5, ItemIs
<1>8. u.pending = <<>> /\ u.depth = s.depth - 1 /\ u.out = t.out
  BY <1>1, <1>4, RisenIs
<1>9. Len(z) > 0 /\ z[Len(z)].is # "begin"
  BY <1>5, <1>7
<1>10. u.out = Total(z) /\ Depth(z) = u.depth
  BY <1>3, <1>5, <1>6, <1>8
<1> QED BY <1>1, <1>2, <1>3, <1>8, <1>9, <1>10, SyncedBare

LEMMA OpensAppend ==
  ASSUME NEW p \in Seq(0 .. IdMax), NEW n \in 0 .. IdMax
  PROVE  /\ FlattenSeq(Opens(p)) \in Seq(Nat)
         /\ FlattenSeq(Opens(Append(p, n))) = FlattenSeq(Opens(p)) \o Opened(n)
<1>1. PICK m, q, x, y : m = Len(p) /\ q = Append(p, n) /\ x = Opens(p) /\ y = Opens(q)
  OBVIOUS
<1>2. m \in Nat /\ q \in Seq(0 .. IdMax) /\ Len(q) = m + 1 /\ (\A i \in 1 .. m : q[i] = p[i]) /\ q[m + 1] = n
  BY <1>1
<1>3. x \in Seq(Seq(Nat)) /\ Len(x) = m /\ \A i \in 1 .. m : x[i] = Opened(p[i])
  <2>1. x \in Seq(Seq(Nat)) /\ Len(x) = Len(p)
    BY <1>1, OpensIs
  <2>2. \A i \in 1 .. Len(p) : x[i] = EncodeVarint[8 * p[i] + WireType.start]
    BY <1>1, OpensIs
  <2> QED BY <1>1, <2>1, <2>2 DEF Opened
<1>4. y \in Seq(Seq(Nat)) /\ Len(y) = m + 1 /\ \A i \in 1 .. m + 1 : y[i] = Opened(q[i])
  <2>1. y \in Seq(Seq(Nat)) /\ Len(y) = Len(q)
    BY <1>1, <1>2, OpensIs
  <2>2. \A i \in 1 .. Len(q) : y[i] = EncodeVarint[8 * q[i] + WireType.start]
    BY <1>1, <1>2, OpensIs
  <2> QED BY <1>2, <2>1, <2>2 DEF Opened
<1>5. Opened(n) \in Seq(Nat)
  BY OpenedIs
<1>6. y = Append(x, Opened(n))
  <2>1. PICK z, o : z = Append(x, o) /\ o = Opened(n)
    OBVIOUS
  <2>2. z \in Seq(Seq(Nat)) /\ Len(z) = m + 1 /\ (\A i \in 1 .. m : z[i] = x[i]) /\ z[m + 1] = o
    BY <1>2, <1>3, <1>5, <2>1
  <2>3. \A i \in 1 .. m + 1 : z[i] = y[i]
    <3>1. \A i \in 1 .. m : z[i] = Opened(q[i])
      BY <1>2, <1>3, <2>2
    <3>2. z[m + 1] = Opened(q[m + 1])
      BY <1>2, <2>1, <2>2
    <3>3. \A i \in 1 .. m + 1 : i \in 1 .. m \/ i = m + 1
      BY <1>2
    <3> QED BY <1>4, <3>1, <3>2, <3>3
  <2> QED BY <1>4, <2>1, <2>2, <2>3, SeqEqual
<1> QED BY <1>1, <1>3, <1>5, <1>6, FlatAppend

LEMMA SyncedBy ==
  ASSUME NEW u, NEW z \in Seq(Items), NEW q, NEW j \in Nat, NEW k \in Nat,
         u.pending = q, j = Len(q), k = Len(z), j <= k,
         \A i \in 1 .. j : z[k - j + i] = Item("begin", Opened(q[i])),
         j < k => z[k - j].is # "begin", u.out \o FlattenSeq(Opens(q)) = Total(z), Depth(z) = u.depth
  PROVE  Synced(u, z)
BY DEF Synced

(* A sequence opened is held back.                                         *)
LEMMA SyncedBegin ==
  ASSUME NEW s, IsEncoder(s), NEW a, Synced(s, a), NEW n \in 0 .. IdMax, NEW t,
         t.out = s.out, t.pending = Append(s.pending, n), t.depth = s.depth + 1
  PROVE  Synced(t, Append(a, Item("begin", Opened(n))))
<1>1. PICK p, q, x, z, l, m : /\ p = s.pending /\ q = Append(p, n) /\ x = Item("begin", Opened(n))
                              /\ z = Append(a, x) /\ l = Len(a) /\ m = Len(p)
  OBVIOUS
<1>2. /\ p \in Seq(0 .. IdMax) /\ a \in Seq(Items) /\ s.out \in Seq(Nat) /\ Opened(n) \in Seq(Nat)
      /\ l \in Nat /\ m \in Nat /\ m <= l
  <2>1. p \in Seq(0 .. IdMax) /\ s.out \in Seq(Nat) /\ a \in Seq(Items) /\ m <= l
    BY <1>1, EncoderIs DEF Synced
  <2> QED BY <1>1, <2>1, OpenedIs
<1>3. x \in Items /\ x.is = "begin" /\ x.bytes = Opened(n)
  BY <1>1, <1>2, ItemIs
<1>4. /\ z \in Seq(Items) /\ Len(z) = l + 1 /\ (\A i \in 1 .. l : z[i] = a[i]) /\ z[l + 1] = x
      /\ q \in Seq(0 .. IdMax) /\ Len(q) = m + 1 /\ (\A i \in 1 .. m : q[i] = p[i]) /\ q[m + 1] = n
  BY <1>1, <1>2, <1>3
<1>5. \A i \in 1 .. m + 1 : z[(l + 1) - (m + 1) + i] = Item("begin", Opened(q[i]))
  <2>1. ASSUME NEW i \in 1 .. m + 1 PROVE z[(l + 1) - (m + 1) + i] = Item("begin", Opened(q[i]))
    <3>1. CASE i = m + 1
      <4>1. (l + 1) - (m + 1) + i = l + 1
        BY <1>2, <3>1
      <4> QED BY <1>1, <1>4, <3>1, <4>1
    <3>2. CASE i # m + 1
      <4>1. i \in 1 .. m /\ (l + 1) - (m + 1) + i = l - m + i /\ l - m + i \in 1 .. l
        BY <1>2, <3>2
      <4>2. a[l - m + i] = Item("begin", Opened(p[i]))
        BY <1>1, <4>1 DEF Synced
      <4> QED BY <1>4, <4>1, <4>2
    <3> QED BY <3>1, <3>2
  <2> QED BY <2>1
<1>6. m + 1 < l + 1 => z[(l + 1) - (m + 1)].is # "begin"
  <2>1. ASSUME m + 1 < l + 1 PROVE z[(l + 1) - (m + 1)].is # "begin"
    <3>1. (l + 1) - (m + 1) = l - m /\ l - m \in 1 .. l /\ m < l
      BY <1>2, <2>1
    <3>2. a[l - m].is # "begin"
      BY <1>1, <3>1 DEF Synced
    <3> QED BY <1>4, <3>1, <3>2
  <2> QED BY <2>1
<1>7. s.out \o FlattenSeq(Opens(q)) = Total(z)
  <2>1. PICK f, o, g : f = FlattenSeq(Opens(p)) /\ o = Opened(n) /\ g = s.out
    OBVIOUS
  <2>2. FlattenSeq(Opens(q)) = f \o o /\ f \in Seq(Nat)
    BY <1>1, <1>2, <2>1, OpensAppend
  <2>3. Total(z) = Total(a) \o o
    BY <1>1, <1>2, <1>3, <2>1, TotalIs
  <2>4. Total(a) = g \o f
    BY <1>1, <2>1 DEF Synced
  <2>5. (g \o f) \o o = g \o (f \o o)
    BY <1>2, <2>1, <2>2, Associative
  <2> QED BY <2>1, <2>2, <2>3, <2>4, <2>5
<1>8. Depth(z) = s.depth + 1
  BY <1>1, <1>2, DepthIs DEF Synced
<1>9. t.pending = q /\ t.out = s.out /\ t.depth = s.depth + 1
  BY <1>1
<1>10. PICK j, k : j = m + 1 /\ k = l + 1
  OBVIOUS
<1>11. j \in Nat /\ k \in Nat /\ j = Len(q) /\ k = Len(z) /\ j <= k
  BY <1>2, <1>4, <1>10
<1>12. (\A i \in 1 .. j : z[k - j + i] = Item("begin", Opened(q[i]))) /\ (j < k => z[k - j].is # "begin")
  BY <1>5, <1>6, <1>10
<1>13. Synced(t, z)
  BY <1>4, <1>7, <1>8, <1>9, <1>11, <1>12, SyncedBy, ZenonT(40)
<1> QED BY <1>1, <1>13

(* The sequence that was opened last is the one held back last.            *)
LEMMA SyncedLast ==
  ASSUME NEW s, IsEncoder(s), NEW a, Synced(s, a), a # <<>>
  PROVE  /\ (Last(a).is = "begin") = (s.pending # <<>>)
         /\ s.pending # <<>> => Last(a) = Item("begin", Opened(Last(s.pending)))
<1>1. PICK p, l, m : p = s.pending /\ l = Len(a) /\ m = Len(p)
  OBVIOUS
<1>2. p \in Seq(0 .. IdMax) /\ a \in Seq(Items) /\ l \in Nat /\ m \in Nat /\ m <= l /\ l > 0
  <2>1. p \in Seq(0 .. IdMax) /\ a \in Seq(Items) /\ m <= l
    BY <1>1, EncoderIs DEF Synced
  <2>2. l \in Nat /\ m \in Nat
    BY <1>1, <2>1
  <2>3. l # 0
    BY <1>1, <2>1, EmptySeq
  <2> QED BY <2>1, <2>2, <2>3
<1>3. CASE p = <<>>
  <2>1. m = 0 /\ l - m = l /\ m < l
    BY <1>1, <1>2, <1>3
  <2>2. a[l - m].is # "begin"
    BY <1>1, <2>1 DEF Synced
  <2> QED BY <1>1, <1>3, <2>1, <2>2 DEF Last
<1>4. CASE p # <<>>
  <2>1. m # 0
    BY <1>1, <1>2, <1>4, EmptySeq
  <2>2. m \in 1 .. m /\ l - m + m = l
    BY <1>2, <2>1
  <2>3. a[l - m + m] = Item("begin", Opened(p[m]))
    BY <1>1, <2>2 DEF Synced
  <2>4. Last(a) = Item("begin", Opened(Last(p)))
    BY <1>1, <2>2, <2>3 DEF Last
  <2>5. Last(a).is = "begin"
    BY <2>4 DEF Item
  <2> QED BY <1>1, <1>4, <2>4, <2>5
<1> QED BY <1>3, <1>4

(* A sequence held back and closed leaves no trace.                        *)
LEMMA SyncedDrop ==
  ASSUME NEW s, IsEncoder(s), NEW a, Synced(s, a), s.pending # <<>>, s.depth > 0, NEW t,
         t.out = s.out, t.pending = Front(s.pending), t.depth = s.depth - 1
  PROVE  Synced(t, Front(a))
<1>1. PICK p, l, m, q, z : p = s.pending /\ l = Len(a) /\ m = Len(p) /\ q = Front(p) /\ z = Front(a)
  OBVIOUS
<1>2. p \in Seq(0 .. IdMax) /\ a \in Seq(Items) /\ l \in Nat /\ m \in Nat /\ m <= l /\ m > 0 /\ s.out \in Seq(Nat)
      /\ s.depth \in Nat
  <2>1. p \in Seq(0 .. IdMax) /\ a \in Seq(Items) /\ m <= l /\ s.out \in Seq(Nat) /\ s.depth \in Nat
    BY <1>1, EncoderIs DEF Synced
  <2>2. l \in Nat /\ m \in Nat
    BY <1>1, <2>1
  <2>3. m # 0
    BY <1>1, <2>1, EmptySeq
  <2> QED BY <2>1, <2>2, <2>3
<1>3. a # <<>>
  BY <1>1, <1>2
<1>4. PICK x, n : x = Last(a) /\ n = Last(p)
  OBVIOUS
<1>5. z \in Seq(Items) /\ x \in Items /\ a = Append(z, x) /\ Len(z) = l - 1 /\ \A i \in 1 .. l - 1 : z[i] = a[i]
  BY <1>1, <1>2, <1>3, <1>4, FrontLast
<1>6. /\ q \in Seq(0 .. IdMax) /\ n \in 0 .. IdMax /\ p = Append(q, n) /\ Len(q) = m - 1
      /\ \A i \in 1 .. m - 1 : q[i] = p[i]
  <2>1. p # <<>>
    BY <1>1
  <2> QED BY <1>1, <1>2, <1>4, <2>1, FrontLast
<1>7. x = Item("begin", Opened(n)) /\ Opened(n) \in Seq(Nat)
  BY <1>1, <1>3, <1>4, <1>6, SyncedLast, OpenedIs
<1>8. \A i \in 1 .. m - 1 : z[(l - 1) - (m - 1) + i] = Item("begin", Opened(q[i]))
  <2>1. ASSUME NEW i \in 1 .. m - 1 PROVE z[(l - 1) - (m - 1) + i] = Item("begin", Opened(q[i]))
    <3>1. i \in 1 .. m /\ (l - 1) - (m - 1) + i = l - m + i /\ l - m + i \in 1 .. l - 1
      BY <1>2
    <3>2. a[l - m + i] = Item("begin", Opened(p[i]))
      BY <1>1, <3>1 DEF Synced
    <3> QED BY <1>5, <1>6, <3>1, <3>2
  <2> QED BY <2>1
<1>9. m - 1 < l - 1 => z[(l - 1) - (m - 1)].is # "begin"
  <2>1. ASSUME m - 1 < l - 1 PROVE z[(l - 1) - (m - 1)].is # "begin"
    <3>1. (l - 1) - (m - 1) = l - m /\ l - m \in 1 .. l - 1 /\ m < l
      BY <1>2, <2>1
    <3>2. a[l - m].is # "begin"
      BY <1>1, <3>1 DEF Synced
    <3> QED BY <1>5, <3>1, <3>2
  <2> QED BY <2>1
<1>10. s.out \o FlattenSeq(Opens(q)) = Total(z)
  <2>1. PICK f, o, g : f = FlattenSeq(Opens(q)) /\ o = Opened(n) /\ g = s.out
    OBVIOUS
  <2>2. FlattenSeq(Opens(p)) = f \o o /\ f \in Seq(Nat)
    BY <1>6, <2>1, OpensAppend
  <2>3. Total(a) = Total(z) \o o /\ Total(z) \in Seq(Nat)
    <3>1. x.bytes = o
      BY <1>7, <2>1, ItemIs
    <3> QED BY <1>5, <3>1, TotalIs
  <2>4. Total(a) = g \o (f \o o)
    BY <1>1, <2>1, <2>2 DEF Synced
  <2>5. (g \o f) \o o = g \o (f \o o) /\ g \o f \in Seq(Nat) /\ o \in Seq(Nat)
    <3>1. g \in Seq(Nat) /\ f \in Seq(Nat) /\ o \in Seq(Nat)
      BY <1>2, <1>7, <2>1, <2>2
    <3> QED BY <3>1, Associative, Joined, SMTT(40)
  <2>6. PICK v, w : v = g \o f /\ w = Total(z)
    OBVIOUS
  <2>7. v = w
    <3>1. v \in Seq(Nat) /\ w \in Seq(Nat) /\ o \in Seq(Nat) /\ v \o o = w \o o
      BY <2>3, <2>4, <2>5, <2>6
    <3> QED BY <3>1, Cancel
  <2> QED BY <2>1, <2>6, <2>7
<1>11. Depth(z) = s.depth - 1
  <2>1. Depth(a) = s.depth /\ Depth(a) = Depth(z) + 1 /\ Depth(z) \in Int
    BY <1>5, <1>7, DepthIs DEF Synced
  <2> QED BY <1>2, <2>1
<1>12. t.pending = q /\ t.out = s.out /\ t.depth = s.depth - 1
  BY <1>1
<1>14. PICK j, k : j = m - 1 /\ k = l - 1
  OBVIOUS
<1>15. j \in Nat /\ k \in Nat /\ j = Len(q) /\ k = Len(z) /\ j <= k
  BY <1>2, <1>5, <1>6, <1>14
<1>16. (\A i \in 1 .. j : z[k - j + i] = Item("begin", Opened(q[i]))) /\ (j < k => z[k - j].is # "begin")
  BY <1>8, <1>9, <1>14
<1>17. Synced(t, z)
  BY <1>5, <1>10, <1>11, <1>12, <1>15, <1>16, SyncedBy, ZenonT(40)
<1> QED BY <1>1, <1>17

-----------------------------------------------------------------------------
(* A call, as what one encoder makes of it.                                *)
Twins(s) == enc["pure"] = s /\ enc["native"] = s /\ IsEncoder(s)
SenderInv ==
  /\ \E s : Twins(s) /\ (~broken => Synced(s, eager))
  /\ broken \in BOOLEAN /\ RefusalIsTold

(* Every call, as the encoders of both engines see it.                     *)
LEMMA CallRuns ==
  ASSUME CountsConvert, NEW s, Twins(s), NEW c \in Calls, Call(c)
  PROVE  \E w \in Stops : \E t :
    /\ Twins(Fail(t))' /\ IsEncoder(t) /\ IsCall(c)
    /\ Plain(c) => /\ Tells(s, HeaderFits(c), w) /\ (w = "none" => FieldBytes(c) \in Seq(Nat))
                   /\ t = Written(s, w, FieldBytes(c))
    /\ Partial(c) => /\ Tells(s, HeaderFits(c), w)
                     /\ w = "none" => t.stop \in {"argument", "buffer"}
                     /\ w # "none" => t = Halted(s, w)
    /\ c.op = "begin" => /\ Tells(s, Named(c.id) /\ s.depth < MaxDepth, w)
                         /\ t = Began(s, w, c.id.n)
    /\ c.op = "end" => /\ Tells(s, s.depth > 0, w) /\ t = Closes(s, w, c.keep)
<1>1. IsCall(c) /\ IsEncoder(s) /\ (c.op = "floatsBits" => Converts(c.count))
  BY SenderAssumption DEF Twins, CountsConvert
<1>2. PICK w, t :
    /\ w \in Stops
    /\ Ends(s, PureWrite(c), NativeWrite(c), t)
    /\ Plain(c) => /\ Tells(s, HeaderFits(c), w) /\ (w = "none" => FieldBytes(c) \in Seq(Nat))
                   /\ t = Written(s, w, FieldBytes(c))
    /\ Partial(c) => /\ Tells(s, HeaderFits(c), w)
                     /\ w = "none" => t.stop \in {"argument", "buffer"}
                     /\ w # "none" => t = Halted(s, w)
    /\ c.op = "begin" => /\ Tells(s, Named(c.id) /\ s.depth < MaxDepth, w)
                         /\ t = Began(s, w, c.id.n)
    /\ c.op = "end" => /\ Tells(s, s.depth > 0, w) /\ t = Closes(s, w, c.keep)
  BY <1>1, CallEnds
<1>3. Run("pure", s, PureWrite(c)) = Fail(t) /\ Run("native", s, NativeWrite(c)) = Fail(t) /\ IsEncoder(t)
  <2>1. PICK p, q : p = PureWrite(c) /\ q = NativeWrite(c)
    OBVIOUS
  <2>2. Ends(s, p, q, t)
    BY <1>2, <2>1
  <2>3. Run("pure", s, p) = Fail(t) /\ Run("native", s, q) = Fail(t)
    BY <1>1, <2>2, RunEnds
  <2> QED BY <2>1, <2>2, <2>3 DEF Ends
<1>4. enc' = [e \in Engines |-> Run(e, enc[e], IF e = "pure" THEN PureWrite(c) ELSE NativeWrite(c))]
  BY DEF Call
<1>5. enc'["pure"] = Fail(t) /\ enc'["native"] = Fail(t)
  <2>1. "pure" \in Engines /\ "native" \in Engines /\ "native" # "pure"
    BY DEF Engines
  <2>2. /\ enc'["pure"] = Run("pure", enc["pure"], PureWrite(c))
        /\ enc'["native"] = Run("native", enc["native"], NativeWrite(c))
    BY <1>4, <2>1
  <2> QED BY <1>3, <2>2 DEF Twins
<1>6. IsEncoder(Fail(t))
  BY <1>3, FailIs
<1>7. Twins(Fail(t))'
  BY <1>5, <1>6 DEF Twins
<1> QED BY <1>1, <1>2, <1>3, <1>7

(* A refusal that writes nothing.                                          *)
LEMMA RefusedHalts ==
  ASSUME NEW s, IsEncoder(s), NEW w \in Stops, w # "none", w = "skip" => Held(s)
  PROVE  /\ Fail(Halted(s, w)).stop \notin {"none", "skip"} \/ Fail(Halted(s, w)).error # "none"
         /\ \A a : Synced(s, a) => Synced(Fail(Halted(s, w)), a)
         /\ w = "skip" => Fail(Halted(s, w)).stop = "skip"
<1>1. PICK t, u : t = Halted(s, w) /\ u = Fail(t)
  OBVIOUS
<1>2. /\ IsEncoder(t) /\ t.stop = w /\ t.out = s.out /\ t.pending = s.pending /\ t.depth = s.depth
      /\ t.error = s.error /\ t.sticky = s.sticky
  BY <1>1, HaltedIs
<1>3. /\ u.out = t.out /\ u.pending = t.pending /\ u.depth = t.depth
      /\ ~(t.sticky /\ t.stop \in {"argument", "buffer"}) => u = t
      /\ t.sticky /\ t.stop \in {"argument", "buffer"} => u.error # "none"
  BY <1>1, <1>2, FailIs
<1>4. \A a : Synced(s, a) => Synced(u, a)
  BY <1>2, <1>3, SyncedSame
<1>5. u.stop \notin {"none", "skip"} \/ u.error # "none"
  <2>1. CASE w = "skip"
    BY <1>2, <1>3, <2>1 DEF Held
  <2>2. CASE w # "skip"
    BY <1>2, <1>3, <2>2
  <2> QED BY <2>1, <2>2
<1>6. w = "skip" => u.stop = "skip"
  BY <1>2, <1>3
<1> QED BY <1>1, <1>4, <1>5, <1>6

(* What the next state holds, said of one encoder.                         *)
LEMMA SenderNext ==
  ASSUME NEW u, Twins(u)', (~broken => Synced(u, eager))', broken' \in BOOLEAN,
         accepted' = "yes" => u.stop \in {"none", "skip"},
         accepted' = "no" => u.stop \notin {"none", "skip"} \/ u.error # "none"
  PROVE  SenderInv'
<1>1. \A e \in Engines : enc'[e] = u
  BY DEF Twins, Engines
<1>2. RefusalIsTold'
  BY <1>1 DEF RefusalIsTold
<1> QED BY <1>2 DEF SenderInv

(* What a call is granted on, before anything is written.                  *)
Granted(s, c) ==
  /\ c.op = "begin" => Named(c.id) /\ s.depth < MaxDepth
  /\ c.op = "end" => s.depth > 0
  /\ c.op \notin {"begin", "end"} => HeaderFits(c)

LEMMA GrantedIs ==
  ASSUME NEW s, IsEncoder(s), Synced(s, eager), NEW c, IsCall(c)
  PROVE  /\ Permitted(c) <=> Granted(s, c) /\ ~Partial(c)
         /\ BreaksOff(c) => Granted(s, c)
<1>1. Depth(eager) = s.depth
  BY DEF Synced
<1>2. CASE c.op = "begin"
  <2>1. Permitted(c) = (IdFits(c) /\ Depth(eager) < MaxDepth)
    BY <1>2, Zenon DEF Permitted
  <2>2. IdFits(c) = Named(c.id)
    BY DEF IdFits, Named
  <2>3. ~Partial(c)
    BY <1>2 DEF Partial
  <2> QED BY <1>1, <1>2, <2>1, <2>2, <2>3 DEF Granted, BreaksOff
<1>3. CASE c.op = "end"
  <2>1. Permitted(c) = (Depth(eager) > 0)
    BY <1>3, Zenon DEF Permitted
  <2>2. ~Partial(c)
    BY <1>3 DEF Partial
  <2> QED BY <1>1, <1>3, <2>1, <2>2 DEF Granted, BreaksOff
<1>4. CASE c.op # "begin" /\ c.op # "end"
  <2>1. Permitted(c) = Fits(c)
    BY <1>4, Zenon DEF Permitted
  <2>2. Fits(c) <=> HeaderFits(c) /\ ~Partial(c)
    BY DEF Fits, Partial, AllFit
  <2> QED BY <1>4, <2>1, <2>2 DEF Granted, BreaksOff
<1> QED BY <1>2, <1>3, <1>4

(* Whether the call was granted, and whether it was written.               *)
LEMMA Outcome ==
  ASSUME CountsConvert, NEW s, Twins(s), NEW c \in Calls, Call(c)
  PROVE  \E w \in Stops : \E t :
    /\ Twins(Fail(t))' /\ IsEncoder(t) /\ IsCall(c)
    /\ Tells(s, Granted(s, c), w) /\ (w # "none" => t = Halted(s, w))
    /\ Plain(c) /\ w = "none" => FieldBytes(c) \in Seq(Nat) /\ t = Written(s, "none", FieldBytes(c))
    /\ Partial(c) /\ w = "none" => t.stop \in {"argument", "buffer"}
    /\ c.op = "begin" /\ w = "none" => t = Push(Halted(s, "none"), c.id.n)
    /\ c.op = "end" /\ w = "none" => t = Closes(s, "none", c.keep)
<1>1. PICK w, t :
    /\ w \in Stops
    /\ Twins(Fail(t))' /\ IsEncoder(t) /\ IsCall(c)
    /\ Plain(c) => /\ Tells(s, HeaderFits(c), w) /\ (w = "none" => FieldBytes(c) \in Seq(Nat))
                   /\ t = Written(s, w, FieldBytes(c))
    /\ Partial(c) => /\ Tells(s, HeaderFits(c), w)
                     /\ w = "none" => t.stop \in {"argument", "buffer"}
                     /\ w # "none" => t = Halted(s, w)
    /\ c.op = "begin" => /\ Tells(s, Named(c.id) /\ s.depth < MaxDepth, w)
                         /\ t = Began(s, w, c.id.n)
    /\ c.op = "end" => /\ Tells(s, s.depth > 0, w) /\ t = Closes(s, w, c.keep)
  BY CallRuns
<1>2. Plain(c) \/ Partial(c) \/ c.op = "begin" \/ c.op = "end"
  BY DEF Plain, Partial
<1>3. /\ Tells(s, Granted(s, c), w) /\ (w # "none" => t = Halted(s, w))
  <2>1. CASE Plain(c) \/ Partial(c)
    <3>1. Granted(s, c) <=> HeaderFits(c)
      BY <2>1 DEF Granted, Plain, Partial
    <3>2. Tells(s, HeaderFits(c), w) /\ (w # "none" => t = Halted(s, w))
      BY <1>1, <2>1 DEF Written
    <3> QED BY <3>1, <3>2 DEF Tells
  <2>2. CASE c.op = "begin"
    <3>1. Granted(s, c) <=> Named(c.id) /\ s.depth < MaxDepth
      BY <2>2 DEF Granted
    <3>2. Tells(s, Named(c.id) /\ s.depth < MaxDepth, w) /\ (w # "none" => t = Halted(s, w))
      BY <1>1, <2>2 DEF Began
    <3> QED BY <3>1, <3>2 DEF Tells
  <2>3. CASE c.op = "end"
    <3>1. Granted(s, c) <=> s.depth > 0
      BY <2>3 DEF Granted
    <3>2. Tells(s, s.depth > 0, w) /\ (w # "none" => t = Halted(s, w))
      BY <1>1, <2>3 DEF Closes
    <3> QED BY <3>1, <3>2 DEF Tells
  <2> QED BY <1>2, <2>1, <2>2, <2>3
<1>4. c.op = "begin" /\ w = "none" => t = Push(Halted(s, "none"), c.id.n)
  BY <1>1 DEF Began
<1> QED BY <1>1, <1>3, <1>4

(* The call is refused before it writes, or the error latched keeps it     *)
(* from writing.                                                           *)
LEMMA SenderRefused ==
  ASSUME NEW s, Twins(s), ~broken, Synced(s, eager), SenderInv, NEW c \in Calls, Call(c),
         NEW w \in Stops, w # "none", Twins(Fail(Halted(s, w)))', Tells(s, Granted(s, c), w), IsCall(c)
  PROVE  SenderInv'
<1>1. IsEncoder(s) /\ (Latched <=> Held(s))
  BY DEF Twins, Latched, Held, IsEncoder
<1>2. PICK u : u = Fail(Halted(s, w))
  OBVIOUS
<1>3. /\ u.stop \notin {"none", "skip"} \/ u.error # "none"
      /\ Synced(u, eager) /\ (w = "skip" => u.stop = "skip")
  BY <1>1, <1>2, RefusedHalts DEF Tells
<1>4. /\ Permitted(c) => Granted(s, c)
      /\ BreaksOff(c) => Granted(s, c)
  BY <1>1, GrantedIs
<1>5. (Granted(s, c) => w = "skip" /\ Held(s)) /\ (~Granted(s, c) => w # "skip" \/ Held(s))
  BY DEF Tells
<1>6. /\ accepted' = IF Permitted(c) /\ ~BreaksOff(c) THEN "yes" ELSE "no"
      /\ eager' = IF accepted' = "yes" /\ ~Latched THEN Extended(c) ELSE eager
      /\ broken' = (broken \/ (~Latched /\ BreaksOff(c)))
  BY DEF Call
<1>7. accepted' = "yes" => Granted(s, c)
  BY <1>4, <1>6
<1>8. eager' = eager /\ broken' = FALSE
  <2>1. eager' = eager
    BY <1>1, <1>5, <1>6, <1>7
  <2>2. ~(~Latched /\ BreaksOff(c))
    BY <1>1, <1>4, <1>5
  <2> QED BY <1>6, <2>1, <2>2
<1>9. (~broken => Synced(u, eager))'
  BY <1>3, <1>8 DEF Synced
<1>10. accepted' = "yes" => u.stop \in {"none", "skip"}
  BY <1>3, <1>5, <1>7
<1>11. Twins(u)'
  BY <1>2
<1> QED BY <1>3, <1>8, <1>9, <1>10, <1>11, SenderNext

(* A field that broke off: the call stopped in the middle.                 *)
LEMMA SenderBreaks ==
  ASSUME NEW t, IsEncoder(t), Twins(Fail(t))', t.stop \in {"argument", "buffer"},
         broken' = TRUE, accepted' = "no"
  PROVE  SenderInv'
<1>1. PICK u : u = Fail(t)
  OBVIOUS
<1>2. u.stop \notin {"none", "skip"} \/ u.error # "none"
  <2>1. /\ ~(t.sticky /\ t.stop \in {"argument", "buffer"}) => u = t
        /\ t.sticky /\ t.stop \in {"argument", "buffer"} => u.error # "none"
    BY <1>1, FailIs
  <2>2. "argument" \notin {"none", "skip"} /\ "buffer" \notin {"none", "skip"}
    OBVIOUS
  <2> QED BY <2>1, <2>2
<1>3. Twins(u)'
  BY <1>1
<1> QED BY <1>2, <1>3, SenderNext

(* A call that went through.                                               *)
LEMMA SenderWent ==
  ASSUME NEW t, IsEncoder(t), Twins(Fail(t))', t.stop = "none",
         broken' = FALSE, accepted' = "yes", Synced(t, eager')
  PROVE  SenderInv'
<1>1. PICK u : u = Fail(t)
  OBVIOUS
<1>2. u = t
  BY <1>1, FailIs
<1>3. Twins(u)' /\ (~broken => Synced(u, eager))'
  BY <1>1, <1>2 DEF Synced
<1> QED BY <1>2, <1>3, SenderNext

LEMMA FieldGoes ==
  ASSUME NEW s, Twins(s), ~broken, ~Latched, Synced(s, eager), NEW c \in Calls, Call(c), IsCall(c),
         Plain(c), Granted(s, c), NEW t, IsEncoder(t), Twins(Fail(t))', FieldBytes(c) \in Seq(Nat),
         t = Written(s, "none", FieldBytes(c))
  PROVE  SenderInv'
<1>1. PICK b, z : b = FieldBytes(c) /\ z = Append(eager, Item("field", b))
  OBVIOUS
<1>2. IsEncoder(s) /\ enc["pure"] = s /\ c.op # "begin" /\ c.op # "end" /\ ~Partial(c)
  BY DEF Twins, Plain, Partial
<1>3. Permitted(c)
  BY <1>2, GrantedIs
<1>4. Extended(c) = z
  BY <1>1, <1>2, Zenon DEF Extended
<1>5. BreaksOff(c) <=> Len(Total(z)) > s.room
  <2>1. ~(c.op = "array" /\ HeaderFits(c) /\ ~Fits(c))
    BY <1>2 DEF Fits, Partial, AllFit
  <2>2. ~Dropped(c)
    BY <1>2 DEF Dropped
  <2> QED BY <1>2, <1>3, <1>4, <2>1, <2>2 DEF BreaksOff
<1>6. /\ accepted' = IF Permitted(c) /\ ~BreaksOff(c) THEN "yes" ELSE "no"
      /\ eager' = IF accepted' = "yes" /\ ~Latched THEN Extended(c) ELSE eager
      /\ broken' = (broken \/ (~Latched /\ BreaksOff(c)))
  BY DEF Call
<1>7. PICK k, r : k = Len(Total(z)) /\ r = s.room
  OBVIOUS
<1>8. /\ z \in Seq(Items) /\ k \in Nat /\ r \in Nat
      /\ k <= r => t.stop = "none"
      /\ k > r => t.stop = "buffer"
  <2>1. /\ z \in Seq(Items) /\ Total(z) \in Seq(Nat)
        /\ k <= r => t.stop = "none"
        /\ k > r => t.stop = "buffer"
    BY <1>1, <1>2, <1>7, SyncedWrites
  <2> QED BY <1>2, <1>7, <2>1, EncoderIs
<1>9. CASE k <= r
  <2>1. ~BreaksOff(c)
    BY <1>5, <1>7, <1>8, <1>9
  <2>2. accepted' = "yes" /\ eager' = z /\ broken' = FALSE /\ t.stop = "none"
    BY <1>3, <1>4, <1>6, <1>8, <1>9, <2>1
  <2>3. Synced(t, z)
    BY <1>1, <1>2, <1>7, <1>9, SyncedField
  <2> QED BY <2>2, <2>3, SenderWent
<1>10. CASE k > r
  <2>1. BreaksOff(c)
    BY <1>5, <1>7, <1>10
  <2>2. accepted' = "no" /\ broken' = TRUE /\ t.stop \in {"argument", "buffer"}
    BY <1>6, <1>8, <1>10, <2>1
  <2> QED BY <2>2, SenderBreaks
<1> QED BY <1>8, <1>9, <1>10

LEMMA BeginGoes ==
  ASSUME NEW s, Twins(s), ~broken, ~Latched, Synced(s, eager), NEW c \in Calls, Call(c), IsCall(c),
         c.op = "begin", Granted(s, c), NEW t, IsEncoder(t), Twins(Fail(t))',
         t = Push(Halted(s, "none"), c.id.n)
  PROVE  SenderInv'
<1>1. PICK n, z, h : n = c.id.n /\ z = Append(eager, Item("begin", Opened(n))) /\ h = Halted(s, "none")
  OBVIOUS
<1>2. IsEncoder(s) /\ enc["pure"] = s /\ ~Partial(c)
  BY DEF Twins, Partial
<1>3. Permitted(c) /\ n \in 0 .. IdMax
  BY <1>1, <1>2, GrantedIs DEF Granted, Named
<1>4. Extended(c) = z
  BY <1>1, Zenon DEF Extended
<1>5. ~BreaksOff(c)
  BY DEF BreaksOff
<1>6. accepted' = "yes" /\ eager' = z /\ broken' = FALSE
  BY <1>3, <1>4, <1>5 DEF Call
<1>7. IsEncoder(h) /\ h.stop = "none" /\ h.out = s.out /\ h.pending = s.pending /\ h.depth = s.depth
  <2>1. "none" \in Stops
    BY DEF Stops
  <2> QED BY <1>1, <1>2, <2>1, HaltedIs
<1>8. t.stop = "none" /\ t.out = s.out /\ t.pending = Append(s.pending, n) /\ t.depth = s.depth + 1
  <2>1. t = Push(h, n)
    BY <1>1
  <2> QED BY <1>3, <1>7, <2>1, PushIs
<1>9. Synced(t, z)
  BY <1>1, <1>2, <1>3, <1>8, SyncedBegin
<1> QED BY <1>6, <1>8, <1>9, SenderWent

LEMMA EndGoes ==
  ASSUME NEW s, Twins(s), ~broken, ~Latched, Synced(s, eager), NEW c \in Calls, Call(c), IsCall(c),
         c.op = "end", Granted(s, c), NEW t, IsEncoder(t), Twins(Fail(t))', t = Closes(s, "none", c.keep)
  PROVE  SenderInv'
<1>1. PICK b, z, keep : b = EncodeVarint[7] /\ z = Append(eager, Item("end", b)) /\ keep = c.keep
  OBVIOUS
<1>2. IsEncoder(s) /\ enc["pure"] = s /\ ~Partial(c) /\ keep \in BOOLEAN /\ b \in Seq(Nat) /\ Ended = b
  BY <1>1, SevenFits DEF Twins, Partial, IsCall, Ended
<1>3. Permitted(c) /\ s.depth > 0 /\ s.depth \in Nat
  BY <1>2, GrantedIs, EncoderIs DEF Granted
<1>4. eager # <<>> /\ eager \in Seq(Items)
  <2>1. eager \in Seq(Items) /\ Depth(eager) = s.depth
    BY DEF Synced
  <2>2. Depth(<<>>) = 0
    BY <2>1, DepthIs
  <2> QED BY <1>3, <2>1, <2>2
<1>5. Dropped(c) <=> s.pending # <<>> /\ ~keep
  <2>1. (Last(eager).is = "begin") = (s.pending # <<>>)
    BY <1>2, <1>4, SyncedLast
  <2> QED BY <1>1, <2>1 DEF Dropped
<1>6. Extended(c) = IF Dropped(c) THEN Front(eager) ELSE z
  BY <1>1, <1>2, Zenon DEF Extended
<1>7. BreaksOff(c) <=> ~Dropped(c) /\ Len(Total(Extended(c))) > s.room
  BY <1>2, <1>3 DEF BreaksOff
<1>8. /\ accepted' = IF Permitted(c) /\ ~BreaksOff(c) THEN "yes" ELSE "no"
      /\ eager' = IF accepted' = "yes" /\ ~Latched THEN Extended(c) ELSE eager
      /\ broken' = (broken \/ (~Latched /\ BreaksOff(c)))
  BY DEF Call
<1>9. CASE s.pending # <<>> /\ ~keep
  <2>1. accepted' = "yes" /\ eager' = Front(eager) /\ broken' = FALSE
    BY <1>3, <1>5, <1>6, <1>7, <1>8, <1>9
  <2>2. PICK h : h = Halted(s, "none")
    OBVIOUS
  <2>3. /\ IsEncoder(h) /\ h.stop = "none" /\ h.out = s.out /\ h.pending = s.pending /\ h.depth = s.depth
    <3>1. "none" \in Stops
      BY DEF Stops
    <3> QED BY <1>2, <2>2, <3>1, HaltedIs
  <2>4. t = Shrunk(h)
    BY <1>1, <1>9, <2>2 DEF Closes
  <2>5. t.stop = "none" /\ t.out = s.out /\ t.pending = Front(s.pending) /\ t.depth = s.depth - 1
    BY <1>3, <1>9, <2>3, <2>4, ShrunkIs
  <2>6. Synced(t, Front(eager))
    BY <1>2, <1>3, <1>9, <2>5, SyncedDrop
  <2> QED BY <2>1, <2>5, <2>6, SenderWent
<1>10. CASE ~(s.pending # <<>> /\ ~keep)
  <2>1. ~Dropped(c) /\ Extended(c) = z
    BY <1>5, <1>6, <1>10
  <2>2. PICK y, k, r : y = Written(s, "none", b) /\ k = Len(Total(z)) /\ r = s.room
    OBVIOUS
  <2>3. t = IF y.stop = "none" THEN Risen(y) ELSE y
    BY <1>1, <1>10, <2>2 DEF Closes
  <2>4. /\ z \in Seq(Items) /\ k \in Nat /\ r \in Nat
        /\ k <= r => y.stop = "none"
        /\ k > r => y.stop = "buffer"
    <3>1. /\ z \in Seq(Items) /\ Total(z) \in Seq(Nat)
          /\ k <= r => y.stop = "none"
          /\ k > r => y.stop = "buffer"
      BY <1>1, <1>2, <2>2, SyncedWrites
    <3> QED BY <1>2, <2>2, <3>1, EncoderIs
  <2>5. CASE k <= r
    <3>1. ~BreaksOff(c)
      BY <1>7, <2>1, <2>2, <2>4, <2>5
    <3>2. accepted' = "yes" /\ eager' = z /\ broken' = FALSE /\ y.stop = "none"
      BY <1>3, <1>8, <2>1, <2>4, <2>5, <3>1
    <3>3. Synced(Risen(y), z)
      BY <1>1, <1>2, <1>3, <2>2, <2>5, SyncedEnd
    <3>4. IsEncoder(y) /\ y.depth = s.depth
      <4>1. "none" \in Stops
        BY DEF Stops
      <4> QED BY <1>2, <2>2, <4>1, WrittenIs, WrittenFields
    <3>5. t = Risen(y) /\ t.stop = "none"
      BY <1>3, <2>3, <3>2, <3>4, RisenIs
    <3> QED BY <3>2, <3>3, <3>5, SenderWent
  <2>6. CASE k > r
    <3>1. BreaksOff(c)
      BY <1>7, <2>1, <2>2, <2>6
    <3>2. accepted' = "no" /\ broken' = TRUE /\ t.stop \in {"argument", "buffer"}
      BY <1>8, <2>3, <2>4, <2>6, <3>1
    <3> QED BY <3>2, SenderBreaks
  <2> QED BY <2>4, <2>5, <2>6
<1> QED BY <1>9, <1>10

(* A call preserves the invariant.                                         *)
LEMMA SenderCall ==
  ASSUME CountsConvert, SenderInv, NEW c \in Calls, Call(c)
  PROVE  SenderInv'
<1>1. PICK s : Twins(s) /\ (~broken => Synced(s, eager)) /\ broken \in BOOLEAN
  BY DEF SenderInv
<1>2. PICK w, t :
    /\ w \in Stops
    /\ Twins(Fail(t))' /\ IsEncoder(t) /\ IsCall(c)
    /\ Tells(s, Granted(s, c), w) /\ (w # "none" => t = Halted(s, w))
    /\ Plain(c) /\ w = "none" => FieldBytes(c) \in Seq(Nat) /\ t = Written(s, "none", FieldBytes(c))
    /\ Partial(c) /\ w = "none" => t.stop \in {"argument", "buffer"}
    /\ c.op = "begin" /\ w = "none" => t = Push(Halted(s, "none"), c.id.n)
    /\ c.op = "end" /\ w = "none" => t = Closes(s, "none", c.keep)
  BY <1>1, Outcome
<1>3. CASE broken
  <2>1. accepted' = "unsure" /\ broken' = TRUE
    BY <1>1, <1>3 DEF Call
  <2>2. PICK u : u = Fail(t)
    OBVIOUS
  <2>3. Twins(u)' /\ (~broken => Synced(u, eager))'
    BY <1>2, <2>1, <2>2
  <2> QED BY <2>1, <2>3, SenderNext
<1>4. CASE ~broken /\ w # "none"
  <2>1. Twins(Fail(Halted(s, w)))'
    BY <1>2, <1>4
  <2> QED BY <1>1, <1>2, <1>4, <2>1, SenderRefused
<1>5. CASE ~broken /\ w = "none"
  <2>1. Granted(s, c) /\ ~Held(s)
    BY <1>2, <1>5 DEF Tells
  <2>2. IsEncoder(s) /\ ~Latched /\ Synced(s, eager)
    BY <1>1, <1>5, <2>1 DEF Twins, Latched, Held, IsEncoder
  <2>3. CASE Plain(c)
    BY <1>1, <1>2, <1>5, <2>1, <2>2, <2>3, FieldGoes
  <2>4. CASE c.op = "begin"
    BY <1>1, <1>2, <1>5, <2>1, <2>2, <2>4, BeginGoes
  <2>5. CASE c.op = "end"
    BY <1>1, <1>2, <1>5, <2>1, <2>2, <2>5, EndGoes
  <2>6. CASE Partial(c)
    <3>1. HeaderFits(c) /\ c.op = "array" /\ ~Fits(c)
      BY <2>1, <2>6 DEF Granted, Partial, Fits, AllFit
    <3>2. BreaksOff(c)
      BY <3>1 DEF BreaksOff
    <3>3. accepted' = "no" /\ broken' = TRUE
      BY <1>5, <2>2, <3>2 DEF Call
    <3> QED BY <1>2, <1>5, <2>6, <3>3, SenderBreaks
  <2>7. Plain(c) \/ Partial(c) \/ c.op = "begin" \/ c.op = "end"
    BY DEF Plain, Partial
  <2> QED BY <2>3, <2>4, <2>5, <2>6, <2>7
<1> QED BY <1>1, <1>3, <1>4, <1>5

(* The encoders start alike, empty, with nothing accepted.                 *)
LEMMA SenderInit == Init => SenderInv
<1> SUFFICES ASSUME Init PROVE SenderInv
  OBVIOUS
<1>1. PICK sticky \in BOOLEAN, room \in Nat : enc = [e \in Engines |-> Fresh(sticky, room)]
  <2>1. CASE part = "sender"
    BY <2>1, SenderAssumption DEF Init
  <2>2. CASE part # "sender"
    BY <2>2 DEF Init
  <2> QED BY <2>1, <2>2
<1>2. PICK s : s = Fresh(sticky, room)
  OBVIOUS
<1>3. /\ s \in [out : Seq(Nat), pending : Seq(0 .. IdMax), depth : Nat, error : Errors, stop : Stops,
                sticky : BOOLEAN, room : Nat]
      /\ s.out = <<>> /\ s.pending = <<>> /\ s.depth = 0 /\ s.error = "none" /\ s.stop = "none" /\ s.room = room
  <2>1. <<>> \in Seq(Nat) /\ <<>> \in Seq(0 .. IdMax) /\ 0 \in Nat /\ "none" \in Errors /\ "none" \in Stops
    BY DEF Errors, Stops
  <2> QED BY <1>2, <2>1 DEF Fresh
<1>4. IsEncoder(s)
  <2>1. Len(s.out) = 0 /\ 0 <= s.room
    BY <1>3
  <2> QED BY <1>3, <2>1 DEF IsEncoder
<1>5. Twins(s)
  BY <1>1, <1>2, <1>4 DEF Twins, Engines
<1>6. Synced(s, eager)
  <2>1. PICK a, p : a = eager /\ p = s.pending
    OBVIOUS
  <2>2. a = <<>> /\ p = <<>> /\ a \in Seq(Items) /\ Len(a) = 0 /\ Len(p) = 0
    <3>1. a = <<>> /\ p = <<>>
      BY <1>3, <2>1 DEF Init
    <3>2. \A z : z = <<>> => z \in Seq(Items) /\ Len(z) = 0
      OBVIOUS
    <3> QED BY <3>1, <3>2
  <2>3. Depth(a) = 0
    BY <2>2, DepthIs
  <2>4. Total(a) = <<>>
    <3>1. [i \in DOMAIN a |-> a[i].bytes] = <<>>
      BY <2>2
    <3> QED BY <3>1, FlatNone DEF Total
  <2>5. s.out \o FlattenSeq(Opens(p)) = Total(a)
    <3>1. <<>> \in Seq(Nat)
      OBVIOUS
    <3> QED BY <1>3, <2>2, <2>4, <3>1, NoneOpen
  <2>6. PICK j : j = 0
    OBVIOUS
  <2>7. j \in Nat /\ j = Len(a) /\ j = Len(p) /\ j <= j /\ ~(j < j)
        /\ \A i \in 1 .. j : a[j - j + i] = Item("begin", Opened(p[i]))
    BY <2>2, <2>6
  <2>8. s.pending = p /\ Depth(a) = s.depth
    BY <1>3, <2>1, <2>3
  <2>9. Synced(s, a)
    BY <2>2, <2>5, <2>7, <2>8, SyncedBy
  <2> QED BY <2>1, <2>9
<1>7. broken = FALSE /\ accepted = "yes"
  BY DEF Init
<1>8. RefusalIsTold
  BY <1>3, <1>5, <1>7 DEF RefusalIsTold, Twins, Engines
<1> QED BY <1>5, <1>6, <1>7, <1>8 DEF SenderInv

(* The invariant of the senders.                                           *)
LEMMA SenderInvIs ==
  ASSUME CountsConvert
  PROVE  Spec => []SenderInv
<1>1. SenderInv /\ [Next]_vars => SenderInv'
  <2> SUFFICES ASSUME SenderInv, [Next]_vars PROVE SenderInv'
    OBVIOUS
  <2>1. ASSUME NEW c \in Calls, Call(c) PROVE SenderInv'
    BY <2>1, SenderCall
  <2>2. ASSUME UNCHANGED sender PROVE SenderInv'
    <3>1. enc' = enc /\ eager' = eager /\ broken' = broken /\ accepted' = accepted
      BY <2>2 DEF sender
    <3> QED BY <3>1 DEF SenderInv, Twins, RefusalIsTold
  <2>3. ASSUME NEW id \in Ids, NEW val \in 1 .. 2, Arrive(id, val) PROVE SenderInv'
    BY <2>2, <2>3 DEF Arrive
  <2>4. ASSUME NEW a \in Arrays, NEW v \in Defaults, Compare(a, v) PROVE SenderInv'
    BY <2>2, <2>4 DEF Compare
  <2>5. CASE UNCHANGED vars
    BY <2>2, <2>5 DEF vars
  <2> QED BY <2>1, <2>3, <2>4, <2>5 DEF Next
<1> QED BY <1>1, SenderInit, PTL DEF Spec

(* The bytes, the headers held back, the error and the reason are the same *)
(* in both engines, whatever the calls, the order and the room, as long as *)
(* a count is a length of the machine.                                     *)
THEOREM TwinsWriteAlike ==
  ASSUME CountsConvert
  PROVE  Spec => []EnginesWriteAlike
<1>1. SenderInv => EnginesWriteAlike
  BY DEF SenderInv, Twins, EnginesWriteAlike
<1> QED BY <1>1, SenderInvIs, PTL

(* What a writer emitted, and the headers it still holds back, are the     *)
(* items it accepted, in order, until a field broke off in the middle;     *)
(* under the same condition.                                               *)
THEOREM WireIsAccepted ==
  ASSUME CountsConvert
  PROVE  Spec => []WireIsWhatWasAccepted
<1>1. SenderInv => WireIsWhatWasAccepted
  <2> SUFFICES ASSUME SenderInv, ~broken, NEW e \in Engines
               PROVE  enc[e].out \o FlattenSeq([i \in DOMAIN enc[e].pending |-> Opened(enc[e].pending[i])])
                        = Total(eager)
    BY DEF WireIsWhatWasAccepted
  <2>1. PICK s : Twins(s) /\ Synced(s, eager)
    BY DEF SenderInv
  <2>2. enc[e] = s
    BY <2>1 DEF Twins, Engines
  <2>3. s.out \o FlattenSeq(Opens(s.pending)) = Total(eager)
    BY <2>1 DEF Synced
  <2> QED BY <2>2, <2>3 DEF Opens
<1> QED BY <1>1, SenderInvIs, PTL

(* A refusal is never silent, and a call that was accepted is not refused: *)
(* an exception, or the error a sticky encoder latches, tells them apart;  *)
(* under the same condition.                                               *)
THEOREM RefusalAlwaysTold ==
  ASSUME CountsConvert
  PROVE  Spec => []RefusalIsTold
<1>1. SenderInv => RefusalIsTold
  BY DEF SenderInv
<1> QED BY <1>1, SenderInvIs, PTL
=============================================================================
