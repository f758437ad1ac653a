------------------------ MODULE ValueDelivery_proofs ------------------------
(***************************************************************************)
(* The value reads of both engines, by the rule: for every width, every    *)
(* field, answer and cap, however the bytes are cut, each read ends as the *)
(* receiver's answers call for, stores what was sent and hands it over     *)
(* once, and the native engine does what the pure one does.                *)
(***************************************************************************)
EXTENDS ValueDelivery, Functions, FiniteSetTheorems, SequenceTheorems, WellFoundedInduction, TLAPS

-----------------------------------------------------------------------------
(* Powers of two, by the subsets of an interval.                           *)

Upto(n) == SUBSET (1 .. n)

LEMMA PowerCounts ==
  ASSUME NEW n \in Nat
  PROVE  /\ IsFiniteSet(Upto(n)) /\ Cardinality(Upto(n)) = 2^n
         /\ 2^n \in Nat /\ 2^n >= 1
<1>1. IsFiniteSet(1 .. n) /\ Cardinality(1 .. n) = n
  <2>1. 1 \in Int /\ n \in Int
    OBVIOUS
  <2> QED BY <2>1, FS_Interval
<1>2. IsFiniteSet(Upto(n)) /\ Cardinality(Upto(n)) = 2^n
  BY <1>1, FS_SUBSET DEF Upto
<1>3. Cardinality(Upto(n)) \in Nat
  BY <1>2, FS_CardinalityType
<1>4. Cardinality(Upto(n)) # 0
  <2>1. {} \in Upto(n)
    BY DEF Upto
  <2> QED BY <1>2, <2>1, FS_EmptySet
<1> QED BY <1>2, <1>3, <1>4

(* A wider word holds no less.                                             *)
LEMMA PowerGrows ==
  ASSUME NEW m \in Nat, NEW n \in Nat, m <= n
  PROVE  2^m <= 2^n
<1>1. Upto(m) \in SUBSET Upto(n)
  BY DEF Upto
<1> QED BY <1>1, PowerCounts, FS_Subset

(* One bit more, twice as much.                                            *)
LEMMA PowerDoubles ==
  ASSUME NEW n \in Nat \ {0}
  PROVE  2^n = 2 * 2^(n - 1)
<1> DEFINE T == {X \in Upto(n) : n \in X}
           m == n - 1
           f == [X \in Upto(m) |-> X \cup {n}]
<1>0. m \in Nat /\ Upto(n) = Upto(m) \cup T /\ Upto(m) \cap T = {}
  BY DEF Upto
<1>1. f \in Bijection(Upto(m), T)
  <2>1. \A X \in Upto(m) : f[X] \in T
    BY DEF Upto
  <2>2. \A X, Y \in Upto(m) : f[X] = f[Y] => X = Y
    <3> TAKE X, Y \in Upto(m)
    <3>1. n \notin X /\ n \notin Y
      BY DEF Upto
    <3> QED BY <3>1
  <2>3. \A Z \in T : \E X \in Upto(m) : f[X] = Z
    <3> TAKE Z \in T
    <3>1. Z \ {n} \in Upto(m)
      BY DEF Upto
    <3>2. (Z \ {n}) \cup {n} = Z
      OBVIOUS
    <3> QED BY <3>1, <3>2
  <2> HIDE DEF T
  <2> QED BY <2>1, <2>2, <2>3 DEF Bijection, Injection, Surjection, IsInjective
<1>2. ExistsBijection(Upto(m), T)
  BY <1>1 DEF ExistsBijection
<1> HIDE DEF m, T
<1>3. IsFiniteSet(Upto(m)) /\ Cardinality(Upto(m)) = 2^m /\ 2^m \in Nat
  BY <1>0, PowerCounts
<1>4. IsFiniteSet(T) /\ Cardinality(T) = 2^m
  BY <1>2, <1>3, FS_Bijection
<1>5. Cardinality(Upto(n)) = 2^m + 2^m - 0
  BY <1>0, <1>3, <1>4, FS_Union, FS_EmptySet
<1>6. Cardinality(Upto(n)) = 2^n
  BY PowerCounts
<1> QED BY <1>3, <1>5, <1>6 DEF m

(* The words of the machine.                                               *)
LEMMA Widths ==
  /\ Bits \in Nat \ {0} /\ Bits - 1 \in Nat
  /\ 2^Bits \in Nat /\ 2^(Bits - 1) \in Nat /\ 2^(Bits - 1) >= 1
  /\ 2^Bits = 2 * 2^(Bits - 1)
  /\ UnsignedMax \in Nat /\ SignedMax \in Nat /\ SignedMin \in Int
<1>1. Bits \in Nat \ {0} /\ Bits - 1 \in Nat
  BY WidthsAssumption
<1>2. 2^(Bits - 1) \in Nat /\ 2^(Bits - 1) >= 1
  BY <1>1, PowerCounts
<1>3. 2^Bits = 2 * 2^(Bits - 1)
  BY <1>1, PowerDoubles
<1> HIDE DEF UnsignedMax
<1> DEFINE M == 2^Bits
           H == 2^(Bits - 1)
<1>4. M \in Nat /\ H \in Nat /\ H >= 1 /\ M = 2 * H
  BY <1>2, <1>3
<1>5. UnsignedMax = M - 1 /\ SignedMax = H - 1 /\ SignedMin = -H
  BY DEF UnsignedMax, SignedMax, SignedMin
<1> HIDE DEF M, H
<1>6. UnsignedMax \in Nat /\ SignedMax \in Nat /\ SignedMin \in Int
  BY <1>4, <1>5
<1> QED BY <1>1, <1>2, <1>3, <1>4, <1>6 DEF M

(* An item of a destination holds two halves, and a narrower one less.     *)
LEMMA ItemWidths ==
  ASSUME NEW b \in Items \cup {Bits}
  PROVE  /\ b \in 1 .. Bits /\ 2^b \in Nat /\ 2^(b - 1) \in Nat /\ 2^(b - 1) >= 1
         /\ 2^b = 2 * 2^(b - 1)
         /\ b # Bits => 2^b <= 2^(Bits - 1)
<1>1. b \in 1 .. Bits /\ b \in Nat \ {0} /\ b - 1 \in Nat /\ Bits - 1 \in Nat /\ Bits \in Nat
  BY WidthsAssumption
<1>2. 2^b \in Nat /\ 2^(b - 1) \in Nat /\ 2^(b - 1) >= 1
  BY <1>1, PowerCounts
<1>3. 2^b = 2 * 2^(b - 1)
  BY <1>1, PowerDoubles
<1>4. ASSUME b # Bits PROVE 2^b <= 2^(Bits - 1)
  <2>1. b <= Bits - 1
    BY <1>1, <1>4
  <2> QED BY <1>1, <2>1, PowerGrows
<1> QED BY <1>1, <1>2, <1>3, <1>4

(* What a word's bits come to when they are cut to fewer.                  *)
LEMMA CutAbove ==
  ASSUME NEW M \in Nat \ {0}, NEW v \in 0 .. M - 1
  PROVE  v % M = v
OBVIOUS

LEMMA CutBelow ==
  ASSUME NEW M \in Nat \ {0}, NEW v \in Int, -M <= v, v < 0
  PROVE  v % M = v + M
OBVIOUS

(* A number and its zigzag code.                                           *)
LEMMA Zigzag ==
  ASSUME NEW raw \in Nat
  PROVE  /\ Unzigzag(raw) \in Int
         /\ \A k \in Nat : raw < 2 * k => -k <= Unzigzag(raw) /\ Unzigzag(raw) < k
BY DEF Unzigzag

(* A value that fits its item comes back out of it.                        *)
LEMMA ItemKeeps ==
  ASSUME NEW b \in Items \cup {Bits}, NEW zigzag \in BOOLEAN, NEW v \in Int,
         IF zigzag THEN -(2^(b - 1)) <= v /\ v < 2^(b - 1) ELSE 0 <= v /\ v < 2^b
  PROVE  Native!Item(v, b, zigzag) = v
<1> DEFINE M == 2^b
           H == 2^(b - 1)
<1>1. M \in Nat /\ H \in Nat /\ H >= 1 /\ M = 2 * H
  BY ItemWidths
<1>2. Native!Item(v, b, zigzag) = IF zigzag /\ v % M >= H THEN (v % M) - M ELSE v % M
  BY DEF Native!Item
<1>3. IF zigzag THEN -H <= v /\ v < H ELSE 0 <= v /\ v < M
  OBVIOUS
<1> HIDE DEF M, H
<1>4. CASE v >= 0
  <2>1. v % M = v
    BY <1>1, <1>3, <1>4, CutAbove
  <2> QED BY <1>1, <1>2, <1>3, <1>4, <2>1
<1>5. CASE v < 0
  <2>1. v % M = v + M
    <3>1. M \in Nat \ {0} /\ -M <= v
      BY <1>1, <1>3, <1>5
    <3> QED BY <3>1, <1>5, CutBelow
  <2> QED BY <1>1, <1>2, <1>3, <1>5, <2>1
<1> QED BY <1>4, <1>5

-----------------------------------------------------------------------------
(* A loop over elements.                                                   *)

(* A set of numbers has a least one.                                       *)
LEMMA LeastOf ==
  ASSUME NEW S, S \subseteq Nat, S # {}
  PROVE  \E n \in S : \A m \in S : n <= m
<1>1. IsWellFoundedOn(OpToRel(<, Nat), Nat)
  BY NatLessThanWellFounded
<1>2. PICK n \in S : \A m \in S : <<m, n>> \notin OpToRel(<, Nat)
  BY <1>1, WFMin, Zenon
<1>3. \A m \in S : ~(m < n)
  BY <1>2 DEF OpToRel
<1> QED BY <1>3


(* Where a loop stops, and what it has by then.                            *)
Stop(f, a, bad) ==
  LET stops == bad \cup (a + 1 .. N(f))
  IN IF stops = {} THEN N(f) + 1 ELSE CHOOSE i \in stops : \A j \in stops : i <= j

LEMMA Stops ==
  ASSUME NEW f \in Fields, NEW a \in Nat, NEW bad, bad \subseteq 1 .. N(f)
  PROVE  /\ N(f) \in Nat /\ Stop(f, a, bad) \in 1 .. N(f) + 1
         /\ \A i \in 1 .. Stop(f, a, bad) - 1 : i \notin bad /\ i <= a
         /\ Stop(f, a, bad) <= N(f) => Stop(f, a, bad) \in bad \/ Stop(f, a, bad) > a
<1> DEFINE stops == bad \cup (a + 1 .. N(f))
           n == Stop(f, a, bad)
<1>1. N(f) \in Nat
  BY DEF N, Fields
<1>2. stops \subseteq Nat /\ stops \subseteq 1 .. N(f)
  <2>1. \A i \in a + 1 .. N(f) : i \in Nat /\ i \in 1 .. N(f)
    BY <1>1
  <2>2. \A i \in 1 .. N(f) : i \in Nat
    BY <1>1
  <2> QED BY <2>1, <2>2
<1>3. CASE stops = {}
  <2>1. n = N(f) + 1
    BY <1>3 DEF Stop
  <2>2. N(f) <= a /\ bad = {}
    BY <1>1, <1>3
  <2> QED BY <1>1, <2>1, <2>2
<1>4. CASE stops # {}
  <2>1. \E i \in stops : \A j \in stops : i <= j
    <3> HIDE DEF stops
    <3> QED BY <1>2, <1>4, LeastOf
  <2>2. n = CHOOSE i \in stops : \A j \in stops : i <= j
    BY <1>4 DEF Stop
  <2>3. n \in stops /\ \A j \in stops : n <= j
    BY <2>1, <2>2, Zenon
  <2>4. \A j \in bad : n <= j
    BY <2>3
  <2>5. n \in 1 .. N(f)
    BY <1>2, <2>3
  <2>6. a + 1 <= N(f) => n <= a + 1
    BY <1>1, <2>3
  <2>7. n \in bad \/ n > a
    BY <2>3
  <2> HIDE DEF n
  <2>8. \A i \in 1 .. n - 1 : i \notin bad /\ i <= a
    BY <1>1, <2>4, <2>5, <2>6
  <2> QED BY <1>1, <2>5, <2>7, <2>8 DEF n
<1> QED BY <1>3, <1>4

Outcome(f, a, bad) ==
  LET n == Stop(f, a, bad)
  IN IF n > N(f) THEN "complete" ELSE IF n > a THEN "incomplete" ELSE "invalid"

LEMMA LoopedIs ==
  ASSUME NEW f, NEW a, NEW bad, NEW values
  PROVE  /\ Pure!Looped(f, a, values, bad)
              = [values |-> SubSeq(values, 1, Stop(f, a, bad) - 1), out |-> Outcome(f, a, bad)]
         /\ Native!Looped(f, a, values, bad) = Pure!Looped(f, a, values, bad)
<1>1. /\ Pure!Looped(f, a, values, bad)
           = [values |-> SubSeq(values, 1, Stop(f, a, bad) - 1), out |-> Outcome(f, a, bad)]
  BY DEF Pure!Looped, Pure!N, Stop, Outcome, N
<1>2. Native!Looped(f, a, values, bad)
           = [values |-> SubSeq(values, 1, Stop(f, a, bad) - 1), out |-> Outcome(f, a, bad)]
  BY DEF Native!Looped, Native!N, Stop, Outcome, N
<1> QED BY <1>1, <1>2

(* Two loops that refuse the same elements and agree on the others end     *)
(* alike.                                                                  *)
LEMMA LoopedAlike ==
  ASSUME NEW f \in Fields, NEW a \in Nat, NEW bad, bad \subseteq 1 .. N(f),
         NEW v \in Seq(Int), NEW w \in Seq(Int), Len(v) = N(f), Len(w) = N(f),
         \A i \in 1 .. N(f) : i \notin bad /\ i <= a => v[i] = w[i]
  PROVE  Native!Looped(f, a, w, bad) = Pure!Looped(f, a, v, bad)
<1> DEFINE n == Stop(f, a, bad) - 1
<1>1. N(f) \in Nat /\ n \in 0 .. N(f) /\ \A i \in 1 .. n : i \notin bad /\ i <= a
  <2>1. /\ N(f) \in Nat /\ Stop(f, a, bad) \in 1 .. N(f) + 1
        /\ \A i \in 1 .. Stop(f, a, bad) - 1 : i \notin bad /\ i <= a
    BY Stops
  <2> QED BY <2>1
<1> HIDE DEF n
<1>2. SubSeq(v, 1, n) = SubSeq(w, 1, n)
  BY <1>1
<1> QED BY <1>2, LoopedIs DEF n

-----------------------------------------------------------------------------
(* The elements a read refuses.                                            *)

Values(f, zigzag) == [i \in 1 .. N(f) |-> IF zigzag THEN Unzigzag(f.elems[i]) ELSE f.elems[i]]

Outside(v, lo, hi) == (lo # <<>> /\ v < lo[1]) \/ (hi # <<>> /\ v > hi[1])

Bad(f, zigzag, lo, hi) ==
  {i \in 1 .. N(f) : Malformed(f.elems[i]) \/ Outside(Values(f, zigzag)[i], lo, hi)}

Side(s) == s \in Seq(Int) /\ Len(s) <= 1

LEMMA SideIs ==
  ASSUME NEW s, Side(s), s # <<>>
  PROVE  s[1] \in Int
BY DEF Side

(* The definitions the engines share with the project.                     *)
LEMMA Shared ==
  /\ \A x : Pure!Malformed(x) = Malformed(x) /\ Native!Malformed(x) = Malformed(x)
  /\ \A x : Pure!Unzigzag(x) = Unzigzag(x) /\ Native!Unzigzag(x) = Unzigzag(x)
  /\ \A f : Pure!N(f) = N(f) /\ Native!N(f) = N(f)
  /\ Pure!SignedMin = SignedMin /\ Pure!SignedMax = SignedMax /\ Pure!UnsignedMax = UnsignedMax
  /\ Native!SignedMin = SignedMin /\ Native!SignedMax = SignedMax
  /\ Native!UnsignedMax = UnsignedMax
<1>1. /\ Pure!SignedMin = SignedMin /\ Pure!SignedMax = SignedMax
      /\ Pure!UnsignedMax = UnsignedMax
      /\ Native!SignedMin = SignedMin /\ Native!SignedMax = SignedMax
      /\ Native!UnsignedMax = UnsignedMax
  BY DEF Pure!SignedMin, Pure!SignedMax, Pure!UnsignedMax, SignedMin, SignedMax, UnsignedMax,
         Native!SignedMin, Native!SignedMax, Native!UnsignedMax
<1>2. \A f : Pure!N(f) = N(f) /\ Native!N(f) = N(f)
  BY DEF Pure!N, Native!N, N
<1>3. \A x : Pure!Unzigzag(x) = Unzigzag(x) /\ Native!Unzigzag(x) = Unzigzag(x)
  BY DEF Pure!Unzigzag, Native!Unzigzag, Unzigzag
<1>4. \A x : Pure!Malformed(x) = Malformed(x) /\ Native!Malformed(x) = Malformed(x)
  BY <1>1, Zenon DEF Pure!Malformed, Native!Malformed, Malformed
<1> QED BY <1>1, <1>2, <1>3, <1>4

(* An element is a number, and one that fits a word a word.                *)
LEMMA Elements ==
  ASSUME NEW f \in Fields, NEW zigzag \in BOOLEAN, NEW i \in 1 .. N(f)
  PROVE  /\ f.elems[i] \in Nat /\ Values(f, zigzag)[i] \in Int
         /\ Values(f, zigzag)[i] = IF zigzag THEN Unzigzag(f.elems[i]) ELSE f.elems[i]
         /\ ~zigzag => Values(f, zigzag)[i] \in Nat
         /\ ~Malformed(f.elems[i]) =>
              IF zigzag THEN SignedMin <= Values(f, zigzag)[i] /\ Values(f, zigzag)[i] <= SignedMax
              ELSE Values(f, zigzag)[i] <= UnsignedMax
<1>1. f.elems[i] \in Nat
  BY DEF Fields, N
<1>2. Values(f, zigzag)[i] = IF zigzag THEN Unzigzag(f.elems[i]) ELSE f.elems[i]
  BY DEF Values
<1>3. Unzigzag(f.elems[i]) \in Int
  BY <1>1, Zigzag
<1>4. ASSUME ~Malformed(f.elems[i])
      PROVE  IF zigzag THEN SignedMin <= Values(f, zigzag)[i] /\ Values(f, zigzag)[i] <= SignedMax
             ELSE Values(f, zigzag)[i] <= UnsignedMax
  <2> DEFINE M == 2^Bits
             H == 2^(Bits - 1)
  <2>1. M \in Nat /\ H \in Nat /\ M = 2 * H
    BY Widths
  <2>2. UnsignedMax = M - 1 /\ SignedMax = H - 1 /\ SignedMin = -H
    BY DEF UnsignedMax, SignedMax, SignedMin
  <2>3. UnsignedMax \in Nat /\ f.elems[i] <= UnsignedMax
    BY <1>1, <1>4, Widths DEF Malformed
  <2> HIDE DEF M, H
  <2>4. f.elems[i] < 2 * H
    BY <1>1, <2>1, <2>2, <2>3
  <2>5. -H <= Unzigzag(f.elems[i]) /\ Unzigzag(f.elems[i]) < H
    BY <1>1, <2>1, <2>4, Zigzag
  <2> QED BY <1>2, <1>3, <2>1, <2>2, <2>3, <2>5
<1> QED BY <1>1, <1>2, <1>3, <1>4

LEMMA ValuesAre ==
  ASSUME NEW f \in Fields, NEW zigzag \in BOOLEAN
  PROVE  Values(f, zigzag) \in Seq(Int) /\ Len(Values(f, zigzag)) = N(f) /\ N(f) \in Nat
<1>1. N(f) \in Nat
  BY DEF N, Fields
<1>2. Values(f, zigzag) \in [1 .. N(f) -> Int]
  BY Elements DEF Values
<1> QED BY <1>1, <1>2, SeqDef

(* The compare a read leaves out for an element of one byte finds nothing. *)
LEMMA FastIsSafe ==
  ASSUME NEW raw \in Nat, raw < OneByte, NEW zigzag \in BOOLEAN, NEW blo \in Int, NEW bhi \in Int,
         ~(IF zigzag THEN blo > -(OneByte \div 2) - 1 \/ bhi < OneByte \div 2 - 1
           ELSE blo > 0 \/ bhi < OneByte - 1)
  PROVE  LET v == IF zigzag THEN Unzigzag(raw) ELSE raw IN ~(v < blo \/ v > bhi)
<1>1. OneByte \in Nat /\ OneByte % 2 = 0
  <2>1. 2^Bits \in Nat
    BY Widths
  <2> QED BY <2>1, WidthsAssumption
<1> DEFINE k == OneByte \div 2
<1>2. k \in Nat /\ OneByte = 2 * k
  BY <1>1
<1> HIDE DEF k
<1>3. Unzigzag(raw) \in Int /\ -k <= Unzigzag(raw) /\ Unzigzag(raw) < k
  BY <1>2, Zigzag
<1>4. ~(IF zigzag THEN blo > -k - 1 \/ bhi < k - 1 ELSE blo > 0 \/ bhi < OneByte - 1)
  BY DEF k
<1> QED BY <1>2, <1>3, <1>4

LEMMA OneByteFits ==
  ASSUME NEW raw \in Nat, raw < OneByte
  PROVE  ~Malformed(raw)
<1> DEFINE M == 2^Bits
<1>1. M \in Nat /\ OneByte \in 1 .. M /\ UnsignedMax = M - 1
  BY Widths, WidthsAssumption DEF UnsignedMax
<1> HIDE DEF M
<1> QED BY <1>1 DEF Malformed

(* The hoisted compares of decoder.py refuse what the rule refuses.        *)
LEMMA PureReadIs ==
  ASSUME NEW f \in Fields, NEW a \in Nat, NEW zigzag \in BOOLEAN, NEW lo, NEW hi,
         Side(lo), Side(hi)
  PROVE  Pure!ReadVarints(f, a, lo, hi, zigzag)
           = Pure!Looped(f, a, Values(f, zigzag), Bad(f, zigzag, lo, hi))
<1> DEFINE blo == IF lo = <<>> THEN SignedMin ELSE lo[1]
           bhi == IF hi = <<>> THEN UnsignedMax ELSE hi[1]
           bounded   == lo # <<>> \/ hi # <<>>
           fast  == IF zigzag THEN blo > -(OneByte \div 2) - 1 \/ bhi < OneByte \div 2 - 1
                    ELSE blo > 0 \/ bhi < OneByte - 1
           v == Values(f, zigzag)
           outside == {i \in 1 .. N(f) : v[i] < blo \/ v[i] > bhi}
           small   == {i \in 1 .. N(f) : f.elems[i] < OneByte}
           bad     == {i \in 1 .. N(f) \ small : Malformed(f.elems[i])}
                      \cup (IF bounded THEN outside \ small ELSE {})
                      \cup (IF bounded /\ fast THEN outside \cap small ELSE {})
<1>1. Pure!ReadVarints(f, a, lo, hi, zigzag) = Pure!Looped(f, a, v, bad)
  BY Shared DEF Pure!ReadVarints, Values
<1>2. blo \in Int /\ bhi \in Int
  BY Widths DEF Side
<1>3. ASSUME NEW i \in 1 .. N(f)
      PROVE  i \in bad <=> i \in Bad(f, zigzag, lo, hi)
  <2>1. /\ f.elems[i] \in Nat /\ v[i] \in Int
        /\ v[i] = IF zigzag THEN Unzigzag(f.elems[i]) ELSE f.elems[i]
        /\ ~zigzag => v[i] \in Nat
        /\ ~Malformed(f.elems[i]) => IF zigzag THEN SignedMin <= v[i] /\ v[i] <= SignedMax
                                     ELSE v[i] <= UnsignedMax
    BY Elements
  <2> DEFINE out == v[i] < blo \/ v[i] > bhi
  <2>2. ASSUME ~Malformed(f.elems[i])
        PROVE  (bounded /\ out) <=> Outside(v[i], lo, hi)
    <3>1. SignedMax <= UnsignedMax /\ SignedMin <= 0 /\ SignedMin \in Int
          /\ SignedMax \in Int /\ UnsignedMax \in Int
      <4> DEFINE H == 2^(Bits - 1)
      <4>1. H \in Nat /\ H >= 1 /\ 2^Bits = 2 * H
        BY Widths
      <4>2. UnsignedMax = 2 * H - 1 /\ SignedMax = H - 1 /\ SignedMin = -H
        BY <4>1 DEF UnsignedMax, SignedMax, SignedMin
      <4> HIDE DEF H
      <4> QED BY <4>1, <4>2
    <3>2. lo = <<>> => ~(v[i] < blo)
      BY <2>1, <2>2, <3>1
    <3>3. hi = <<>> => ~(v[i] > bhi)
      BY <2>1, <2>2, <3>1
    <3> HIDE DEF v
    <3> QED BY <3>2, <3>3 DEF Outside
  <2>3. i \in Bad(f, zigzag, lo, hi) <=> Malformed(f.elems[i]) \/ Outside(v[i], lo, hi)
    BY DEF Bad
  <2>4. ASSUME i \in small PROVE ~Malformed(f.elems[i]) /\ (~fast => ~out)
    <3>1. ~Malformed(f.elems[i])
      BY <2>1, <2>4, OneByteFits
    <3>2. ASSUME ~fast PROVE ~out
      BY <1>2, <2>1, <2>4, <3>2, FastIsSafe
    <3> QED BY <3>1, <3>2
  <2>5. i \in outside <=> out
    OBVIOUS
  <2>6. i \in bad <=> \/ i \notin small /\ Malformed(f.elems[i])
                      \/ bounded /\ out /\ i \notin small
                      \/ bounded /\ fast /\ out /\ i \in small
    <3> HIDE DEF bounded, fast, out, small, outside
    <3> QED BY <2>5
  <2> HIDE DEF bounded, fast, out, small, outside, bad
  <2>7. CASE i \in small
    BY <2>2, <2>3, <2>4, <2>6, <2>7
  <2>8. CASE i \notin small
    <3>1. CASE Malformed(f.elems[i])
      BY <2>3, <2>6, <2>8, <3>1
    <3>2. CASE ~Malformed(f.elems[i])
      BY <2>2, <2>3, <2>6, <2>8, <3>2
    <3> QED BY <3>1, <3>2
  <2> QED BY <2>7, <2>8
<1>4. bad \subseteq 1 .. N(f) /\ Bad(f, zigzag, lo, hi) \subseteq 1 .. N(f)
  <2>1. bad \subseteq 1 .. N(f)
    <3> HIDE DEF bounded, fast, v
    <3> QED OBVIOUS
  <2> QED BY <2>1 DEF Bad
<1>5. bad = Bad(f, zigzag, lo, hi)
  <2> HIDE DEF bad
  <2> QED BY <1>3, <1>4
<1> QED BY <1>1, <1>5

(* _read_varints of the native engine, with the ends as it takes them.     *)
LEMMA NativeListIs ==
  ASSUME NEW f \in Fields, NEW a \in Nat, NEW zigzag \in BOOLEAN, NEW lo, NEW hi,
         Side(lo), Side(hi), UpperFits(zigzag, hi), LowerFits(zigzag, lo),
         NEW bounded, bounded = IF zigzag THEN lo # <<>> \/ hi # <<>> ELSE hi # <<>>,
         NEW clo, zigzag => clo = IF lo = <<>> THEN SignedMin ELSE lo[1],
         NEW chi, chi = IF hi = <<>> THEN (IF zigzag THEN SignedMax ELSE 0) ELSE hi[1]
  PROVE  Native!ReadVarints(f, a, zigzag, bounded, clo, chi)
           = Pure!Looped(f, a, Values(f, zigzag), Bad(f, zigzag, lo, hi))
<1> DEFINE v == Values(f, zigzag)
           outside == {i \in 1 .. N(f) :
                         IF zigzag THEN v[i] < clo \/ v[i] > chi ELSE v[i] > Native!Unsigned(chi)}
           bad == {i \in 1 .. N(f) : Malformed(f.elems[i])} \cup (IF bounded THEN outside ELSE {})
<1>1. Native!ReadVarints(f, a, zigzag, bounded, clo, chi) = Native!Looped(f, a, v, bad)
  BY Shared DEF Native!ReadVarints, Native!Decoded, Native!Overlong, Values
<1>2. /\ SignedMin \in Int /\ SignedMax \in Nat /\ UnsignedMax \in Nat
      /\ chi \in Int /\ (zigzag => clo \in Int)
  BY Widths DEF Side
<1>3. ~zigzag => Native!Unsigned(chi) = chi
  <2> SUFFICES ASSUME ~zigzag PROVE Native!Unsigned(chi) = chi
    OBVIOUS
  <2> DEFINE M == 2^Bits
             H == 2^(Bits - 1)
  <2>1. M \in Nat /\ H \in Nat /\ H >= 1 /\ M = 2 * H /\ SignedMax = H - 1
    BY Widths DEF SignedMax
  <2>2. chi >= 0 /\ chi <= SignedMax
    BY <1>2 DEF UpperFits, Word, Side
  <2>3. Native!Unsigned(chi) = chi % M
    BY DEF Native!Unsigned
  <2> HIDE DEF M, H
  <2>4. chi \in 0 .. M - 1 /\ M \in Nat \ {0}
    BY <1>2, <2>1, <2>2
  <2> QED BY <2>3, <2>4, CutAbove
<1>4. ASSUME NEW i \in 1 .. N(f)
      PROVE  i \in bad <=> i \in Bad(f, zigzag, lo, hi)
  <2>1. /\ f.elems[i] \in Nat /\ v[i] \in Int
        /\ ~zigzag => v[i] \in Nat
        /\ ~Malformed(f.elems[i]) => IF zigzag THEN SignedMin <= v[i] /\ v[i] <= SignedMax
                                     ELSE v[i] <= UnsignedMax
    BY Elements
  <2>2. i \in bad <=> \/ Malformed(f.elems[i])
                      \/ bounded /\ IF zigzag THEN v[i] < clo \/ v[i] > chi ELSE v[i] > chi
    <3> HIDE DEF v
    <3> QED BY <1>3
  <2>3. i \in Bad(f, zigzag, lo, hi) <=> Malformed(f.elems[i]) \/ Outside(v[i], lo, hi)
    BY DEF Bad
  <2>5. (lo # <<>> => lo[1] \in Int) /\ (hi # <<>> => hi[1] \in Int)
    BY SideIs
  <2> HIDE DEF v, bad
  <2>4. ASSUME ~Malformed(f.elems[i])
        PROVE  (bounded /\ IF zigzag THEN v[i] < clo \/ v[i] > chi ELSE v[i] > chi)
                 <=> Outside(v[i], lo, hi)
    <3>1. CASE ~bounded
      <4>1. hi = <<>> /\ (zigzag => lo = <<>>)
        BY <3>1
      <4>2. ~zigzag /\ lo # <<>> => ~(v[i] < lo[1])
        BY <2>1, <2>5 DEF LowerFits
      <4>3. ~Outside(v[i], lo, hi)
        BY <4>1, <4>2 DEF Outside
      <4> QED BY <3>1, <4>3
    <3>2. CASE bounded /\ zigzag
      BY <1>2, <2>1, <2>4, <2>5, <3>2 DEF Outside
    <3>3. CASE bounded /\ ~zigzag
      BY <1>2, <2>1, <2>4, <2>5, <3>3 DEF Outside, LowerFits
    <3> QED BY <3>1, <3>2, <3>3
  <2> QED BY <2>2, <2>3, <2>4
<1>5. bad \subseteq 1 .. N(f) /\ Bad(f, zigzag, lo, hi) \subseteq 1 .. N(f)
  BY DEF Bad
<1>6. bad = Bad(f, zigzag, lo, hi)
  <2> HIDE DEF bad
  <2> QED BY <1>4, <1>5
<1> HIDE DEF bad
<1> QED BY <1>1, <1>6, LoopedIs

(* A destination item whose width is checked holds what is not refused.    *)
Holds(bits, zigzag, lo, hi) ==
  bits = Bits \/ (bits \in Items /\ Pure!WidthFits(bits, zigzag, lo, hi))

LEMMA HeldWhole ==
  ASSUME NEW f \in Fields, NEW zigzag \in BOOLEAN, NEW lo, NEW hi, Side(lo), Side(hi),
         NEW bits, Holds(bits, zigzag, lo, hi), NEW i \in 1 .. N(f), i \notin Bad(f, zigzag, lo, hi)
  PROVE  Native!Item(Values(f, zigzag)[i], bits, zigzag) = Values(f, zigzag)[i]
<1> DEFINE v == Values(f, zigzag)[i]
           M == 2^bits
           H == 2^(bits - 1)
<1>1. v \in Int /\ (~zigzag => v \in Nat)
  BY Elements
<1>2. ~Malformed(f.elems[i]) /\ ~Outside(v, lo, hi)
  BY DEF Bad
<1>3. IF zigzag THEN SignedMin <= v /\ v <= SignedMax ELSE v <= UnsignedMax
  BY <1>2, Elements
<1>4. bits \in Items \cup {Bits} /\ M \in Nat /\ H \in Nat
  BY ItemWidths DEF Holds
<1>5. IF zigzag THEN -H <= v /\ v < H ELSE 0 <= v /\ v < M
  <2>1. CASE bits = Bits
    <3>1. UnsignedMax = M - 1 /\ SignedMax = H - 1 /\ SignedMin = -H
      BY <2>1 DEF UnsignedMax, SignedMax, SignedMin
    <3> HIDE DEF v, M, H
    <3> QED BY <1>1, <1>3, <1>4, <3>1
  <2>2. CASE bits # Bits
    <3>1. IF zigzag THEN lo # <<>> /\ hi # <<>> /\ lo[1] >= -H /\ hi[1] < H
          ELSE hi # <<>> /\ hi[1] < M
      BY <2>2 DEF Holds, Pure!WidthFits
    <3> HIDE DEF v, M, H
    <3> QED BY <1>1, <1>2, <1>4, <3>1 DEF Outside, Side
  <2> QED BY <2>1, <2>2
<1> QED BY <1>1, <1>4, <1>5, ItemKeeps

(* _fill_varints_at, with the ends as it takes them.                       *)
LEMMA NativeFillIs ==
  ASSUME NEW f \in Fields, NEW a \in Nat, NEW zigzag \in BOOLEAN, NEW lo, NEW hi,
         Side(lo), Side(hi), NEW bits, Holds(bits, zigzag, lo, hi),
         zigzag /\ hi # <<>> => hi[1] <= SignedMax, LowerFits(zigzag, lo),
         zigzag /\ lo # <<>> => hi # <<>>,
         NEW bounded, bounded = (lo # <<>> \/ hi # <<>>),
         NEW clo, NEW chi,
         bounded => /\ zigzag => clo = IF lo = <<>> THEN SignedMin ELSE lo[1]
                    /\ chi = IF hi = <<>> THEN UnsignedMax ELSE hi[1]
  PROVE  Native!FillVarints(f, a, bits, zigzag, bounded, clo, chi)
           = Pure!Looped(f, a, Values(f, zigzag), Bad(f, zigzag, lo, hi))
<1> DEFINE v == Values(f, zigzag)
           w == [i \in 1 .. N(f) |-> Native!Item(v[i], bits, zigzag)]
           outside == {i \in 1 .. N(f) :
                         IF zigzag THEN v[i] < clo \/ v[i] > Native!Signed(chi) ELSE v[i] > chi}
           bad == {i \in 1 .. N(f) : Malformed(f.elems[i])} \cup (IF bounded THEN outside ELSE {})
<1>1. Native!FillVarints(f, a, bits, zigzag, bounded, clo, chi) = Native!Looped(f, a, w, bad)
  BY Shared DEF Native!FillVarints, Native!Decoded, Native!Overlong, Values
<1>2. SignedMin \in Int /\ SignedMax \in Nat /\ UnsignedMax \in Nat
  BY Widths
<1>3. bounded /\ zigzag => Native!Signed(chi) = chi /\ chi \in Int /\ chi = hi[1] /\ hi # <<>>
  <2> SUFFICES ASSUME bounded, zigzag
               PROVE  Native!Signed(chi) = chi /\ chi \in Int /\ chi = hi[1] /\ hi # <<>>
    OBVIOUS
  <2>1. hi # <<>> /\ chi = hi[1] /\ hi[1] <= SignedMax /\ hi[1] \in Int
    BY SideIs, Zenon
  <2> QED BY <1>2, <2>1, Shared DEF Native!Signed
<1>4. ASSUME NEW i \in 1 .. N(f)
      PROVE  i \in bad <=> i \in Bad(f, zigzag, lo, hi)
  <2>1. /\ f.elems[i] \in Nat /\ v[i] \in Int
        /\ ~zigzag => v[i] \in Nat
        /\ ~Malformed(f.elems[i]) => IF zigzag THEN SignedMin <= v[i] /\ v[i] <= SignedMax
                                     ELSE v[i] <= UnsignedMax
    BY Elements
  <2>2. i \in bad <=> \/ Malformed(f.elems[i])
                      \/ bounded /\ IF zigzag THEN v[i] < clo \/ v[i] > chi ELSE v[i] > chi
    <3> HIDE DEF v
    <3> QED BY <1>3
  <2>3. i \in Bad(f, zigzag, lo, hi) <=> Malformed(f.elems[i]) \/ Outside(v[i], lo, hi)
    BY DEF Bad
  <2> HIDE DEF v, bad
  <2>4. ASSUME ~Malformed(f.elems[i])
        PROVE  (bounded /\ IF zigzag THEN v[i] < clo \/ v[i] > chi ELSE v[i] > chi)
                 <=> Outside(v[i], lo, hi)
    <3>1. CASE ~bounded
      BY <3>1 DEF Outside
    <3>2. CASE bounded /\ zigzag
      BY <1>2, <1>3, <2>1, <2>4, <3>2 DEF Outside, Side
    <3>3. CASE bounded /\ ~zigzag
      BY <1>2, <2>1, <2>4, <3>3 DEF Outside, Side, LowerFits
    <3> QED BY <3>1, <3>2, <3>3
  <2> QED BY <2>2, <2>3, <2>4
<1>5. bad \subseteq 1 .. N(f) /\ Bad(f, zigzag, lo, hi) \subseteq 1 .. N(f)
  BY DEF Bad
<1>6. bad = Bad(f, zigzag, lo, hi)
  <2> HIDE DEF bad
  <2> QED BY <1>4, <1>5
<1>7. \A i \in 1 .. N(f) : i \notin Bad(f, zigzag, lo, hi) => w[i] = v[i]
  BY HeldWhole
<1>8. w \in Seq(Int) /\ Len(w) = N(f) /\ v \in Seq(Int) /\ Len(v) = N(f) /\ N(f) \in Nat
  <2>1. v \in Seq(Int) /\ Len(v) = N(f) /\ N(f) \in Nat
    BY ValuesAre
  <2>2. ASSUME NEW i \in 1 .. N(f) PROVE w[i] \in Int
    <3> DEFINE x == v[i]
               M == 2^bits
               u == x % M
    <3>1. x \in Int
      BY Elements
    <3>2. bits \in Items \cup {Bits}
      BY DEF Holds
    <3>3. M \in Nat /\ M >= 1
      BY <3>2, ItemWidths
    <3>4. w[i] = IF zigzag /\ u >= 2^(bits - 1) THEN u - M ELSE u
      BY DEF Native!Item
    <3> HIDE DEF x, M
    <3>5. u \in Int
      BY <3>1, <3>3
    <3> HIDE DEF w, u
    <3> QED BY <3>3, <3>4, <3>5
  <2>3. w \in [1 .. N(f) -> Int]
    <3>1. w = [i \in 1 .. N(f) |-> w[i]]
      OBVIOUS
    <3> HIDE DEF w
    <3> QED BY <2>2, <3>1
  <2> HIDE DEF v, w
  <2> QED BY <2>1, <2>3, SeqDef
<1>9. Native!Looped(f, a, w, Bad(f, zigzag, lo, hi)) = Pure!Looped(f, a, v, Bad(f, zigzag, lo, hi))
  <2> HIDE DEF v, w
  <2> QED BY <1>5, <1>7, <1>8, LoopedAlike
<1> HIDE DEF w, bad
<1> QED BY <1>1, <1>6, <1>9

LEMMA WidthsAgree ==
  ASSUME NEW zigzag \in BOOLEAN, NEW lo, NEW hi, Side(lo), Side(hi), NEW bits \in Items, bits # Bits,
         zigzag /\ hi # <<>> => hi[1] <= SignedMax, LowerFits(zigzag, lo),
         zigzag /\ lo # <<>> => hi # <<>>,
         NEW bounded, bounded = (lo # <<>> \/ hi # <<>>),
         NEW clo, clo = IF lo = <<>> THEN SignedMin ELSE lo[1],
         NEW chi, chi = IF hi = <<>> THEN UnsignedMax ELSE hi[1]
  PROVE  Native!WidthFits(bits, zigzag, bounded, clo, chi) = Pure!WidthFits(bits, zigzag, lo, hi)
<1> DEFINE M == 2^bits
           H == 2^(bits - 1)
           W == 2^(Bits - 1)
<1>1. M \in Nat /\ H \in Nat /\ H >= 1 /\ M = 2 * H /\ W \in Nat /\ M <= W
  BY ItemWidths, Widths
<1>2. UnsignedMax = 2 * W - 1 /\ SignedMax = W - 1 /\ SignedMin = -W
  BY Widths DEF UnsignedMax, SignedMax, SignedMin
<1>3. Native!WidthFits(bits, zigzag, bounded, clo, chi)
        = (bounded /\ IF zigzag THEN clo >= -H /\ Native!Signed(chi) < H ELSE chi < M)
  BY DEF Native!WidthFits
<1>4. Pure!WidthFits(bits, zigzag, lo, hi)
        = IF zigzag THEN lo # <<>> /\ hi # <<>> /\ lo[1] >= -H /\ hi[1] < H
          ELSE hi # <<>> /\ hi[1] < M
  BY DEF Pure!WidthFits
<1>5. (lo # <<>> => lo[1] \in Int) /\ (hi # <<>> => hi[1] \in Int)
  BY SideIs
<1>6. zigzag /\ hi # <<>> => Native!Signed(chi) = hi[1]
  BY <1>5, Widths, Shared DEF Native!Signed
<1> HIDE DEF M, H, W
<1>7. CASE lo = <<>> /\ hi = <<>>
  BY <1>3, <1>4, <1>7
<1>8. CASE zigzag /\ hi # <<>>
  <2>1. CASE lo = <<>>
    <3>1. ~(clo >= -H)
      BY <1>1, <1>2, <2>1
    <3> QED BY <1>3, <1>4, <1>8, <2>1, <3>1
  <2>2. CASE lo # <<>>
    BY <1>3, <1>4, <1>5, <1>6, <1>8, <2>2
  <2> QED BY <2>1, <2>2
<1>9. CASE ~zigzag /\ hi # <<>>
  BY <1>3, <1>4, <1>9
<1>10. CASE ~zigzag /\ hi = <<>>
  <2>1. ~(chi < M)
    BY <1>1, <1>2, <1>10
  <2> QED BY <1>3, <1>4, <1>10, <2>1
<1> QED BY <1>7, <1>8, <1>9, <1>10

-----------------------------------------------------------------------------
(* What a read changes of a decoder.                                       *)

Outs == {"complete", "incomplete", "invalid", "argument", "limit", "overflow"}

HookNames ==
  {"on_field", "on_schema_bound", "on_array_begin", "on_float_array_begin", "on_string_begin",
   "on_blob_begin", "on_signed_array", "on_unsigned_array", "on_float32_array",
   "on_float64_array", "on_float32_array_bits", "on_string", "on_bytes", "on_unsigned",
   "on_signed", "on_float64", "on_float32", "on_float32_bits"}

Decoders ==
  [pend : BOOLEAN, capped : BOOLEAN, resume : BOOLEAN, out : Outs, mem : Seq(Int), count : Int,
   calls : Seq(HookNames \X Seq(Int))]

(* Both engines change it by the same steps.                               *)
LEMMA StepsShared ==
  /\ \A d, o : Pure!Ends(d, o) = Ends(d, o) /\ Native!Ends(d, o) = Ends(d, o)
  /\ \A d, m, s : Pure!Told(d, m, s) = Told(d, m, s) /\ Native!Told(d, m, s) = Told(d, m, s)
  /\ \A d : Pure!Uncapped(d) = Uncapped(d) /\ Native!Uncapped(d) = Uncapped(d)
  /\ \A d : Pure!Consumed(d) = Consumed(d) /\ Native!Consumed(d) = Consumed(d)
  /\ \A d, s : Pure!Filled(d, s) = Filled(d, s) /\ Native!Filled(d, s) = Filled(d, s)
  /\ \A d, m, s : Pure!Delivered(d, m, s) = Delivered(d, m, s)
                   /\ Native!Delivered(d, m, s) = Delivered(d, m, s)
  /\ Pure!Fresh = Fresh /\ Native!Fresh = Fresh
  /\ \A f : Pure!InvalidText(f) = InvalidText(f)
            /\ Native!InvalidText(f) = InvalidText(f) /\ (Native!Overlong(f) # {}) = InvalidText(f)
<1>1. \A d, o : Pure!Ends(d, o) = Ends(d, o) /\ Native!Ends(d, o) = Ends(d, o)
  BY DEF Pure!Ends, Native!Ends, Ends
<1>2. \A d, m, s : Pure!Told(d, m, s) = Told(d, m, s) /\ Native!Told(d, m, s) = Told(d, m, s)
  BY DEF Pure!Told, Native!Told, Told
<1>3. \A d : Pure!Uncapped(d) = Uncapped(d) /\ Native!Uncapped(d) = Uncapped(d)
  BY DEF Pure!Uncapped, Native!Uncapped, Uncapped
<1>4. \A d : Pure!Consumed(d) = Consumed(d) /\ Native!Consumed(d) = Consumed(d)
  BY DEF Pure!Consumed, Native!Consumed, Consumed
<1>5. \A d, s : Pure!Filled(d, s) = Filled(d, s) /\ Native!Filled(d, s) = Filled(d, s)
  BY DEF Pure!Filled, Native!Filled, Filled
<1>6. \A d, m, s : Pure!Delivered(d, m, s) = Delivered(d, m, s)
                   /\ Native!Delivered(d, m, s) = Delivered(d, m, s)
  BY <1>2, <1>4 DEF Pure!Delivered, Native!Delivered, Delivered
<1>7. Pure!Fresh = Fresh /\ Native!Fresh = Fresh
  BY DEF Pure!Fresh, Native!Fresh, Fresh
<1>8. \A f : Pure!InvalidText(f) = InvalidText(f)
            /\ Native!InvalidText(f) = InvalidText(f) /\ (Native!Overlong(f) # {}) = InvalidText(f)
  BY Shared DEF Pure!InvalidText, Native!InvalidText, InvalidText, Native!Overlong
<1> QED BY <1>1, <1>2, <1>3, <1>4, <1>5, <1>6, <1>7, <1>8

LEMMA KindsShared ==
  /\ Pure!Scalars = Scalars /\ Pure!Payloads = Payloads /\ Pure!Integral = Integral
  /\ Pure!Floats = Floats /\ Pure!Countable = Countable /\ Pure!Whole = Whole
  /\ Native!Scalars = Scalars /\ Native!Payloads = Payloads /\ Native!Integral = Integral
  /\ Native!Floats = Floats /\ Native!Fixlen \cup Native!Floats = Whole
BY DEF Pure!Scalars, Pure!Payloads, Pure!Integral, Pure!Floats, Pure!Countable, Pure!Whole,
       Pure!Fixlen, Native!Scalars, Native!Payloads, Native!Integral, Native!Floats,
       Native!Fixlen, Scalars, Payloads, Integral, Floats, Countable, Whole, Fixlen

(* A field and an answer that may belong together.                         *)
Offered(f, h) ==
  /\ f \in Fields /\ (f.kind \in Scalars => N(f) = 1)
  /\ h \in HookAnswers \cup Rows /\ (h \in Rows => Stores(h, f.kind))

(* The same result, but that the native engine has taken what it refuses.  *)
Alike(p, n) == n = p \/ (p.out = "invalid" /\ n = Consumed(p))

LEMMA ScalarAlike ==
  ASSUME NEW f, NEW h, Offered(f, h), f.kind \in Scalars, NEW a \in Nat, NEW d
  PROVE  Native!VisitScalar(d, f, h, a) = Pure!VisitScalar(d, f, h, a)
<1>1. (Native!Overlong(f) # {}) = Malformed(f.elems[1])
  <2>1. N(f) = 1
    BY DEF Offered
  <2>2. Native!Overlong(f) = {i \in 1 .. 1 : Malformed(f.elems[i])}
    BY <2>1, Shared DEF Native!Overlong
  <2>3. Malformed(f.elems[1]) \in BOOLEAN
    BY DEF Malformed
  <2> QED BY <2>2, <2>3
<1> QED BY <1>1, Shared, StepsShared
        DEF Native!VisitScalar, Pure!VisitScalar, Native!Short, Pure!Short

LEMMA HooksAre ==
  ASSUME NEW f, NEW h, Offered(f, h), h.by = "hooks"
  PROVE  h \in HookAnswers /\ Side(h.lo) /\ Side(h.hi) /\ h.dst \in Seq(Lent)
         /\ (h.dst # <<>> => h.dst[1] \in Lent)
<1>1. h \in HookAnswers
  BY DEF Offered, Rows
<1> QED BY <1>1 DEF HookAnswers, Side

LEMMA VarintsAlike ==
  ASSUME NEW f, NEW h, Offered(f, h), f.kind \in Integral, NEW a \in Nat, NEW d,
         h.by = "hooks", ReadAlike(f, h)
  PROVE  Native!VisitVarints(d, f, h, a) = Pure!VisitVarints(d, f, h, a)
<1> DEFINE zigzag  == f.kind = "signeds"
           asked   == Told(d, "on_array_begin", <<N(f)>>)
           bounded == h.lo # <<>> \/ h.hi # <<>>
           clo     == IF h.lo = <<>> THEN SignedMin ELSE h.lo[1]
           chi     == IF h.hi = <<>> THEN UnsignedMax ELSE h.hi[1]
           dst     == h.dst[1]
           read    == Pure!Looped(f, a, Values(f, zigzag), Bad(f, zigzag, h.lo, h.hi))
           fill    == Native!FillVarints(f, a, dst.bits, zigzag, bounded, clo, chi)
           filled  == Filled(Uncapped(asked), read.values)
           typed   == IF zigzag THEN "on_signed_array" ELSE "on_unsigned_array"
           listed  == IF zigzag
                      THEN Native!ReadVarints(f, a, TRUE, bounded, clo,
                                              IF h.hi = <<>> THEN SignedMax ELSE h.hi[1])
                      ELSE Native!ReadVarints(f, a, FALSE, h.hi # <<>>, 0,
                                              IF h.hi = <<>> THEN 0 ELSE h.hi[1])
           unusable(fits) == \/ ~dst.writable \/ dst.bits \notin Items
                             \/ dst.bits # Bits /\ ~fits
                             \/ dst.slots < N(f)
           pfits == Pure!WidthFits(dst.bits, zigzag, h.lo, h.hi)
           nfits == Native!WidthFits(dst.bits, zigzag, bounded, clo, chi)
<1>1. /\ f \in Fields /\ zigzag \in BOOLEAN /\ Side(h.lo) /\ Side(h.hi)
      /\ UpperFits(zigzag, h.hi) /\ LowerFits(zigzag, h.lo)
  BY HooksAre DEF Offered, ReadAlike
<1>2. /\ ~(h.hi # <<>> /\ h.hi[1] > SignedMax)
      /\ ~(h.lo # <<>> /\ ~Native!Fits(h.lo[1]))
      /\ ~(h.hi # <<>> /\ ~Native!Fits(h.hi[1]))
      /\ Native!Fits(clo)
  <2>1. SignedMin \in Word
    BY Widths DEF Word, SignedMin, SignedMax
  <2>2. (h.hi # <<>> => h.hi[1] \in Word) /\ (h.lo # <<>> => h.lo[1] \in Word)
    BY <1>1 DEF UpperFits, LowerFits
  <2>3. \A v : Native!Fits(v) <=> v \in Word
    BY Shared DEF Native!Fits, Word
  <2>4. h.hi # <<>> => ~(h.hi[1] > SignedMax)
    BY <2>2, Widths DEF Word
  <2> QED BY <2>1, <2>2, <2>3, <2>4
<1>3. Pure!ReadVarints(f, a, h.lo, h.hi, zigzag) = read
  <2> HIDE DEF zigzag
  <2> QED BY <1>1, PureReadIs
<1>4. listed = read
  <2> DEFINE nbounded == IF zigzag THEN bounded ELSE h.hi # <<>>
             nlo == IF zigzag THEN clo ELSE 0
             nhi == IF h.hi = <<>> THEN (IF zigzag THEN SignedMax ELSE 0) ELSE h.hi[1]
  <2>1. listed = Native!ReadVarints(f, a, zigzag, nbounded, nlo, nhi)
    <3>1. CASE zigzag
      <4>1. nbounded = bounded /\ nlo = clo /\ zigzag = TRUE
            /\ nhi = IF h.hi = <<>> THEN SignedMax ELSE h.hi[1]
        BY <3>1
      <4> HIDE DEF nbounded, nlo, nhi, bounded, clo, zigzag
      <4> QED BY <3>1, <4>1
    <3>2. CASE ~zigzag
      <4>1. nbounded = (h.hi # <<>>) /\ nlo = 0 /\ zigzag = FALSE
            /\ nhi = IF h.hi = <<>> THEN 0 ELSE h.hi[1]
        BY <3>2
      <4> HIDE DEF nbounded, nlo, nhi, bounded, clo, zigzag
      <4> QED BY <3>2, <4>1
    <3> QED BY <3>1, <3>2
  <2>2. /\ nbounded = IF zigzag THEN h.lo # <<>> \/ h.hi # <<>> ELSE h.hi # <<>>
        /\ zigzag => nlo = IF h.lo = <<>> THEN SignedMin ELSE h.lo[1]
        /\ nhi = IF h.hi = <<>> THEN (IF zigzag THEN SignedMax ELSE 0) ELSE h.hi[1]
    BY Zenon
  <2> HIDE DEF nbounded, nlo, nhi, zigzag, listed
  <2> QED BY <1>1, <2>1, <2>2, NativeListIs
<1> HIDE DEF read
<1>5. Pure!VisitVarints(d, f, h, a) =
        IF h.dst = <<>>
        THEN IF d.capped THEN Ends(asked, "limit")
             ELSE IF read.out = "complete" THEN Delivered(asked, typed, read.values)
             ELSE Ends(asked, read.out)
        ELSE IF unusable(pfits) THEN Ends(Uncapped(asked), "argument")
        ELSE IF read.out = "complete" THEN Consumed(filled) ELSE Ends(filled, read.out)
  BY <1>3, Shared, StepsShared DEF Pure!VisitVarints
<1>6. Native!VisitVarints(d, f, h, a) =
        IF h.dst = <<>>
        THEN IF d.capped THEN Ends(asked, "limit")
             ELSE IF \/ zigzag /\ h.lo # <<>> /\ ~Native!Fits(h.lo[1])
                     \/ h.hi # <<>> /\ ~Native!Fits(h.hi[1])
             THEN Ends(asked, "overflow")
             ELSE IF listed.out # "complete" THEN Ends(asked, listed.out)
             ELSE Delivered(asked, typed, listed.values)
        ELSE IF ~Native!Fits(clo) \/ chi < 0 THEN Ends(Uncapped(asked), "overflow")
        ELSE IF unusable(nfits) THEN Ends(Uncapped(asked), "argument")
        ELSE IF fill.out = "complete" THEN Consumed(Filled(Uncapped(asked), fill.values))
        ELSE Ends(Filled(Uncapped(asked), fill.values), fill.out)
  BY <1>2, Shared, StepsShared, ZenonT(60) DEF Native!VisitVarints, Native!ReadArray
<1>7. CASE h.dst = <<>>
  <2> HIDE DEF listed, unusable, fill, nfits, pfits, chi, typed, filled
  <2> QED BY <1>2, <1>4, <1>5, <1>6, <1>7
<1>8. CASE h.dst # <<>>
  <2>1. /\ h.hi # <<>> => h.hi[1] >= 0
        /\ zigzag /\ h.lo # <<>> => h.hi # <<>>
    BY <1>8 DEF ReadAlike
  <2>2. Native!Fits(clo) /\ ~(chi < 0)
    <3>1. CASE h.hi = <<>>
      BY <1>2, <3>1, Widths
    <3>2. CASE h.hi # <<>>
      BY <1>1, <1>2, <2>1, <3>2, SideIs
    <3> QED BY <3>1, <3>2
  <2>3. dst.bits \in Items /\ dst.bits # Bits => nfits = pfits
    <3> HIDE DEF zigzag, bounded, clo, chi
    <3>1. /\ zigzag /\ h.hi # <<>> => h.hi[1] <= SignedMax
          /\ bounded = (h.lo # <<>> \/ h.hi # <<>>)
          /\ clo = IF h.lo = <<>> THEN SignedMin ELSE h.lo[1]
          /\ chi = IF h.hi = <<>> THEN UnsignedMax ELSE h.hi[1]
      BY <1>1, Widths DEF clo, chi, bounded, UpperFits, Word
    <3> QED BY <1>1, <2>1, <3>1, WidthsAgree
  <2>4. unusable(nfits) = unusable(pfits)
    BY <2>3
  <2>5. ASSUME ~unusable(pfits) PROVE fill = read
    <3>1. Holds(dst.bits, zigzag, h.lo, h.hi)
      BY <2>5 DEF Holds
    <3> HIDE DEF clo, chi, bounded, zigzag
    <3>2. /\ zigzag /\ h.hi # <<>> => h.hi[1] <= SignedMax
          /\ bounded = (h.lo # <<>> \/ h.hi # <<>>)
          /\ clo = IF h.lo = <<>> THEN SignedMin ELSE h.lo[1]
          /\ chi = IF h.hi = <<>> THEN UnsignedMax ELSE h.hi[1]
      BY <1>1, Widths DEF clo, chi, bounded, UpperFits, Word
    <3> DEFINE bits == dst.bits
    <3>3. Holds(bits, zigzag, h.lo, h.hi)
      BY <3>1
    <3>4. Native!FillVarints(f, a, bits, zigzag, bounded, clo, chi)
            = Pure!Looped(f, a, Values(f, zigzag), Bad(f, zigzag, h.lo, h.hi))
      <4>1. bounded => /\ zigzag => clo = IF h.lo = <<>> THEN SignedMin ELSE h.lo[1]
                       /\ chi = IF h.hi = <<>> THEN UnsignedMax ELSE h.hi[1]
        BY <3>2
      <4> HIDE DEF bits
      <4> DEFINE lo == h.lo
                 hi == h.hi
      <4>2. /\ f \in Fields /\ zigzag \in BOOLEAN /\ Side(lo) /\ Side(hi)
            /\ Holds(bits, zigzag, lo, hi)
            /\ zigzag /\ hi # <<>> => hi[1] <= SignedMax
            /\ LowerFits(zigzag, lo)
            /\ zigzag /\ lo # <<>> => hi # <<>>
            /\ bounded = (lo # <<>> \/ hi # <<>>)
            /\ bounded => /\ zigzag => clo = IF lo = <<>> THEN SignedMin ELSE lo[1]
                          /\ chi = IF hi = <<>> THEN UnsignedMax ELSE hi[1]
        BY <1>1, <2>1, <3>2, <3>3, <4>1
      <4> HIDE DEF lo, hi
      <4>3. Native!FillVarints(f, a, bits, zigzag, bounded, clo, chi)
              = Pure!Looped(f, a, Values(f, zigzag), Bad(f, zigzag, lo, hi))
        BY <4>2, NativeFillIs
      <4> QED BY <4>3 DEF lo, hi
    <3> QED BY <3>4 DEF read
  <2> HIDE DEF unusable, fill, nfits, pfits, clo, chi
  <2> QED BY <1>5, <1>6, <1>8, <2>2, <2>4, <2>5
<1> QED BY <1>7, <1>8

(* The steps keep a decoder one, and a field of it they do not name.       *)
LEMMA StepsTyped ==
  ASSUME NEW d \in Decoders
  PROVE  /\ \A o \in Outs : Ends(d, o) \in Decoders /\ Ends(d, o).out = o
         /\ \A m \in HookNames, s \in Seq(Int) : /\ Told(d, m, s) \in Decoders
                                            /\ Told(d, m, s).out = d.out
                                            /\ Told(d, m, s).capped = d.capped
         /\ Uncapped(d) \in Decoders /\ Uncapped(d).out = d.out /\ ~Uncapped(d).capped
         /\ Consumed(d) \in Decoders /\ Consumed(d).out = d.out
         /\ \A s \in Seq(Int) : Filled(d, s) \in Decoders /\ Filled(d, s).out = d.out
         /\ \A m \in HookNames, s \in Seq(Int) : /\ Delivered(d, m, s) \in Decoders
                                            /\ Delivered(d, m, s).out = d.out
<1>1. \A o \in Outs : Ends(d, o) \in Decoders /\ Ends(d, o).out = o
  BY DEF Decoders, Ends
<1>2. ASSUME NEW e \in Decoders, NEW m \in HookNames, NEW s \in Seq(Int)
      PROVE  Told(e, m, s) \in Decoders /\ Told(e, m, s).out = e.out
             /\ Told(e, m, s).capped = e.capped
  <2>1. Append(e.calls, <<m, s>>) \in Seq(HookNames \X Seq(Int))
    BY DEF Decoders
  <2> QED BY <2>1 DEF Told, Decoders
<1>3. Uncapped(d) \in Decoders /\ Uncapped(d).out = d.out /\ ~Uncapped(d).capped
  BY DEF Decoders, Uncapped
<1>4. Consumed(d) \in Decoders /\ Consumed(d).out = d.out
  BY DEF Decoders, Consumed
<1>5. ASSUME NEW s \in Seq(Int)
      PROVE  Filled(d, s) \in Decoders /\ Filled(d, s).out = d.out
  <2>1. s \o SubSeq(d.mem, Len(s) + 1, Len(d.mem)) \in Seq(Int)
    BY DEF Decoders
  <2> QED BY <2>1 DEF Filled, Decoders
<1> QED BY <1>1, <1>2, <1>3, <1>4, <1>5 DEF Delivered

LEMMA FilledConsumed ==
  ASSUME NEW d \in Decoders, NEW s \in Seq(Int)
  PROVE  Filled(Consumed(d), s) = Consumed(Filled(d, s))
BY DEF Filled, Consumed, Decoders

LEMMA Behind ==
  ASSUME NEW s \in Seq(Int), NEW q \in Seq(Int)
  PROVE  s \o q \in Seq(Int) /\ SubSeq(s \o q, Len(s) + 1, Len(s \o q)) = q
<1> DEFINE r == s \o q
           n == Len(s)
           p == SubSeq(r, n + 1, Len(r))
<1>1. r \in Seq(Int) /\ Len(r) = n + Len(q) /\ n \in Nat /\ Len(q) \in Nat
  OBVIOUS
<1>2. \A i \in 1 .. Len(q) : r[n + i] = q[i]
  OBVIOUS
<1> HIDE DEF r
<1>3. p \in Seq(Int) /\ Len(p) = Len(q)
  BY <1>1
<1>4. \A i \in 1 .. Len(q) : p[i] = q[i]
  BY <1>1, <1>2
<1> HIDE DEF p
<1>5. p = q
  BY <1>3, <1>4, SeqEqual
<1> QED BY <1>1, <1>5 DEF p, r

(* What is written over as much is as if it were written once.             *)
LEMMA FilledTwice ==
  ASSUME NEW d \in Decoders, NEW s \in Seq(Int), NEW t \in Seq(Int), Len(s) = Len(t)
  PROVE  Filled(Filled(d, s), t) = Filled(d, t)
<1> DEFINE m == d.mem
           n == Len(s)
           r == s \o SubSeq(m, n + 1, Len(m))
<1>1. m \in Seq(Int) /\ n \in Nat
  BY DEF Decoders
<1>2. r \in Seq(Int) /\ SubSeq(r, n + 1, Len(r)) = SubSeq(m, n + 1, Len(m))
  <2> DEFINE q == SubSeq(m, n + 1, Len(m))
  <2>1. q \in Seq(Int)
    BY <1>1
  <2> HIDE DEF q
  <2>2. r \in Seq(Int) /\ SubSeq(r, n + 1, Len(r)) = q
    BY <2>1, Behind DEF q
  <2> QED BY <2>2 DEF q
<1>3. Filled(d, s).mem = r
  BY DEF Filled, Decoders
<1>4. Filled(Filled(d, s), t) = [Filled(d, s) EXCEPT !.mem = t \o SubSeq(r, n + 1, Len(r))]
  BY <1>3 DEF Filled
<1>5. Filled(d, t) = [d EXCEPT !.mem = t \o SubSeq(m, n + 1, Len(m))]
  BY DEF Filled
<1>6. Filled(d, s) = [d EXCEPT !.mem = r]
  BY DEF Filled
<1> HIDE DEF r, m
<1>7. Filled(Filled(d, s), t) = [[d EXCEPT !.mem = r] EXCEPT !.mem = t \o SubSeq(m, n + 1, Len(m))]
  BY <1>2, <1>4, <1>6
<1> DEFINE x == t \o SubSeq(m, n + 1, Len(m))
<1> HIDE DEF x
<1>8. [[d EXCEPT !.mem = r] EXCEPT !.mem = x] = [d EXCEPT !.mem = x]
  BY DEF Decoders
<1> QED BY <1>5, <1>7, <1>8 DEF x

-----------------------------------------------------------------------------
(* The handler's route.                                                    *)

LEMMA TakenAlike ==
  ASSUME NEW f \in Fields, NEW a, NEW d \in Decoders, NEW dst
  PROVE  /\ Native!TakeBlobInto(d, f, a, dst) = Pure!TakeBlobInto(d, f, a, dst)
         /\ Alike(Pure!TakeStringInto(d, f, a, dst), Native!TakeStringInto(d, f, a, dst))
         /\ Pure!TakeStringInto(d, f, a, dst) \in Decoders
         /\ Pure!TakeBlobInto(d, f, a, dst) \in Decoders
<1>1. f.elems \in Seq(Int)
  BY DEF Fields
<1>2. Filled(Consumed(d), f.elems) = Consumed(Filled(d, f.elems))
  BY <1>1, FilledConsumed
<1>3. Ends(Consumed(d), "invalid") = Consumed(Ends(d, "invalid")) /\ Ends(d, "invalid").out = "invalid"
  BY DEF Ends, Consumed, Decoders
<1>4. Native!TakeBlobInto(d, f, a, dst) = Pure!TakeBlobInto(d, f, a, dst)
  BY <1>2, Shared, StepsShared
     DEF Native!TakeBlobInto, Pure!TakeBlobInto, Native!Short, Pure!Short
<1>5. Alike(Pure!TakeStringInto(d, f, a, dst), Native!TakeStringInto(d, f, a, dst))
  BY <1>2, <1>3, Shared, StepsShared
     DEF Native!TakeStringInto, Pure!TakeStringInto, Native!Short, Pure!Short, Alike
<1>6. Consumed(Filled(d, f.elems)) \in Decoders
  BY <1>1, StepsTyped
<1>7. \A o \in {"argument", "incomplete", "invalid"} : Ends(d, o) \in Decoders
  <2>1. \A o \in Outs : Ends(d, o) \in Decoders
    BY StepsTyped
  <2> QED BY <2>1 DEF Outs
<1>8. Pure!TakeStringInto(d, f, a, dst) \in Decoders /\ Pure!TakeBlobInto(d, f, a, dst) \in Decoders
  BY <1>6, <1>7, StepsShared DEF Pure!TakeStringInto, Pure!TakeBlobInto
<1> QED BY <1>4, <1>5, <1>8

LEMMA LoopedTyped ==
  ASSUME NEW f \in Fields, NEW a \in Nat, NEW zigzag \in BOOLEAN, NEW bad, bad \subseteq 1 .. N(f)
  PROVE  LET read == Pure!Looped(f, a, Values(f, zigzag), bad)
         IN read.values \in Seq(Int) /\ read.out \in {"complete", "incomplete", "invalid"}
            /\ Len(read.values) = Stop(f, a, bad) - 1
            /\ (read.out = "complete" => read.values = Values(f, zigzag))
<1> DEFINE v == Values(f, zigzag)
           n == Stop(f, a, bad)
<1>1. v \in Seq(Int) /\ Len(v) = N(f) /\ N(f) \in Nat
  BY ValuesAre
<1>2. n \in 1 .. N(f) + 1
  BY Stops
<1>3. Pure!Looped(f, a, v, bad) = [values |-> SubSeq(v, 1, n - 1), out |-> Outcome(f, a, bad)]
  BY LoopedIs
<1>4. Outcome(f, a, bad) \in {"complete", "incomplete", "invalid"}
      /\ (Outcome(f, a, bad) = "complete" => n > N(f))
  BY DEF Outcome
<1> HIDE DEF v, n
<1>5. SubSeq(v, 1, n - 1) \in Seq(Int) /\ Len(SubSeq(v, 1, n - 1)) = n - 1
  BY <1>1, <1>2
<1>6. n > N(f) => SubSeq(v, 1, n - 1) = v
  BY <1>1, <1>2, SubSeqFull
<1> QED BY <1>3, <1>4, <1>5, <1>6 DEF v, n

LEMMA PayloadAlike ==
  ASSUME NEW f, NEW h, Offered(f, h), f.kind \in Payloads, NEW a \in Nat, NEW d \in Decoders
  PROVE  Alike(Pure!VisitValue(d, f, h, a), Native!VisitValue(d, f, h, a))
<1> DEFINE asked == Told(d, IF f.kind = "text" THEN "on_string_begin" ELSE "on_blob_begin", <<N(f)>>)
           e == Uncapped(asked)
<1>1. f \in Fields /\ N(f) \in Nat
  BY DEF Offered, Fields, N
<1>2. asked \in Decoders
  <2>1. (IF f.kind = "text" THEN "on_string_begin" ELSE "on_blob_begin") \in HookNames
        /\ <<N(f)>> \in Seq(Int)
    BY <1>1 DEF HookNames
  <2> QED BY <2>1, StepsTyped
<1>3. e \in Decoders
  BY <1>2, StepsTyped
<1> HIDE DEF asked
<1>4. f.kind \notin Scalars /\ f.kind \in {"text", "blob"}
  BY DEF Payloads, Scalars
<1>5. Pure!VisitValue(d, f, h, a) =
        IF h.dst # <<>>
        THEN IF f.kind = "text" THEN Pure!TakeStringInto(e, f, a, h.dst[1])
             ELSE Pure!TakeBlobInto(e, f, a, h.dst[1])
        ELSE IF asked.capped THEN Ends(asked, "limit")
        ELSE IF a < N(f) THEN Ends(asked, "incomplete")
        ELSE IF f.kind = "text" /\ InvalidText(f) THEN Ends(Consumed(asked), "invalid")
        ELSE Delivered(asked, IF f.kind = "text" THEN "on_string" ELSE "on_bytes", f.elems)
  <2>1. asked.capped = d.capped
    BY DEF asked, Told, Decoders
  <2> QED BY <1>4, <2>1, Shared, StepsShared, KindsShared
          DEF Pure!VisitValue, Pure!VisitPayload, Pure!TakeInto, Pure!Short, asked, Payloads
<1>6. Native!VisitValue(d, f, h, a) =
        IF h.dst # <<>>
        THEN IF f.kind = "text" THEN Native!TakeStringInto(e, f, a, h.dst[1])
             ELSE Native!TakeBlobInto(e, f, a, h.dst[1])
        ELSE IF asked.capped THEN Ends(asked, "limit")
        ELSE IF a < N(f) THEN Ends(asked, "incomplete")
        ELSE IF f.kind = "text" /\ InvalidText(f) THEN Ends(Consumed(asked), "invalid")
        ELSE Delivered(asked, IF f.kind = "text" THEN "on_string" ELSE "on_bytes", f.elems)
  BY <1>4, Shared, StepsShared, KindsShared
     DEF Native!VisitValue, Native!ReadPayload, Native!Mismatch, Native!Short, asked
<1> QED BY <1>1, <1>3, <1>5, <1>6, TakenAlike DEF Alike

LEMMA FarrayAlike ==
  ASSUME NEW f, NEW h, Offered(f, h), NEW a, NEW d \in Decoders
  PROVE  /\ Native!VisitFarray(d, f, h, a) = Pure!VisitFarray(d, f, h, a)
         /\ Native!VisitFarrayBits(d, f, a) = Pure!VisitFarrayBits(d, f, a)
<1> DEFINE asked == Told(d, "on_float_array_begin", <<N(f)>>)
           e == Uncapped(asked)
<1>1. f \in Fields /\ f.elems \in Seq(Int) /\ N(f) \in Nat
  BY DEF Offered, Fields, N
<1>2. e \in Decoders
  <2>1. "on_float_array_begin" \in HookNames /\ <<N(f)>> \in Seq(Int)
    BY <1>1 DEF HookNames
  <2>2. asked \in Decoders
    BY <2>1, StepsTyped
  <2> HIDE DEF asked
  <2> QED BY <2>2, StepsTyped
<1>3. Native!VisitFarrayBits(d, f, a) = Pure!VisitFarrayBits(d, f, a)
  BY Shared, StepsShared
     DEF Native!VisitFarrayBits, Pure!VisitFarrayBits, Native!Short, Pure!Short
<1>4. Filled(Consumed(e), f.elems) = Consumed(Filled(e, f.elems))
  BY <1>1, <1>2, FilledConsumed
<1>5. Pure!VisitFarray(d, f, h, a) =
        IF h.dst = <<>>
        THEN IF d.capped THEN Ends(asked, "limit")
             ELSE IF a < N(f) THEN Ends(asked, "incomplete")
             ELSE Delivered(asked, IF f.kind = "floats32" THEN "on_float32_array"
                                   ELSE "on_float64_array", f.elems)
        ELSE IF ~h.dst[1].writable \/ h.dst[1].bits # Bits \/ h.dst[1].slots < N(f)
        THEN Ends(e, "argument")
        ELSE IF a < N(f) THEN Ends(e, "incomplete") ELSE Consumed(Filled(e, f.elems))
  BY Shared, StepsShared DEF Pure!VisitFarray, Pure!Short
<1>6. Native!VisitFarray(d, f, h, a) =
        IF h.dst = <<>>
        THEN IF asked.capped THEN Ends(asked, "limit")
             ELSE IF a < N(f) THEN Ends(asked, "incomplete")
             ELSE Delivered(asked, IF f.kind = "floats32" THEN "on_float32_array"
                                   ELSE "on_float64_array", f.elems)
        ELSE IF ~h.dst[1].writable \/ h.dst[1].bits # Bits \/ h.dst[1].slots < N(f)
        THEN Ends(e, "argument")
        ELSE IF a < N(f) THEN Ends(e, "incomplete") ELSE Filled(Consumed(e), f.elems)
  BY Shared, StepsShared
     DEF Native!VisitFarray, Native!ReadFarray, Native!Mismatch, Native!Short
<1>7. asked.capped = d.capped
  BY DEF Told, Decoders
<1>8. Native!VisitFarray(d, f, h, a) = Pure!VisitFarray(d, f, h, a)
  <2> HIDE DEF asked, e
  <2> QED BY <1>4, <1>5, <1>6, <1>7
<1> QED BY <1>3, <1>8

(* The two engines read a field for a handler alike.                       *)
LEMMA VisitedAlike ==
  ASSUME NEW f, NEW h, Offered(f, h), h.by = "hooks", ReadAlike(f, h), NEW a \in Nat,
         NEW d \in Decoders
  PROVE  Alike(Pure!VisitValue(d, f, h, a), Native!VisitValue(d, f, h, a))
<1>1. CASE f.kind \in Scalars
  <2>1. Pure!VisitValue(d, f, h, a) = Pure!VisitScalar(d, f, h, a)
        /\ Native!VisitValue(d, f, h, a) = Native!VisitScalar(d, f, h, a)
    BY <1>1, KindsShared DEF Pure!VisitValue, Native!VisitValue
  <2> QED BY <1>1, <2>1, ScalarAlike DEF Alike
<1>2. CASE f.kind \in Payloads
  BY <1>2, PayloadAlike
<1>3. CASE f.kind \in Integral
  <2>1. f.kind \notin Scalars \cup Payloads /\ f.kind \notin {"text", "blob"}
    BY <1>3 DEF Scalars, Payloads, Integral
  <2>2. Pure!VisitValue(d, f, h, a) = Pure!VisitVarints(d, f, h, a)
        /\ Native!VisitValue(d, f, h, a) = Native!VisitVarints(d, f, h, a)
    BY <1>3, <2>1, KindsShared DEF Pure!VisitValue, Native!VisitValue
  <2> QED BY <1>3, <2>2, VarintsAlike DEF Alike
<1>4. CASE f.kind \in Floats
  <2>1. f.kind \notin Scalars \cup Payloads \cup Integral /\ f.kind \notin {"text", "blob"}
    BY <1>4 DEF Scalars, Payloads, Integral, Floats
  <2>2. /\ Pure!VisitValue(d, f, h, a) = IF f.kind = "floats32" /\ h.bits
                                         THEN Pure!VisitFarrayBits(d, f, a)
                                         ELSE Pure!VisitFarray(d, f, h, a)
        /\ Native!VisitValue(d, f, h, a) = IF f.kind = "floats32" /\ h.bits
                                           THEN Native!VisitFarrayBits(d, f, a)
                                           ELSE Native!VisitFarray(d, f, h, a)
    BY <2>1, KindsShared DEF Pure!VisitValue, Native!VisitValue
  <2> QED BY <2>2, FarrayAlike DEF Alike
<1>5. f.kind \in Scalars \cup Payloads \cup Integral \cup Floats
  BY DEF Offered, Fields, Countable
<1> QED BY <1>1, <1>2, <1>3, <1>4, <1>5

-----------------------------------------------------------------------------
(* The destination table's route.                                          *)

LEMMA RowsAre ==
  ASSUME NEW f, NEW h, Offered(f, h), h.by = "row"
  PROVE  h \in Rows /\ Stores(h, f.kind)
BY DEF Offered, HookAnswers

LEMMA MappedScalarAlike ==
  ASSUME NEW f, NEW h, Offered(f, h), h.by = "row", ReadAlike(f, h), f.kind \in Scalars,
         NEW a \in Nat, NEW d \in Decoders
  PROVE  Native!MappedScalar(d, f, h, a) = Pure!MappedScalar(d, f, h, a)
<1> DEFINE x == f.elems[1]
           v == IF h.kind = "signed" THEN Unzigzag(x)
                ELSE IF h.kind = "boolean" THEN (IF x = 0 THEN 0 ELSE 1) ELSE x
           s == Unzigzag(x)
           w == IF f.kind = "signed" THEN s
                ELSE IF h.kind = "boolean" THEN (IF x # 0 THEN 1 ELSE 0) ELSE x
           number == f.kind \in {"unsigned", "signed"}
<1>1. h \in Rows /\ Stores(h, f.kind) /\ f \in Fields /\ N(f) = 1 /\ x \in Nat /\ s \in Int
  <2>1. h \in Rows /\ Stores(h, f.kind) /\ f \in Fields /\ N(f) = 1
    BY RowsAre DEF Offered
  <2>2. x \in Nat
    BY <2>1 DEF Fields, N
  <2> QED BY <2>1, <2>2, Zigzag
<1>2. Native!Overlong(f) # {} <=> Malformed(x)
  <2>1. Native!Overlong(f) = {i \in 1 .. 1 : Malformed(f.elems[i])}
    BY <1>1, Shared DEF Native!Overlong
  <2>2. Malformed(x) \in BOOLEAN
    BY DEF Malformed
  <2> QED BY <2>1, <2>2
<1>3. (h.kind = "signed" <=> f.kind = "signed") /\ (h.kind = "boolean" => f.kind = "unsigned")
  BY <1>1 DEF Stores, Scalars
<1>4. v = w
  BY <1>3
<1>5. h.bounded /\ f.kind = "signed" => Native!Signed(h.hi) = h.hi
  <2> SUFFICES ASSUME h.bounded, f.kind = "signed" PROVE Native!Signed(h.hi) = h.hi
    OBVIOUS
  <2>1. h.hi \in Int /\ h.hi <= SignedMax
    BY <1>1, <1>3, Widths DEF Rows
  <2> QED BY <2>1, Widths, Shared DEF Native!Signed
<1>6. (f.kind = "unsigned" /\ h.bounded /\ x > h.hi)
        \/ (f.kind = "signed" /\ h.bounded /\ (s < h.lo \/ s > Native!Signed(h.hi)))
      <=> h.bounded /\ (v > h.hi \/ (h.kind = "signed" /\ v < h.lo))
  BY <1>1, <1>3, <1>5 DEF Rows, Integral, Scalars, Stores
<1>7. [Consumed(Filled(d, <<w>>)) EXCEPT !.count = IF h.counts THEN 1 ELSE @]
        = [Filled(Consumed(d), <<w>>) EXCEPT !.count = IF h.counts THEN 1 ELSE @]
  <2>1. <<w>> \in Seq(Int)
    BY <1>1
  <2> QED BY <2>1, FilledConsumed
<1>8. Pure!MappedScalar(d, f, h, a) =
        IF a < N(f) THEN Ends(d, "incomplete")
        ELSE IF number /\ Malformed(x) THEN Ends(d, "invalid")
        ELSE IF h.bounded /\ (v > h.hi \/ (h.kind = "signed" /\ v < h.lo))
        THEN Ends(Consumed(d), "invalid")
        ELSE [Consumed(Filled(d, <<v>>)) EXCEPT !.count = IF h.counts THEN 1 ELSE @]
  BY Shared, StepsShared DEF Pure!MappedScalar, Pure!Stored, Pure!Short
<1>9. Native!MappedScalar(d, f, h, a) =
        IF a < N(f) THEN Ends(d, "incomplete")
        ELSE IF number /\ Native!Overlong(f) # {} THEN Ends(d, "invalid")
        ELSE IF (f.kind = "unsigned" /\ h.bounded /\ x > h.hi)
                  \/ (f.kind = "signed" /\ h.bounded /\ (s < h.lo \/ s > Native!Signed(h.hi)))
        THEN Ends(Consumed(d), "invalid")
        ELSE [Filled(Consumed(d), <<w>>) EXCEPT !.count = IF h.counts THEN 1 ELSE @]
  BY Shared, StepsShared DEF Native!MappedScalar, Native!Counted, Native!Short
<1> DEFINE over1 == h.bounded /\ (v > h.hi \/ (h.kind = "signed" /\ v < h.lo))
           over2 == \/ f.kind = "unsigned" /\ h.bounded /\ x > h.hi
                    \/ f.kind = "signed" /\ h.bounded /\ (s < h.lo \/ s > Native!Signed(h.hi))
<1>10. over1 <=> over2
  BY <1>6
<1> HIDE DEF v, w, x, s, over1, over2
<1>11. CASE a < N(f)
  BY <1>8, <1>9, <1>11
<1>12. CASE ~(a < N(f)) /\ number /\ Malformed(x)
  BY <1>2, <1>8, <1>9, <1>12
<1>13. CASE ~(a < N(f)) /\ ~(number /\ Malformed(x))
  BY <1>2, <1>4, <1>7, <1>8, <1>9, <1>10, <1>13 DEF over1, over2
<1> QED BY <1>11, <1>12, <1>13

LEMMA MappedPayloadAlike ==
  ASSUME NEW f, NEW h, Offered(f, h), h.by = "row", f.kind \in Payloads, NEW a \in Nat,
         NEW d \in Decoders
  PROVE  Alike(Pure!MappedPayload(d, f, h, a), Native!MappedPayload(d, f, h, a))
<1> DEFINE e == Uncapped(d)
           p == IF f.kind = "text" THEN Pure!TakeStringInto(e, f, a, h.dst)
                ELSE Pure!TakeBlobInto(e, f, a, h.dst)
           n == IF f.kind = "text" THEN Native!TakeStringInto(e, f, a, h.dst)
                ELSE Native!TakeBlobInto(e, f, a, h.dst)
           counted(x, got) == [x EXCEPT !.count = IF h.counts THEN got ELSE @]
<1>1. f \in Fields /\ f.elems \in Seq(Int) /\ h.kind = f.kind /\ f.kind \in {"text", "blob"}
  BY RowsAre DEF Offered, Fields, Stores, Payloads
<1>2. e \in Decoders /\ Consumed(d) \in Decoders
  BY StepsTyped
<1>3. Alike(p, n) /\ p \in Decoders
  BY <1>1, <1>2, TakenAlike DEF Alike
<1>4. Pure!MappedPayload(d, f, h, a) =
        IF h.into
        THEN IF p.out = "complete" THEN counted(Consumed(Filled(p, f.elems)), N(f)) ELSE p
        ELSE IF d.capped THEN Ends(d, "limit")
        ELSE IF a < N(f) THEN Ends(d, "incomplete")
        ELSE IF f.kind = "text" /\ InvalidText(f) THEN Ends(Consumed(d), "invalid")
        ELSE counted(Consumed(Filled(d, f.elems)), 1)
  BY <1>1, Shared, StepsShared
     DEF Pure!MappedPayload, Pure!Stored, Pure!TakeInto, Pure!Short
<1>5. Native!MappedPayload(d, f, h, a) =
        IF h.into
        THEN IF n.out = "complete" THEN counted(n, N(f)) ELSE n
        ELSE IF d.capped THEN Ends(d, "limit")
        ELSE IF a < N(f) THEN Ends(d, "incomplete")
        ELSE IF f.kind = "text" /\ InvalidText(f) THEN Ends(Consumed(d), "invalid")
        ELSE counted(Filled(Consumed(d), f.elems), 1)
  BY <1>1, Shared, StepsShared DEF Native!MappedPayload, Native!Counted, Native!Short
<1>6. Filled(Consumed(d), f.elems) = Consumed(Filled(d, f.elems))
  BY <1>1, FilledConsumed
<1>7. p.out = "complete" => Consumed(Filled(p, f.elems)) = p
  <2> SUFFICES ASSUME p.out = "complete" PROVE Consumed(Filled(p, f.elems)) = p
    OBVIOUS
  <2> DEFINE q == Filled(e, f.elems)
  <2>1. p = Consumed(q)
    <3>1. \A o \in {"argument", "incomplete", "invalid"} : Ends(e, o).out # "complete"
      <4>1. \A o \in Outs : Ends(e, o).out = o
        <5> HIDE DEF e
        <5> QED BY <1>2 DEF Ends, Decoders
      <4> QED BY <4>1 DEF Outs
    <3> QED BY <3>1, StepsShared DEF Pure!TakeStringInto, Pure!TakeBlobInto
  <2>2. q \in Decoders
    BY <1>1, <1>2, StepsTyped
  <2>3. Filled(q, f.elems) = q
    BY <1>1, <1>2, FilledTwice
  <2>4. Filled(Consumed(q), f.elems) = Consumed(Filled(q, f.elems))
    BY <1>1, <2>2, FilledConsumed
  <2>5. Consumed(Consumed(q)) = Consumed(q)
    BY <2>2 DEF Consumed, Decoders
  <2> HIDE DEF p, q
  <2> QED BY <2>1, <2>3, <2>4, <2>5
<1>8. p.out # "complete" => n.out # "complete"
  BY <1>2, <1>3, StepsTyped DEF Alike
<1> HIDE DEF p, n, e, counted
<1> QED BY <1>3, <1>4, <1>5, <1>6, <1>7, <1>8 DEF Alike

LEMMA MappedArrayAlike ==
  ASSUME NEW f, NEW h, Offered(f, h), h.by = "row", ReadAlike(f, h),
         f.kind \in Integral \cup Floats, NEW a \in Nat, NEW d \in Decoders
  PROVE  Native!MappedArray(d, f, h, a) = Pure!MappedArray(d, f, h, a)
<1> DEFINE zigzag == f.kind = "signeds"
           lo == IF h.bounded /\ h.kind = "signeds" THEN <<h.lo>> ELSE <<>>
           hi == IF h.bounded THEN <<h.hi>> ELSE <<>>
           read == Pure!Looped(f, a, Values(f, zigzag), Bad(f, zigzag, lo, hi))
           clamped == [i \in DOMAIN read.values |-> IF read.values[i] > 1 THEN 1 ELSE read.values[i]]
           normal  == [i \in DOMAIN read.values |-> IF read.values[i] # 0 THEN 1 ELSE 0]
           counted(x, got) == [x EXCEPT !.count = IF h.counts THEN got ELSE @]
           p == IF h.kind = "flags" THEN clamped ELSE read.values
           n == IF h.kind = "flags" THEN normal ELSE read.values
           m == Filled(d, read.values)
<1>1. /\ h \in Rows /\ f \in Fields /\ f.elems \in Seq(Int)
      /\ (h.kind = "signeds" <=> zigzag) /\ (h.kind = "flags" => f.kind = "unsigneds")
  BY RowsAre DEF Offered, Fields, Stores, Integral, Floats
<1>2. zigzag \in BOOLEAN /\ Side(lo) /\ Side(hi)
  BY <1>1 DEF Side, Rows
<1> HIDE DEF lo, hi
<1>3. Pure!ReadVarints(f, a, lo, hi, zigzag) = read
  <2> HIDE DEF zigzag
  <2> QED BY <1>1, <1>2, PureReadIs
<1>4. Native!FillVarints(f, a, Bits, zigzag, h.bounded, h.lo, h.hi) = read
  <2> DEFINE bounded == h.bounded
             clo == h.lo
             chi == h.hi
             bits == Bits
  <2>1. /\ (lo # <<>> \/ hi # <<>>) = bounded
        /\ (zigzag /\ lo # <<>> => hi # <<>>) /\ (~zigzag => lo = <<>>)
        /\ bounded => /\ zigzag => clo = IF lo = <<>> THEN SignedMin ELSE lo[1]
                      /\ chi = IF hi = <<>> THEN UnsignedMax ELSE hi[1]
    BY <1>1 DEF lo, hi, Rows
  <2>2. zigzag /\ hi # <<>> => hi[1] <= SignedMax
    BY <1>1, Widths DEF hi, Rows
  <2>3. LowerFits(zigzag, lo)
    <3>1. lo # <<>> => lo[1] \in Word
      BY <1>1 DEF lo, Rows, Word
    <3> QED BY <2>1, <3>1 DEF LowerFits
  <2>4. Holds(bits, zigzag, lo, hi)
    BY DEF Holds
  <2> HIDE DEF zigzag, bounded, clo, chi, bits
  <2>5. Native!FillVarints(f, a, bits, zigzag, bounded, clo, chi) = read
    <3>1. /\ f \in Fields /\ zigzag \in BOOLEAN /\ Side(lo) /\ Side(hi)
          /\ Holds(bits, zigzag, lo, hi)
          /\ zigzag /\ hi # <<>> => hi[1] <= SignedMax
          /\ LowerFits(zigzag, lo)
          /\ zigzag /\ lo # <<>> => hi # <<>>
          /\ bounded = (lo # <<>> \/ hi # <<>>)
          /\ bounded => /\ zigzag => clo = IF lo = <<>> THEN SignedMin ELSE lo[1]
                        /\ chi = IF hi = <<>> THEN UnsignedMax ELSE hi[1]
      BY <1>1, <1>2, <2>1, <2>2, <2>3, <2>4
    <3> QED BY <3>1, NativeFillIs
  <2> QED BY <2>5 DEF bounded, clo, chi, bits
<1>5. /\ read.values \in Seq(Int) /\ read.out \in {"complete", "incomplete", "invalid"}
      /\ (read.out = "complete" => read.values = Values(f, zigzag))
  <2> DEFINE bad == Bad(f, zigzag, lo, hi)
  <2>1. bad \subseteq 1 .. N(f)
    BY DEF Bad
  <2> HIDE DEF bad, zigzag
  <2> QED BY <1>1, <1>2, <2>1, LoopedTyped DEF bad
<1>6. read.out = "complete" => p = n /\ p \in Seq(Int) /\ Len(p) = Len(read.values)
  <2> SUFFICES ASSUME read.out = "complete"
               PROVE  p = n /\ p \in Seq(Int) /\ Len(p) = Len(read.values)
    OBVIOUS
  <2> DEFINE v == Values(f, zigzag)
  <2>1. read.values = v /\ v \in Seq(Int) /\ Len(v) = N(f) /\ N(f) \in Nat
    BY <1>1, <1>2, <1>5, ValuesAre
  <2>2. h.kind = "flags" => \A i \in 1 .. N(f) : v[i] \in Nat
    BY <1>1, <1>2, Elements
  <2>3. DOMAIN read.values = 1 .. N(f)
    <3> HIDE DEF read, v
    <3> QED BY <2>1
  <2>4. h.kind = "flags" => clamped = normal /\ clamped \in [1 .. N(f) -> Int]
    <3> HIDE DEF read, v
    <3> QED BY <2>1, <2>2, <2>3
  <2> HIDE DEF read, v, clamped, normal
  <2>5. CASE h.kind = "flags"
    <3>1. p = clamped /\ n = clamped
      BY <2>4, <2>5
    <3>2. clamped \in Seq(Int) /\ Len(clamped) = N(f)
      BY <2>1, <2>4, <2>5, SeqDef
    <3> QED BY <2>1, <3>1, <3>2
  <2>6. CASE h.kind # "flags"
    <3>1. p = read.values /\ n = read.values
      BY <2>6
    <3> QED BY <2>1, <3>1
  <2> QED BY <2>5, <2>6
<1>7. Pure!MappedArray(d, f, h, a) =
        IF f.kind \in Floats
        THEN IF a < N(f) THEN Ends(d, "incomplete")
             ELSE counted(Consumed(Filled(d, f.elems)), N(f))
        ELSE IF read.out # "complete" THEN Ends(m, read.out)
        ELSE counted(Consumed(Filled(d, p)), N(f))
  <2> HIDE DEF read
  <2>1. Pure!ReadVarints(f, a, IF h.bounded /\ h.kind = "signeds" THEN <<h.lo>> ELSE <<>>,
                         IF h.bounded THEN <<h.hi>> ELSE <<>>, h.kind = "signeds") = read
    BY <1>1, <1>3 DEF lo, hi
  <2> QED BY <2>1, Shared, StepsShared, KindsShared DEF Pure!MappedArray, Pure!Stored, Pure!Short
<1>8. Native!MappedArray(d, f, h, a) =
        IF f.kind \in Floats
        THEN IF a < N(f) THEN Ends(d, "incomplete")
             ELSE counted(Filled(Consumed(d), f.elems), N(f))
        ELSE IF read.out # "complete" THEN Ends(m, read.out)
        ELSE counted(Filled(Consumed(m), n), N(f))
  <2> HIDE DEF read
  <2> QED BY <1>4, Shared, StepsShared, KindsShared
          DEF Native!MappedArray, Native!Counted, Native!NormalizeBools, Native!Short
<1>9. Filled(Consumed(d), f.elems) = Consumed(Filled(d, f.elems))
  BY <1>1, FilledConsumed
<1>10. read.out = "complete" => Filled(Consumed(m), n) = Consumed(Filled(d, p))
  <2> HIDE DEF read, p, n
  <2>1. m \in Decoders
    BY <1>5, StepsTyped
  <2>2. read.out = "complete" => Filled(m, p) = Filled(d, p)
    BY <1>5, <1>6, FilledTwice
  <2> HIDE DEF m
  <2> QED BY <1>6, <2>1, <2>2, FilledConsumed
<1> HIDE DEF read, p, n, m, counted
<1> QED BY <1>5, <1>7, <1>8, <1>9, <1>10

-----------------------------------------------------------------------------
(* What the rule says of a decoder behind a read of field f, answered h,   *)
(* the cap raised or not, a units there.                                   *)

Lands(f, h) == ByRow(h) \/ Buffer(f, h) # <<>>

(* How far the storage may have been written while a value is waited for.  *)
Front(f, h, a) == IF f.kind \in Integral /\ Lands(f, h) THEN a ELSE 0

Holding(m, f, k) ==
  \A i \in DOMAIN m :
    m[i] = Before \/ (i <= k /\ i <= N(f) /\ m[i] = Values(f, f.kind = "signeds")[i])

Stored(m, f, h, capped, a, out) ==
  \A i \in DOMAIN m :
    /\ m[i] # Before =>
         /\ Settled(f, h, capped) /\ i <= Seen(f, a) /\ Lands(f, h)
         /\ f.kind \in Integral \/ out = "complete"
         /\ m[i] = Sent(f, h)[i] \/ (h.kind = "flags" /\ out # "complete")
    /\ out = "complete" /\ Lands(f, h) => m[i] = (IF i <= N(f) THEN Sent(f, h)[i] ELSE Before)

Counted(f, h, out) ==
  IF out = "complete" /\ ByRow(h) /\ h.counts
  THEN (IF h.kind \in Payloads /\ ~h.into THEN 1 ELSE N(f)) ELSE -1

(* The hooks before a value is handed over.                                *)
Asked(calls, f, h) ==
  IF ByRow(h) THEN calls = <<>>
  ELSE /\ Len(calls) >= 1 /\ calls[1][1] = "on_field"
       /\ f.kind \in Countable => Len(calls) >= 2 /\ calls[2][1] = "on_schema_bound"
       /\ \A i \in DOMAIN calls :
            i > (IF f.kind \in Countable THEN 2 ELSE 1)
              => calls[i][1] \in Begins /\ f.kind \in Countable

Handed(calls, f, h, out) ==
  IF ~ByRow(h) /\ out = "complete" /\ Buffer(f, h) = <<>>
  THEN \E c \in Seq(HookNames \X Seq(Int)), m \in HookNames \ (First \cup Begins) :
         Asked(c, f, h) /\ calls = Append(c, <<m, Sent(f, h)>>)
  ELSE Asked(calls, f, h)

Obeys(r, f, h, capped, a) ==
  /\ r \in Decoders /\ r.out = Verdict(f, h, capped, a)
  /\ Stored(r.mem, f, h, capped, a, r.out)
  /\ r.count = Counted(f, h, r.out)
  /\ Handed(r.calls, f, h, r.out)
  /\ r.out = "incomplete" => ~r.capped /\ Holding(r.mem, f, Front(f, h, a))

(* A decoder in front of a read.                                           *)
Ready(d, f, h, capped, a) ==
  /\ d \in Decoders /\ d.count = -1 /\ Asked(d.calls, f, h)
  /\ Holding(d.mem, f, IF Settled(f, h, capped) THEN Front(f, h, a) ELSE 0)

LEMMA BeforeIs == Before \in Int
<1>1. Bits + 1 \in Nat
  BY WidthsAssumption
<1>2. 2^(Bits + 1) \in Nat
  BY <1>1, PowerCounts
<1> QED BY <1>2 DEF Before

LEMMA SentIs ==
  ASSUME NEW f, NEW h, Offered(f, h)
  PROVE  /\ Sent(f, h) \in Seq(Int) /\ Len(Sent(f, h)) = N(f) /\ N(f) \in Nat
         /\ \A i \in 1 .. N(f) :
              /\ f.kind \in Integral /\ (ByRow(h) => h.kind # "flags")
                   => Sent(f, h)[i] = Values(f, f.kind = "signeds")[i]
              /\ f.kind \notin Integral \cup {"signed"} /\ (ByRow(h) => h.kind # "boolean")
                   => Sent(f, h)[i] = f.elems[i]
<1>1. f \in Fields /\ N(f) \in Nat /\ f.elems \in Seq(Nat)
  BY DEF Offered, Fields, N
<1>2. ASSUME NEW i \in 1 .. N(f)
      PROVE  f.elems[i] \in Nat /\ Unzigzag(f.elems[i]) \in Int
  <2>1. f.elems[i] \in Nat
    BY <1>1 DEF N
  <2> QED BY <2>1, Zigzag
<1>3. Sent(f, h) \in [1 .. N(f) -> Int]
  BY <1>2 DEF Sent
<1>4. Sent(f, h) \in Seq(Int) /\ Len(Sent(f, h)) = N(f)
  BY <1>1, <1>3, SeqDef
<1>5. ASSUME NEW i \in 1 .. N(f)
      PROVE  /\ f.kind \in Integral /\ (ByRow(h) => h.kind # "flags")
                  => Sent(f, h)[i] = Values(f, f.kind = "signeds")[i]
             /\ f.kind \notin Integral \cup {"signed"} /\ (ByRow(h) => h.kind # "boolean")
                  => Sent(f, h)[i] = f.elems[i]
  <2>1. /\ ByRow(h) => h.by = "row" /\ Stores(h, f.kind)
        /\ f.kind \notin {"flags", "boolean"}
    BY <1>1, RowsAre DEF ByRow, Fields, Scalars, Countable, Payloads, Integral, Floats
  <2>2. f.kind \in Integral /\ (ByRow(h) => h.kind # "flags")
          => Sent(f, h)[i] = Values(f, f.kind = "signeds")[i]
    BY <1>1, <2>1 DEF Sent, Values, Integral, Stores
  <2>3. f.kind \notin Integral \cup {"signed"} /\ (ByRow(h) => h.kind # "boolean")
          => Sent(f, h)[i] = f.elems[i]
    BY <1>1, <2>1 DEF Sent, Integral, Stores
  <2> QED BY <2>2, <2>3
<1> QED BY <1>1, <1>4, <1>5

LEMMA FilledAt ==
  ASSUME NEW d \in Decoders, NEW s \in Seq(Int)
  PROVE  /\ Filled(d, s) \in Decoders /\ Filled(d, s).mem \in Seq(Int)
         /\ \A i \in DOMAIN Filled(d, s).mem :
              /\ i \in Nat \ {0}
              /\ i <= Len(s) => Filled(d, s).mem[i] = s[i]
              /\ i > Len(s) => i \in DOMAIN d.mem /\ Filled(d, s).mem[i] = d.mem[i]
<1> DEFINE m == d.mem
           q == SubSeq(m, Len(s) + 1, Len(m))
           r == s \o q
<1>1. m \in Seq(Int)
  BY DEF Decoders
<1>2. q \in Seq(Int) /\ Len(q) = IF Len(s) + 1 <= Len(m) THEN Len(m) - Len(s) ELSE 0
  <2> HIDE DEF m
  <2> QED BY <1>1
<1>3. \A i \in 1 .. Len(q) : q[i] = m[Len(s) + i] /\ Len(s) + i \in DOMAIN m
  <2> HIDE DEF m
  <2> QED BY <1>1
<1> HIDE DEF q
<1>4. /\ r \in Seq(Int) /\ Len(r) = Len(s) + Len(q) /\ Len(s) \in Nat /\ Len(q) \in Nat
      /\ \A i \in 1 .. Len(s) + Len(q) : r[i] = IF i <= Len(s) THEN s[i] ELSE q[i - Len(s)]
  <2>1. q \in Seq(Int)
    BY <1>2
  <2>2. /\ r \in Seq(Int) /\ Len(r) = Len(s) + Len(q)
        /\ \A i \in 1 .. Len(s) + Len(q) : r[i] = IF i <= Len(s) THEN s[i] ELSE q[i - Len(s)]
    BY <2>1, ConcatProperties, Zenon
  <2>3. Len(s) \in Nat /\ Len(q) \in Nat
    BY <2>1
  <2> QED BY <2>2, <2>3
<1>5. ASSUME NEW i \in DOMAIN r
      PROVE  /\ i \in Nat \ {0}
             /\ i <= Len(s) => r[i] = s[i]
             /\ i > Len(s) => i \in DOMAIN m /\ r[i] = m[i]
  <2>1. i \in 1 .. Len(s) + Len(q)
    <3> HIDE DEF r
    <3> QED BY <1>4
  <2>2. i <= Len(s) => r[i] = s[i]
    BY <1>4, <2>1
  <2>3. ASSUME i > Len(s) PROVE i \in DOMAIN m /\ r[i] = m[i]
    <3> DEFINE j == i - Len(s)
    <3>1. j \in 1 .. Len(q) /\ r[i] = q[j] /\ Len(s) + j = i
      BY <1>4, <2>1, <2>3
    <3> HIDE DEF j, r
    <3> QED BY <1>3, <3>1
  <2> QED BY <2>1, <2>2, <2>3
<1>6. Filled(d, s).mem = r
  BY DEF Filled, Decoders, q
<1>7. Filled(d, s) \in Decoders
  BY StepsTyped
<1> HIDE DEF r, m
<1> QED BY <1>4, <1>5, <1>6, <1>7 DEF m

(* A call more among the calls.                                            *)
LEMMA AskedMore ==
  ASSUME NEW c \in Seq(HookNames \X Seq(Int)), NEW f, NEW h, ~ByRow(h), Asked(c, f, h),
         NEW m \in Begins, NEW x \in Seq(Int), f.kind \in Countable
  PROVE  Append(c, <<m, x>>) \in Seq(HookNames \X Seq(Int)) /\ Asked(Append(c, <<m, x>>), f, h)
<1> DEFINE e == Append(c, <<m, x>>)
<1>1. m \in HookNames
  BY DEF Begins, HookNames
<1>2. e \in Seq(HookNames \X Seq(Int)) /\ Len(e) = Len(c) + 1
  BY <1>1
<1>3. \A i \in 1 .. Len(c) : e[i] = c[i]
  OBVIOUS
<1>4. e[Len(c) + 1] = <<m, x>>
  OBVIOUS
<1>5. Len(c) >= 2 /\ Len(c) \in Nat /\ c[1][1] = "on_field" /\ c[2][1] = "on_schema_bound"
  BY DEF Asked
<1> HIDE DEF e
<1>6. Len(e) >= 2 /\ e[1][1] = "on_field" /\ e[2][1] = "on_schema_bound"
  <2>1. 1 \in 1 .. Len(c) /\ 2 \in 1 .. Len(c)
    BY <1>5
  <2>2. e[1] = c[1] /\ e[2] = c[2]
    BY <1>3, <2>1
  <2> QED BY <1>2, <1>5, <2>2
<1>7. ASSUME NEW i \in DOMAIN e, i > 2 PROVE e[i][1] \in Begins
  <2>1. CASE i <= Len(c)
    <3>1. i \in DOMAIN c /\ e[i] = c[i]
      BY <1>2, <1>3, <2>1
    <3> QED BY <1>7, <3>1 DEF Asked
  <2>2. CASE i > Len(c)
    <3>1. i = Len(c) + 1
      BY <1>2, <2>2
    <3> QED BY <1>4, <3>1
  <2> QED BY <1>2, <2>1, <2>2
<1>8. Asked(e, f, h)
  BY <1>2, <1>6, <1>7 DEF Asked
<1> QED BY <1>2, <1>8 DEF e

(* A read that ends without a value.                                       *)
LEMMA EndsObeys ==
  ASSUME NEW f, NEW h, Offered(f, h), NEW capped, NEW a \in Nat, NEW d, Ready(d, f, h, capped, a),
         NEW out, out = Verdict(f, h, capped, a), out # "complete", out \in Outs,
         out = "incomplete" => ~d.capped
  PROVE  Obeys(Ends(d, out), f, h, capped, a) /\ Obeys(Ends(Consumed(d), out), f, h, capped, a)
<1>1. ASSUME NEW e, e = d \/ e = Consumed(d)
      PROVE  Obeys(Ends(e, out), f, h, capped, a)
  <2> DEFINE r == Ends(e, out)
  <2>1. e \in Decoders /\ e.mem = d.mem /\ e.count = -1 /\ e.calls = d.calls /\ e.capped = d.capped
    BY <1>1 DEF Ready, Consumed, Decoders
  <2>2. /\ r \in Decoders /\ r.out = out /\ r.mem = d.mem /\ r.count = -1
        /\ r.calls = d.calls /\ r.capped = d.capped
    BY <2>1 DEF Ends, Decoders
  <2> HIDE DEF r
  <2>3. Stored(d.mem, f, h, capped, a, out)
    <3> SUFFICES ASSUME NEW i \in DOMAIN d.mem, d.mem[i] # Before
                 PROVE  /\ Settled(f, h, capped) /\ i <= Seen(f, a) /\ Lands(f, h)
                        /\ f.kind \in Integral \/ out = "complete"
                        /\ d.mem[i] = Sent(f, h)[i] \/ (h.kind = "flags" /\ out # "complete")
      BY DEF Stored
    <3>1. i \in Nat \ {0}
      BY DEF Ready, Decoders
    <3>2. Settled(f, h, capped)
      BY <3>1 DEF Ready, Holding
    <3>3. f.kind \in Integral /\ Lands(f, h) /\ i <= a /\ i <= N(f)
          /\ d.mem[i] = Values(f, f.kind = "signeds")[i]
      BY <3>1, <3>2 DEF Ready, Holding, Front
    <3>4. f.kind \notin Whole
      BY <3>3 DEF Integral, Whole, Fixlen, Payloads, Floats
    <3>5. ~(ByRow(h) /\ h.kind = "flags") => d.mem[i] = Sent(f, h)[i]
      <4>1. i \in 1 .. N(f)
        BY <3>1, <3>3, SentIs
      <4> QED BY <3>3, <4>1, SentIs
    <3> QED BY <3>2, <3>3, <3>4, <3>5 DEF Seen
  <2>4. Counted(f, h, out) = -1 /\ Handed(d.calls, f, h, out)
    BY DEF Counted, Handed, Ready
  <2>5. out = "incomplete" => Holding(d.mem, f, Front(f, h, a))
    <3> SUFFICES ASSUME out = "incomplete" PROVE Settled(f, h, capped)
      BY DEF Ready
    <3> QED BY DEF Verdict, Settled
  <2> QED BY <2>2, <2>3, <2>4, <2>5 DEF Obeys, r
<1> QED BY <1>1

(* A value handed over.                                                    *)
LEMMA DeliveredObeys ==
  ASSUME NEW f, NEW h, Offered(f, h), NEW capped, NEW a \in Nat, NEW d, Ready(d, f, h, capped, a),
         Verdict(f, h, capped, a) = "complete", d.out = "complete",
         ~ByRow(h), Buffer(f, h) = <<>>, NEW m \in HookNames \ (First \cup Begins)
  PROVE  Obeys(Delivered(d, m, Sent(f, h)), f, h, capped, a)
<1> DEFINE x == Sent(f, h)
           r == Delivered(d, m, x)
           c == d.calls
<1>1. d \in Decoders /\ x \in Seq(Int)
  BY SentIs DEF Ready
<1>2. /\ r \in Decoders /\ r.out = "complete" /\ r.mem = d.mem /\ r.count = -1
      /\ r.calls = Append(c, <<m, x>>) /\ c \in Seq(HookNames \X Seq(Int))
  <2>1. Append(c, <<m, x>>) \in Seq(HookNames \X Seq(Int)) /\ c \in Seq(HookNames \X Seq(Int))
    BY <1>1 DEF Decoders
  <2> HIDE DEF x
  <2> QED BY <1>1, <2>1 DEF Delivered, Told, Consumed, Decoders, Ready
<1>3. Front(f, h, a) = 0 /\ ~Lands(f, h)
  BY DEF Front, Lands
<1>4. \A i \in DOMAIN d.mem : d.mem[i] = Before
  <2> TAKE i \in DOMAIN d.mem
  <2>1. i \in Nat \ {0}
    BY <1>1 DEF Decoders
  <2> QED BY <1>3, <2>1 DEF Ready, Holding
<1>5. Stored(d.mem, f, h, capped, a, "complete")
  BY <1>3, <1>4 DEF Stored
<1>6. Handed(r.calls, f, h, "complete")
  <2>1. Asked(c, f, h)
    BY DEF Ready
  <2> HIDE DEF r, c
  <2> QED BY <1>2, <2>1 DEF Handed
<1>7. Counted(f, h, "complete") = -1
  BY DEF Counted
<1> HIDE DEF r
<1> QED BY <1>2, <1>5, <1>6, <1>7 DEF Obeys, r

(* A value stored, whole, and counted where a row asks for it.             *)
LEMMA FilledObeys ==
  ASSUME NEW f, NEW h, Offered(f, h), NEW capped, NEW a \in Nat, NEW d, Ready(d, f, h, capped, a),
         Verdict(f, h, capped, a) = "complete", d.out = "complete", Lands(f, h)
  PROVE  LET r == Consumed(Filled(d, Sent(f, h)))
         IN /\ ~ByRow(h) => Obeys(r, f, h, capped, a)
            /\ ByRow(h) => Obeys([r EXCEPT !.count = Counted(f, h, "complete")], f, h, capped, a)
<1> DEFINE x == Sent(f, h)
           e == Filled(d, x)
           r == Consumed(e)
           q == [r EXCEPT !.count = Counted(f, h, "complete")]
<1>1. d \in Decoders /\ x \in Seq(Int) /\ Len(x) = N(f) /\ N(f) \in Nat
  BY SentIs DEF Ready
<1>2. /\ e \in Decoders
      /\ \A i \in DOMAIN e.mem :
           /\ i \in Nat \ {0}
           /\ i <= N(f) => e.mem[i] = x[i]
           /\ i > N(f) => i \in DOMAIN d.mem /\ e.mem[i] = d.mem[i]
  <2> HIDE DEF x
  <2> QED BY <1>1, FilledAt
<1>3. e.out = "complete" /\ e.count = -1 /\ e.calls = d.calls
  BY <1>1 DEF Filled, Decoders, Ready
<1>4. a >= N(f) /\ Settled(f, h, capped)
  BY <1>1 DEF Verdict, Settled
<1>5. Counted(f, h, "complete") \in Int
  BY <1>1 DEF Counted
<1> HIDE DEF e, x
<1>6. r \in Decoders /\ r.out = "complete" /\ r.mem = e.mem /\ r.count = -1 /\ r.calls = d.calls
  BY <1>2, <1>3 DEF Consumed, Decoders
<1>7. Stored(e.mem, f, h, capped, a, "complete")
  <2> SUFFICES ASSUME NEW i \in DOMAIN e.mem
               PROVE  /\ e.mem[i] # Before => i <= Seen(f, a) /\ e.mem[i] = x[i]
                      /\ e.mem[i] = (IF i <= N(f) THEN x[i] ELSE Before)
    BY <1>4 DEF Stored, x
  <2>1. i \in Nat \ {0} /\ Seen(f, a) >= N(f)
    BY <1>1, <1>2, <1>4 DEF Seen
  <2>2. CASE i <= N(f)
    <3>1. Seen(f, a) = a
      BY <1>1, <1>4 DEF Seen
    <3> QED BY <1>1, <1>2, <1>4, <2>1, <2>2, <3>1
  <2>3. CASE i > N(f)
    <3>1. i \in DOMAIN d.mem /\ e.mem[i] = d.mem[i]
      BY <1>2, <2>3
    <3>2. d.mem[i] = Before
      BY <1>1, <2>1, <2>3, <3>1 DEF Ready, Holding
    <3> QED BY <1>1, <2>1, <2>3, <3>1, <3>2
  <2> QED BY <1>1, <2>1, <2>2, <2>3
<1>8. Handed(d.calls, f, h, "complete")
  BY DEF Handed, Ready, Lands
<1> HIDE DEF r
<1>9. ASSUME ~ByRow(h) PROVE Obeys(r, f, h, capped, a)
  BY <1>6, <1>7, <1>8, <1>9 DEF Obeys, Counted
<1>10. /\ q \in Decoders /\ q.out = "complete" /\ q.mem = e.mem /\ q.calls = d.calls
       /\ q.count = Counted(f, h, "complete")
  BY <1>5, <1>6 DEF Decoders
<1> HIDE DEF q
<1>11. Obeys(q, f, h, capped, a)
  BY <1>7, <1>8, <1>10 DEF Obeys
<1> QED BY <1>9, <1>11 DEF q, r, e, x

(* The elements in front of the first that is missing or refused.          *)
LEMMA PartlyObeys ==
  ASSUME NEW f, NEW h, Offered(f, h), NEW capped, NEW a \in Nat, a <= N(f),
         NEW d, Ready(d, f, h, capped, a),
         NEW out, out = Verdict(f, h, capped, a), out \in {"incomplete", "invalid"},
         ~d.capped, Lands(f, h), f.kind \in Integral, Settled(f, h, capped),
         NEW x \in Seq(Int), Len(x) <= a,
         \A i \in 1 .. Len(x) : x[i] = Values(f, f.kind = "signeds")[i]
  PROVE  Obeys(Ends(Filled(d, x), out), f, h, capped, a)
<1> DEFINE e == Filled(d, x)
<1>1. d \in Decoders /\ N(f) \in Nat
  BY SentIs DEF Ready
<1>2. /\ e \in Decoders
      /\ \A i \in DOMAIN e.mem :
           /\ i \in Nat \ {0}
           /\ i <= Len(x) => e.mem[i] = x[i]
           /\ i > Len(x) => i \in DOMAIN d.mem /\ e.mem[i] = d.mem[i]
  BY <1>1, FilledAt
<1>3. e.count = -1 /\ e.calls = d.calls /\ e.capped = d.capped
  BY <1>1 DEF Filled, Decoders, Ready
<1> HIDE DEF e
<1>4. Front(f, h, a) = a
  BY DEF Front
<1>5. Holding(e.mem, f, a)
  <2> SUFFICES ASSUME NEW i \in DOMAIN e.mem
               PROVE  e.mem[i] = Before \/ (i <= a /\ i <= N(f)
                                            /\ e.mem[i] = Values(f, f.kind = "signeds")[i])
    BY DEF Holding
  <2>1. CASE i <= Len(x)
    <3>1. i \in 1 .. Len(x)
      BY <1>2, <2>1
    <3> QED BY <1>1, <1>2, <2>1, <3>1
  <2>2. CASE i > Len(x)
    BY <1>2, <1>4, <2>2 DEF Ready, Holding
  <2> QED BY <1>2, <2>1, <2>2
<1>6. Ready(e, f, h, capped, a)
  BY <1>2, <1>3, <1>4, <1>5 DEF Ready
<1> QED BY <1>3, <1>6, EndsObeys DEF e, Outs

-----------------------------------------------------------------------------
(* A loop, by what is refused.                                             *)

LEMMA OutcomeIs ==
  ASSUME NEW f \in Fields, NEW a \in Nat, a <= N(f), NEW bad, bad \subseteq 1 .. N(f)
  PROVE  /\ Outcome(f, a, bad) = IF \E i \in 1 .. a : i \in bad THEN "invalid"
                                 ELSE IF a < N(f) THEN "incomplete" ELSE "complete"
         /\ Stop(f, a, bad) - 1 <= a
<1> DEFINE n == Stop(f, a, bad)
<1>1. /\ N(f) \in Nat /\ n \in 1 .. N(f) + 1
      /\ \A i \in 1 .. n - 1 : i \notin bad /\ i <= a
      /\ n <= N(f) => n \in bad \/ n > a
  BY Stops
<1>2. Outcome(f, a, bad) = IF n > N(f) THEN "complete" ELSE IF n > a THEN "incomplete" ELSE "invalid"
  BY DEF Outcome
<1> HIDE DEF n
<1>3. n - 1 <= a
  <2>1. CASE n = 1
    BY <2>1
  <2>2. CASE n > 1
    <3>1. n - 1 \in 1 .. n - 1
      BY <1>1, <2>2
    <3> QED BY <1>1, <3>1
  <2> QED BY <1>1, <2>1, <2>2
<1>4. CASE \E i \in 1 .. a : i \in bad
  <2>1. PICK i \in 1 .. a : i \in bad
    BY <1>4
  <2>2. n <= i
    BY <1>1, <2>1
  <2> QED BY <1>1, <1>2, <1>3, <1>4, <2>1, <2>2 DEF n
<1>5. CASE ~\E i \in 1 .. a : i \in bad
  <2>1. n > a
    BY <1>1, <1>5
  <2> QED BY <1>1, <1>2, <1>3, <1>5, <2>1 DEF n
<1> QED BY <1>4, <1>5

-----------------------------------------------------------------------------
(* The handler's route, by the rule.                                       *)

(* A decoder whose bound has been settled.                                 *)
Entered(d, f, h, capped, a) ==
  /\ Ready(d, f, h, capped, a) /\ d.out = "complete" /\ ~TooMany(f, h)
  /\ Buffer(f, h) = <<>> => d.capped = AboveCap(f, h, capped)
  /\ f.kind \in Scalars => ~d.capped /\ ~capped

LEMMA AskedReady ==
  ASSUME NEW f, NEW h, Offered(f, h), ~ByRow(h), f.kind \in Countable, NEW capped, NEW a,
         NEW d, Ready(d, f, h, capped, a), NEW m \in Begins
  PROVE  LET e == Told(d, m, <<N(f)>>)
         IN Ready(e, f, h, capped, a) /\ e.out = d.out /\ e.capped = d.capped
<1> DEFINE e == Told(d, m, <<N(f)>>)
           c == d.calls
<1>1. d \in Decoders /\ c \in Seq(HookNames \X Seq(Int)) /\ Asked(c, f, h) /\ <<N(f)>> \in Seq(Int)
  BY SentIs DEF Ready, Decoders
<1> HIDE DEF c
<1>2. /\ Append(c, <<m, <<N(f)>>>>) \in Seq(HookNames \X Seq(Int))
      /\ Asked(Append(c, <<m, <<N(f)>>>>), f, h)
  BY <1>1, AskedMore
<1>3. /\ e \in Decoders /\ e.out = d.out /\ e.capped = d.capped /\ e.mem = d.mem
      /\ e.count = d.count /\ e.calls = Append(c, <<m, <<N(f)>>>>)
  BY <1>1, <1>2 DEF Told, Decoders, c
<1> HIDE DEF e
<1> QED BY <1>2, <1>3 DEF Ready, e

LEMMA UncappedReady ==
  ASSUME NEW f, NEW h, NEW capped, NEW a, NEW d, Ready(d, f, h, capped, a)
  PROVE  LET e == Uncapped(d)
         IN Ready(e, f, h, capped, a) /\ e.out = d.out /\ ~e.capped
<1> DEFINE e == Uncapped(d)
<1>1. /\ e \in Decoders /\ e.out = d.out /\ ~e.capped /\ e.mem = d.mem
      /\ e.count = d.count /\ e.calls = d.calls
  BY DEF Uncapped, Decoders, Ready
<1> HIDE DEF e
<1> QED BY <1>1 DEF Ready, e

LEMMA HookRefuses ==
  ASSUME NEW f, NEW h, Offered(f, h), h.by = "hooks", NEW i \in 1 .. N(f)
  PROVE  /\ f.kind \in Integral
              => (Refused(f, h, i) <=> i \in Bad(f, f.kind = "signeds", h.lo, h.hi))
         /\ f.kind \notin Integral
              => (Refused(f, h, i) <=> f.kind \in {"unsigned", "signed", "text"}
                                       /\ Malformed(f.elems[i]))
<1>1. ~ByRow(h)
  BY DEF ByRow
<1>2. CASE f.kind \in Integral
  <2>1. Sent(f, h)[i] = Values(f, f.kind = "signeds")[i]
    BY <1>1, <1>2, SentIs
  <2>2. f.kind \notin {"float32", "float64", "blob"} \cup Floats
    BY <1>2 DEF Integral, Floats
  <2> QED BY <1>1, <1>2, <2>1, <2>2 DEF Refused, Lower, Upper, Bad, Outside
<1>3. CASE f.kind \notin Integral
  <2>1. Lower(f, h) = <<>> /\ Upper(f, h) = <<>>
    BY <1>1, <1>3 DEF Lower, Upper
  <2>2. f.kind \in Scalars \cup Payloads \cup Integral \cup Floats
    BY DEF Offered, Fields, Countable
  <2> QED BY <1>3, <2>1, <2>2 DEF Refused, Scalars, Payloads, Integral, Floats
<1> QED BY <1>2, <1>3

LEMMA ScalarObeys ==
  ASSUME NEW f, NEW h, Offered(f, h), h.by = "hooks", f.kind \in Scalars, NEW capped,
         NEW a \in Nat, a <= N(f), NEW d, Entered(d, f, h, capped, a)
  PROVE  Obeys(Pure!VisitScalar(d, f, h, a), f, h, capped, a)
<1> DEFINE x == f.elems[1]
           v == Verdict(f, h, capped, a)
           number == f.kind \in {"unsigned", "signed"}
           m == IF f.kind = "unsigned" THEN "on_unsigned" ELSE IF f.kind = "signed" THEN "on_signed"
                ELSE IF f.kind = "float64" THEN "on_float64"
                ELSE IF h.bits THEN "on_float32_bits" ELSE "on_float32"
           y == IF f.kind = "signed" THEN <<Unzigzag(x)>> ELSE f.elems
<1>1. /\ f \in Fields /\ N(f) = 1 /\ ~ByRow(h) /\ Buffer(f, h) = <<>>
      /\ Ready(d, f, h, capped, a) /\ d.out = "complete" /\ ~d.capped /\ ~capped
  BY DEF Offered, ByRow, Buffer, Entered
<1>2. /\ ~TooMany(f, h) /\ ~BadBuffer(f, h) /\ ~AboveCap(f, h, capped)
  BY <1>1 DEF Entered, BadBuffer, AboveCap
<1>3. f.kind \notin Integral /\ f.kind \in {"unsigned", "signed", "float32", "float64"}
  BY DEF Scalars, Integral
<1>4. Refused(f, h, 1) <=> number /\ Malformed(x)
  BY <1>1, <1>3, HookRefuses
<1>5. v = IF a < 1 THEN "incomplete" ELSE IF number /\ Malformed(x) THEN "invalid" ELSE "complete"
  <2>1. CASE a < 1
    BY <1>1, <1>2, <2>1 DEF Verdict, Seen
  <2>2. CASE a = 1
    <3>1. Seen(f, a) = 1
      BY <1>1, <2>2 DEF Seen
    <3>2. (\E i \in 1 .. Seen(f, a) : Refused(f, h, i)) <=> number /\ Malformed(x)
      BY <1>4, <3>1
    <3> HIDE DEF number, x
    <3> QED BY <1>1, <1>2, <2>2, <3>2 DEF Verdict
  <2> QED BY <1>1, <2>1, <2>2
<1>6. y = Sent(f, h)
  <2>1. f.elems \in Seq(Nat) /\ Len(f.elems) = 1
    BY <1>1 DEF Fields, N
  <2>2. f.elems = <<x>> /\ x \in Nat
    BY <2>1
  <2>3. Sent(f, h) = [i \in 1 .. 1 |-> IF f.kind = "signed" THEN Unzigzag(f.elems[i]) ELSE f.elems[i]]
    BY <1>1, <1>3 DEF Sent
  <2>4. Sent(f, h) \in Seq(Int) /\ Len(Sent(f, h)) = 1 /\ Sent(f, h)[1] = y[1]
    BY <1>1, <2>2, <2>3, SentIs
  <2>5. Unzigzag(x) \in Int
    BY <2>2, Zigzag
  <2>6. y \in Seq(Int) /\ Len(y) = 1
    BY <2>1, <2>2, <2>5
  <2> HIDE DEF y
  <2> QED BY <2>4, <2>6, SeqEqual
<1>7. m \in HookNames \ (First \cup Begins)
  BY DEF HookNames, First, Begins
<1>8. Pure!VisitScalar(d, f, h, a) =
        IF a < N(f) THEN Ends(d, "incomplete")
        ELSE IF number /\ Malformed(x) THEN Ends(d, "invalid")
        ELSE Delivered(d, m, y)
  BY <1>3, Shared, StepsShared DEF Pure!VisitScalar, Pure!Short
<1> HIDE DEF y, m, number, x
<1>9. CASE v \in {"incomplete", "invalid"}
  <2>1. Obeys(Ends(d, v), f, h, capped, a)
    BY <1>1, <1>9, EndsObeys DEF Outs
  <2> QED BY <1>1, <1>5, <1>8, <1>9, <2>1
<1>10. CASE v = "complete"
  <2>1. Obeys(Delivered(d, m, Sent(f, h)), f, h, capped, a)
    BY <1>1, <1>7, <1>10, DeliveredObeys
  <2> QED BY <1>1, <1>5, <1>6, <1>8, <1>10, <2>1
<1> QED BY <1>5, <1>9, <1>10

(* A string or a blob, whoever reads it.                                   *)
LEMMA PayloadRule ==
  ASSUME NEW f, NEW h, Offered(f, h), f.kind \in Payloads, NEW capped, NEW a \in Nat, a <= N(f)
  PROVE  /\ f \in Fields /\ f.elems \in Seq(Int) /\ N(f) \in Nat /\ Sent(f, h) = f.elems
         /\ Settled(f, h, capped) =>
              Verdict(f, h, capped, a)
                = IF a < N(f) THEN "incomplete"
                  ELSE IF f.kind = "text" /\ InvalidText(f) THEN "invalid" ELSE "complete"
         /\ \A dst : Unusable(f, h, dst)
                       <=> ~dst.writable \/ dst.bits # ByteBits \/ dst.slots < N(f)
         /\ f.kind \in Countable /\ f.kind \notin Scalars /\ f.kind \notin Integral
<1>1. f \in Fields /\ f.elems \in Seq(Int) /\ N(f) \in Nat
  BY DEF Offered, Fields, N
<1>2. /\ f.kind \in {"text", "blob"} /\ f.kind \notin Integral /\ f.kind \notin Floats
      /\ f.kind \in Countable /\ f.kind \in Whole /\ f.kind \notin Scalars
  BY DEF Payloads, Integral, Floats, Countable, Whole, Fixlen, Scalars
<1>3. ByRow(h) => h.by = "row" /\ h.kind = f.kind /\ h.bounded = FALSE
  <2> SUFFICES ASSUME ByRow(h) PROVE h.by = "row" /\ h.kind = f.kind /\ h.bounded = FALSE
    OBVIOUS
  <2>1. h \in Rows /\ Stores(h, f.kind) /\ h.by = "row"
    BY RowsAre DEF ByRow
  <2>2. h.kind = f.kind
    BY <1>2, <2>1 DEF Stores
  <2> QED BY <1>2, <2>1, <2>2 DEF Rows, Integral
<1>4. Sent(f, h) = f.elems
  <2>1. Sent(f, h) \in Seq(Int) /\ Len(Sent(f, h)) = N(f) /\ Len(f.elems) = N(f)
    BY SentIs DEF N
  <2>2. \A i \in 1 .. N(f) : Sent(f, h)[i] = f.elems[i]
    BY <1>2, <1>3, SentIs
  <2> QED BY <1>1, <2>1, <2>2, SeqEqual
<1>5. Lower(f, h) = <<>> /\ Upper(f, h) = <<>>
  BY <1>2, <1>3 DEF Lower, Upper
<1>6. \A i : Refused(f, h, i) <=> f.kind = "text" /\ Malformed(f.elems[i])
  BY <1>2, <1>5 DEF Refused
<1>7. ASSUME Settled(f, h, capped)
      PROVE  Verdict(f, h, capped, a)
                = IF a < N(f) THEN "incomplete"
                  ELSE IF f.kind = "text" /\ InvalidText(f) THEN "invalid" ELSE "complete"
  <2>1. CASE a < N(f)
    <3>1. ~\E i \in 1 .. Seen(f, a) : Refused(f, h, i)
      BY <1>2, <2>1 DEF Seen
    <3> QED BY <1>7, <2>1, <3>1 DEF Verdict, Settled
  <2>2. CASE a = N(f)
    <3>1. Seen(f, a) = N(f)
      BY <1>1, <2>2 DEF Seen
    <3>2. (\E i \in 1 .. Seen(f, a) : Refused(f, h, i)) <=> f.kind = "text" /\ InvalidText(f)
      BY <1>6, <3>1 DEF InvalidText
    <3> QED BY <1>1, <1>7, <2>2, <3>2 DEF Verdict, Settled
  <2> QED BY <1>1, <2>1, <2>2
<1>8. \A dst : Unusable(f, h, dst)
                 <=> ~dst.writable \/ dst.bits # ByteBits \/ dst.slots < N(f)
  BY <1>2 DEF Unusable
<1> QED BY <1>1, <1>2, <1>4, <1>7, <1>8

LEMMA TakenObeys ==
  ASSUME NEW f, NEW h, Offered(f, h), f.kind \in Payloads, NEW capped, NEW a \in Nat, a <= N(f),
         NEW d, Ready(d, f, h, capped, a), d.out = "complete", ~d.capped,
         ~TooMany(f, h), Buffer(f, h) # <<>>
  PROVE  LET r == Pure!TakeInto(d, f, a, Buffer(f, h)[1])
         IN IF Verdict(f, h, capped, a) = "complete"
            THEN r = Consumed(Filled(d, Sent(f, h)))
            ELSE r.out # "complete" /\ Obeys(r, f, h, capped, a)
<1> DEFINE dst == Buffer(f, h)[1]
           r == Pure!TakeInto(d, f, a, dst)
           v == Verdict(f, h, capped, a)
           unusable == ~dst.writable \/ dst.bits # ByteBits \/ dst.slots < N(f)
<1>1. BadBuffer(f, h) <=> unusable
  BY PayloadRule DEF BadBuffer
<1>2. r = IF unusable THEN Ends(d, "argument")
          ELSE IF a < N(f) THEN Ends(d, "incomplete")
          ELSE IF f.kind = "text" /\ InvalidText(f) THEN Ends(d, "invalid")
          ELSE Consumed(Filled(d, f.elems))
  <2> HIDE DEF dst
  <2> QED BY Shared, StepsShared
          DEF Pure!TakeInto, Pure!TakeStringInto, Pure!TakeBlobInto, Pure!Short, Payloads
<1>3. v = IF unusable THEN "argument"
          ELSE IF a < N(f) THEN "incomplete"
          ELSE IF f.kind = "text" /\ InvalidText(f) THEN "invalid" ELSE "complete"
  <2> HIDE DEF unusable
  <2>1. ~AboveCap(f, h, capped)
    BY DEF AboveCap
  <2>2. CASE unusable
    BY <1>1, <2>2 DEF Verdict
  <2>3. CASE ~unusable
    <3>1. Settled(f, h, capped)
      BY <1>1, <2>1, <2>3 DEF Settled
    <3> QED BY <2>3, <3>1, PayloadRule
  <2> QED BY <2>2, <2>3
<1>4. Sent(f, h) = f.elems /\ N(f) \in Nat
  BY PayloadRule
<1>5. \A o \in Outs : o = v /\ o # "complete" => Obeys(Ends(d, o), f, h, capped, a)
                                                 /\ Ends(d, o).out = o
  <2> TAKE o \in Outs
  <2> HAVE o = v /\ o # "complete"
  <2> HIDE DEF v
  <2>1. Obeys(Ends(d, o), f, h, capped, a)
    BY EndsObeys DEF v
  <2>2. Ends(d, o).out = o
    BY DEF Ends, Ready, Decoders
  <2> QED BY <2>1, <2>2
<1> HIDE DEF r, unusable
<1>6. v # "complete" => r = Ends(d, v) /\ v \in Outs
  BY <1>2, <1>3 DEF Outs
<1>7. v = "complete" => r = Consumed(Filled(d, f.elems))
  BY <1>2, <1>3
<1> HIDE DEF v
<1> QED BY <1>4, <1>5, <1>6, <1>7 DEF r, v

LEMMA PayloadObeys ==
  ASSUME NEW f, NEW h, Offered(f, h), h.by = "hooks", f.kind \in Payloads, NEW capped,
         NEW a \in Nat, a <= N(f), NEW d, Entered(d, f, h, capped, a)
  PROVE  Obeys(Pure!VisitPayload(d, f, h, a), f, h, capped, a)
<1> DEFINE m == IF f.kind = "text" THEN "on_string_begin" ELSE "on_blob_begin"
           k == IF f.kind = "text" THEN "on_string" ELSE "on_bytes"
           asked == Told(d, m, <<N(f)>>)
           e == Uncapped(asked)
           v == Verdict(f, h, capped, a)
<1>1. /\ ~ByRow(h) /\ Sent(f, h) = f.elems /\ f.kind \in Countable /\ N(f) \in Nat
      /\ Buffer(f, h) = h.dst
  <2>1. ~ByRow(h) /\ ~Raw(f, h)
    BY DEF ByRow, Raw, Payloads
  <2> QED BY <2>1, PayloadRule DEF Buffer
<1>2. m \in Begins /\ k \in HookNames \ (First \cup Begins)
  BY DEF Begins, HookNames, First
<1> HIDE DEF m, k
<1>3. /\ Ready(asked, f, h, capped, a) /\ asked.out = "complete" /\ asked.capped = d.capped
  BY <1>1, <1>2, AskedReady DEF Entered
<1> HIDE DEF asked
<1>4. Ready(e, f, h, capped, a) /\ e.out = "complete" /\ ~e.capped
  BY <1>3, UncappedReady
<1> HIDE DEF e
<1>5. Pure!VisitPayload(d, f, h, a) =
        IF h.dst # <<>> THEN Pure!TakeInto(e, f, a, h.dst[1])
        ELSE IF d.capped THEN Ends(asked, "limit")
        ELSE IF a < N(f) THEN Ends(asked, "incomplete")
        ELSE IF f.kind = "text" /\ InvalidText(f) THEN Ends(Consumed(asked), "invalid")
        ELSE Delivered(asked, k, f.elems)
  BY Shared, StepsShared DEF Pure!VisitPayload, Pure!Short, asked, e, m, k
<1>6. ~TooMany(f, h)
  BY DEF Entered
<1>7. CASE h.dst # <<>>
  <2> DEFINE r == Pure!TakeInto(e, f, a, h.dst[1])
  <2>1. IF v = "complete" THEN r = Consumed(Filled(e, Sent(f, h)))
        ELSE r.out # "complete" /\ Obeys(r, f, h, capped, a)
    BY <1>1, <1>4, <1>6, <1>7, TakenObeys
  <2>2. Lands(f, h)
    BY <1>1, <1>7 DEF Lands
  <2>3. v = "complete" => Obeys(Consumed(Filled(e, Sent(f, h))), f, h, capped, a)
    BY <1>1, <1>4, <2>2, FilledObeys
  <2> HIDE DEF r, v
  <2> QED BY <1>5, <1>7, <2>1, <2>3 DEF r
<1>8. CASE h.dst = <<>>
  <2>1. d.capped = AboveCap(f, h, capped) /\ ~BadBuffer(f, h)
    BY <1>1, <1>8 DEF Entered, BadBuffer
  <2>2. v = IF d.capped THEN "limit"
            ELSE IF a < N(f) THEN "incomplete"
            ELSE IF f.kind = "text" /\ InvalidText(f) THEN "invalid" ELSE "complete"
    <3>1. CASE d.capped
      BY <1>6, <2>1, <3>1 DEF Verdict
    <3>2. CASE ~d.capped
      <4>1. Settled(f, h, capped)
        BY <1>6, <2>1, <3>2 DEF Settled
      <4> QED BY <3>2, <4>1, PayloadRule
    <3> QED BY <3>1, <3>2
  <2>3. v \in Outs
    BY <2>2 DEF Outs
  <2>4. CASE v = "complete"
    <3>1. Obeys(Delivered(asked, k, Sent(f, h)), f, h, capped, a)
      BY <1>1, <1>2, <1>3, <1>8, <2>4, DeliveredObeys
    <3> HIDE DEF v
    <3> QED BY <1>1, <1>5, <1>8, <2>2, <2>4, <3>1
  <2>5. CASE v # "complete"
    <3>1. v = "incomplete" => ~asked.capped
      BY <1>3, <2>2
    <3> HIDE DEF v
    <3>2. Obeys(Ends(asked, v), f, h, capped, a) /\ Obeys(Ends(Consumed(asked), v), f, h, capped, a)
      BY <1>3, <2>3, <2>5, <3>1, EndsObeys DEF v
    <3> QED BY <1>5, <1>8, <2>2, <2>5, <3>2
  <2> QED BY <2>4, <2>5
<1> QED BY <1>7, <1>8

(* An array of integers, whoever reads it.                                 *)
ReadOf(f, h, a) ==
  LET zigzag == f.kind = "signeds"
  IN Pure!Looped(f, a, Values(f, zigzag), Bad(f, zigzag, Lower(f, h), Upper(f, h)))

LEMMA IntegralRule ==
  ASSUME NEW f, NEW h, Offered(f, h), f.kind \in Integral, NEW capped, NEW a \in Nat, a <= N(f)
  PROVE  /\ f \in Fields /\ N(f) \in Nat /\ Side(Lower(f, h)) /\ Side(Upper(f, h))
         /\ ~ByRow(h) => Lower(f, h) = h.lo /\ Upper(f, h) = h.hi
         /\ ByRow(h) => /\ Lower(f, h) = IF h.bounded /\ h.kind = "signeds" THEN <<h.lo>> ELSE <<>>
                        /\ Upper(f, h) = IF h.bounded THEN <<h.hi>> ELSE <<>>
                        /\ (h.kind = "signeds" <=> f.kind = "signeds")
                        /\ h.kind \in {"signeds", "unsigneds", "flags"}
         /\ ~(ByRow(h) /\ h.kind = "flags") => Sent(f, h) = Values(f, f.kind = "signeds")
         /\ \A i \in 1 .. N(f) :
              Refused(f, h, i) <=> i \in Bad(f, f.kind = "signeds", Lower(f, h), Upper(f, h))
         /\ Settled(f, h, capped) => Verdict(f, h, capped, a) = ReadOf(f, h, a).out
         /\ \A dst : Unusable(f, h, dst)
                       <=> \/ ~dst.writable \/ dst.bits \notin Items
                           \/ dst.bits # Bits /\ ~Pure!WidthFits(dst.bits, f.kind = "signeds",
                                                                 Lower(f, h), Upper(f, h))
                           \/ dst.slots < N(f)
<1> DEFINE zigzag == f.kind = "signeds"
           lo == Lower(f, h)
           hi == Upper(f, h)
           bad == Bad(f, zigzag, lo, hi)
<1>1. f \in Fields /\ N(f) \in Nat
  BY DEF Offered, Fields, N
<1>2. /\ f.kind \in {"unsigneds", "signeds"} /\ f.kind \notin Payloads /\ f.kind \notin Floats
      /\ f.kind \notin Whole /\ f.kind \notin {"float32", "float64", "blob"} \cup Floats
  BY DEF Payloads, Integral, Floats, Whole, Fixlen, Scalars
<1>3. ByRow(h) => /\ h \in Rows /\ (h.kind = "signeds" <=> zigzag)
                  /\ h.kind \in {"signeds", "unsigneds", "flags"}
                  /\ (h.bounded => h.kind # "flags")
  <2> SUFFICES ASSUME ByRow(h)
               PROVE  /\ h \in Rows /\ (h.kind = "signeds" <=> zigzag)
                      /\ h.kind \in {"signeds", "unsigneds", "flags"}
                      /\ (h.bounded => h.kind # "flags")
    OBVIOUS
  <2>1. h \in Rows /\ Stores(h, f.kind)
    BY RowsAre DEF ByRow
  <2>2. h.kind \in {f.kind, "flags"} /\ (h.kind = "flags" => f.kind = "unsigneds")
    BY <1>2, <2>1 DEF Stores
  <2> QED BY <1>2, <2>1, <2>2 DEF Rows, Integral
<1>4. ByRow(h) => /\ lo = IF h.bounded /\ h.kind = "signeds" THEN <<h.lo>> ELSE <<>>
                  /\ hi = IF h.bounded THEN <<h.hi>> ELSE <<>>
  BY <1>3 DEF Lower, Upper
<1>5. ~ByRow(h) => lo = h.lo /\ hi = h.hi
  BY DEF Lower, Upper
<1>6. Side(lo) /\ Side(hi)
  <2>1. CASE ByRow(h)
    <3>1. h.lo \in Int /\ h.hi \in Int
      BY <1>3, <2>1 DEF Rows
    <3>2. <<h.lo>> \in Seq(Int) /\ <<h.hi>> \in Seq(Int) /\ <<>> \in Seq(Int)
          /\ Len(<<h.lo>>) = 1 /\ Len(<<h.hi>>) = 1 /\ Len(<<>>) = 0
      BY <3>1
    <3>3. Side(<<>>) /\ Side(<<h.lo>>) /\ Side(<<h.hi>>)
      BY <3>2 DEF Side
    <3> HIDE DEF lo, hi
    <3>4. (lo = <<>> \/ lo = <<h.lo>>) /\ (hi = <<>> \/ hi = <<h.hi>>)
      BY <1>4, <2>1
    <3> QED BY <3>3, <3>4
  <2>2. CASE ~ByRow(h)
    <3>1. h.by = "hooks"
      BY <2>2 DEF ByRow, Offered, HookAnswers, Rows
    <3> QED BY <1>5, <2>2, <3>1, HooksAre
  <2> QED BY <2>1, <2>2
<1>7. zigzag \in BOOLEAN
  OBVIOUS
<1>8. ~(ByRow(h) /\ h.kind = "flags") => Sent(f, h) = Values(f, zigzag)
  <2> SUFFICES ASSUME ~(ByRow(h) /\ h.kind = "flags") PROVE Sent(f, h) = Values(f, zigzag)
    OBVIOUS
  <2> DEFINE v == Values(f, zigzag)
  <2>1. Sent(f, h) \in Seq(Int) /\ Len(Sent(f, h)) = N(f)
    BY SentIs
  <2>2. v \in Seq(Int) /\ Len(v) = N(f)
    <3> HIDE DEF zigzag
    <3> QED BY <1>1, <1>7, ValuesAre
  <2>3. \A i \in 1 .. N(f) : Sent(f, h)[i] = v[i]
    BY SentIs
  <2> DEFINE s == Sent(f, h)
  <2>4. s \in Seq(Int) /\ Len(s) = Len(v) /\ \A i \in 1 .. Len(s) : s[i] = v[i]
    BY <2>1, <2>2, <2>3
  <2> HIDE DEF v, s
  <2>5. s = v
    BY <2>2, <2>4, SeqEqual
  <2> QED BY <2>5 DEF s, v
<1>9. ASSUME NEW i \in 1 .. N(f)
      PROVE  Refused(f, h, i) <=> i \in bad
  <2>1. CASE ByRow(h) /\ h.kind = "flags"
    <3>1. lo = <<>> /\ hi = <<>>
      BY <1>3, <1>4, <2>1
    <3>2. Refused(f, h, i) <=> Malformed(f.elems[i])
      BY <1>2, <3>1 DEF Refused
    <3>3. i \in bad <=> Malformed(f.elems[i])
      BY <3>1 DEF Bad, Outside
    <3> QED BY <3>2, <3>3
  <2>2. CASE ~(ByRow(h) /\ h.kind = "flags")
    <3>1. Sent(f, h)[i] = Values(f, zigzag)[i]
      BY <1>8, <2>2
    <3> QED BY <1>2, <3>1 DEF Refused, Bad, Outside
  <2> QED BY <2>1, <2>2
<1>10. ASSUME Settled(f, h, capped)
       PROVE  Verdict(f, h, capped, a) = ReadOf(f, h, a).out
  <2>1. Seen(f, a) = a
    BY <1>2 DEF Seen
  <2>2. bad \subseteq 1 .. N(f)
    BY DEF Bad
  <2>3. Outcome(f, a, bad) = IF \E i \in 1 .. a : i \in bad THEN "invalid"
                             ELSE IF a < N(f) THEN "incomplete" ELSE "complete"
    <3> HIDE DEF bad
    <3> QED BY <1>1, <2>2, OutcomeIs
  <2>4. ReadOf(f, h, a).out = Outcome(f, a, bad)
    BY LoopedIs DEF ReadOf
  <2>5. (\E i \in 1 .. a : Refused(f, h, i)) <=> \E i \in 1 .. a : i \in bad
    <3>1. \A i \in 1 .. a : i \in 1 .. N(f)
      BY <1>1
    <3> HIDE DEF bad
    <3> QED BY <1>9, <3>1
  <2> HIDE DEF bad
  <2> QED BY <1>10, <2>1, <2>3, <2>4, <2>5 DEF Verdict, Settled
<1>11. ASSUME NEW dst
       PROVE  Unusable(f, h, dst)
                       <=> \/ ~dst.writable \/ dst.bits \notin Items
                           \/ dst.bits # Bits /\ ~Pure!WidthFits(dst.bits, zigzag, lo, hi)
                           \/ dst.slots < N(f)
  <2>1. NarrowFits(f, h, dst.bits) <=> Pure!WidthFits(dst.bits, zigzag, lo, hi)
    BY DEF NarrowFits, Pure!WidthFits
  <2> QED BY <1>2, <2>1 DEF Unusable
<1> HIDE DEF lo, hi, bad, zigzag
<1> QED BY <1>1, <1>3, <1>4, <1>5, <1>6, <1>8, <1>9, <1>10, <1>11 DEF lo, hi, bad, zigzag

LEMMA ReadIs ==
  ASSUME NEW f, NEW h, Offered(f, h), f.kind \in Integral, NEW a \in Nat, a <= N(f)
  PROVE  LET read == ReadOf(f, h, a)
         IN /\ read.values \in Seq(Int) /\ Len(read.values) <= a
            /\ \A i \in 1 .. Len(read.values) : read.values[i] = Values(f, f.kind = "signeds")[i]
            /\ read.out \in {"complete", "incomplete", "invalid"}
            /\ read.out = "complete" => read.values = Values(f, f.kind = "signeds")
            /\ read = Pure!ReadVarints(f, a, Lower(f, h), Upper(f, h), f.kind = "signeds")
<1> DEFINE zigzag == f.kind = "signeds"
           lo == Lower(f, h)
           hi == Upper(f, h)
           bad == Bad(f, zigzag, lo, hi)
           v == Values(f, zigzag)
           read == Pure!Looped(f, a, v, bad)
           n == Stop(f, a, bad)
<1>1. /\ f \in Fields /\ N(f) \in Nat /\ Side(lo) /\ Side(hi) /\ zigzag \in BOOLEAN
  BY IntegralRule
<1>2. bad \subseteq 1 .. N(f)
  BY DEF Bad
<1>3. Pure!ReadVarints(f, a, lo, hi, zigzag) = read
  <2> HIDE DEF zigzag, lo, hi
  <2> QED BY <1>1, PureReadIs
<1> HIDE DEF zigzag, lo, hi
<1>4. read.values = SubSeq(v, 1, n - 1) /\ v \in Seq(Int) /\ Len(v) = N(f)
  <2>1. read.values = SubSeq(v, 1, n - 1)
    BY LoopedIs
  <2> QED BY <1>1, <2>1, ValuesAre
<1> HIDE DEF bad
<1>5. /\ read.values \in Seq(Int) /\ read.out \in {"complete", "incomplete", "invalid"}
      /\ Len(read.values) = n - 1
      /\ (read.out = "complete" => read.values = v)
  BY <1>1, <1>2, LoopedTyped
<1>6. n - 1 <= a /\ n \in 1 .. N(f) + 1
  <2>1. n - 1 <= a
    BY <1>1, <1>2, OutcomeIs
  <2>2. n \in 1 .. N(f) + 1
    BY <1>1, <1>2, Stops
  <2> QED BY <2>1, <2>2
<1>7. read = ReadOf(f, h, a)
  BY DEF ReadOf, zigzag, lo, hi, bad
<1> HIDE DEF read, n, v
<1>8. \A i \in 1 .. n - 1 : read.values[i] = v[i]
  BY <1>1, <1>4, <1>6
<1> QED BY <1>3, <1>5, <1>6, <1>7, <1>8 DEF v, zigzag, lo, hi

LEMMA VarintsObeys ==
  ASSUME NEW f, NEW h, Offered(f, h), h.by = "hooks", f.kind \in Integral, NEW capped,
         NEW a \in Nat, a <= N(f), NEW d, Entered(d, f, h, capped, a)
  PROVE  Obeys(Pure!VisitVarints(d, f, h, a), f, h, capped, a)
<1> DEFINE asked == Told(d, "on_array_begin", <<N(f)>>)
           e == Uncapped(asked)
           v == Verdict(f, h, capped, a)
           k == IF f.kind = "signeds" THEN "on_signed_array" ELSE "on_unsigned_array"
           read == ReadOf(f, h, a)
           dst == h.dst[1]
           unusable == \/ ~dst.writable \/ dst.bits \notin Items
                       \/ dst.bits # Bits /\ ~Pure!WidthFits(dst.bits, f.kind = "signeds", h.lo, h.hi)
                       \/ dst.slots < N(f)
<1>1. /\ ~ByRow(h) /\ f.kind \in Countable /\ N(f) \in Nat /\ Buffer(f, h) = h.dst
      /\ Lower(f, h) = h.lo /\ Upper(f, h) = h.hi
  <2>1. ~ByRow(h) /\ ~Raw(f, h) /\ f.kind \notin Scalars /\ f.kind \in Countable
    BY DEF ByRow, Raw, Integral, Scalars, Countable
  <2> QED BY <2>1, IntegralRule DEF Buffer
<1>2. "on_array_begin" \in Begins /\ k \in HookNames \ (First \cup Begins)
  BY DEF Begins, HookNames, First
<1> HIDE DEF k
<1>3. /\ Ready(asked, f, h, capped, a) /\ asked.out = "complete" /\ asked.capped = d.capped
  BY <1>1, <1>2, AskedReady DEF Entered
<1> HIDE DEF asked
<1>4. Ready(e, f, h, capped, a) /\ e.out = "complete" /\ ~e.capped
  BY <1>3, UncappedReady
<1> HIDE DEF e
<1>5. /\ read.values \in Seq(Int) /\ Len(read.values) <= a
      /\ \A i \in 1 .. Len(read.values) : read.values[i] = Values(f, f.kind = "signeds")[i]
      /\ read.out \in {"complete", "incomplete", "invalid"}
      /\ read.out = "complete" => read.values = Sent(f, h)
      /\ read = Pure!ReadVarints(f, a, h.lo, h.hi, f.kind = "signeds")
      /\ Settled(f, h, capped) => v = read.out
  <2>1. Sent(f, h) = Values(f, f.kind = "signeds") /\ (Settled(f, h, capped) => v = read.out)
    BY <1>1, IntegralRule
  <2> HIDE DEF v
  <2> QED BY <1>1, <2>1, ReadIs
<1> HIDE DEF read
<1>6. Pure!VisitVarints(d, f, h, a) =
        IF h.dst = <<>>
        THEN IF d.capped THEN Ends(asked, "limit")
             ELSE IF read.out = "complete" THEN Delivered(asked, k, read.values)
             ELSE Ends(asked, read.out)
        ELSE IF unusable THEN Ends(e, "argument")
        ELSE IF read.out = "complete" THEN Consumed(Filled(e, read.values))
        ELSE Ends(Filled(e, read.values), read.out)
  BY <1>5, Shared, StepsShared DEF Pure!VisitVarints, asked, e, k
<1>7. ~TooMany(f, h)
  BY DEF Entered
<1>8. CASE h.dst # <<>>
  <2>1. BadBuffer(f, h) <=> unusable
    <3>1. Unusable(f, h, dst) <=> unusable
      BY <1>1, IntegralRule
    <3> HIDE DEF unusable
    <3> QED BY <1>1, <1>8, <3>1 DEF BadBuffer
  <2>2. ~AboveCap(f, h, capped) /\ Lands(f, h)
    BY <1>1, <1>8 DEF AboveCap, Lands
  <2> HIDE DEF unusable
  <2>3. CASE unusable
    <3>1. v = "argument"
      BY <1>7, <2>1, <2>3 DEF Verdict
    <3>2. Obeys(Ends(e, "argument"), f, h, capped, a)
      BY <1>4, <3>1, EndsObeys DEF Outs
    <3> QED BY <1>6, <1>8, <2>3, <3>2
  <2>4. CASE ~unusable /\ read.out = "complete"
    <3>1. Settled(f, h, capped)
      BY <1>7, <2>1, <2>2, <2>4 DEF Settled
    <3>2. Obeys(Consumed(Filled(e, Sent(f, h))), f, h, capped, a)
      BY <1>1, <1>4, <1>5, <2>2, <2>4, <3>1, FilledObeys
    <3> QED BY <1>5, <1>6, <1>8, <2>4, <3>2
  <2>5. CASE ~unusable /\ read.out # "complete"
    <3>1. Settled(f, h, capped)
      BY <1>7, <2>1, <2>2, <2>5 DEF Settled
    <3>2. read.out = Verdict(f, h, capped, a) /\ read.out \in {"incomplete", "invalid"}
      BY <1>5, <2>5, <3>1
    <3> DEFINE x == read.values
               out == read.out
    <3>3. /\ out = Verdict(f, h, capped, a) /\ out \in {"incomplete", "invalid"}
          /\ x \in Seq(Int) /\ Len(x) <= a
          /\ \A i \in 1 .. Len(x) : x[i] = Values(f, f.kind = "signeds")[i]
      BY <1>5, <3>2
    <3> HIDE DEF x, out
    <3>4. Obeys(Ends(Filled(e, x), out), f, h, capped, a)
      BY <1>4, <2>2, <3>1, <3>3, PartlyObeys
    <3> QED BY <1>6, <1>8, <2>5, <3>4 DEF x, out
  <2> QED BY <2>3, <2>4, <2>5
<1>9. CASE h.dst = <<>>
  <2>1. d.capped = AboveCap(f, h, capped) /\ ~BadBuffer(f, h)
    BY <1>1, <1>9 DEF Entered, BadBuffer
  <2>2. CASE d.capped
    <3>1. v = "limit"
      BY <1>7, <2>1, <2>2 DEF Verdict
    <3>2. Obeys(Ends(asked, "limit"), f, h, capped, a)
      BY <1>3, <3>1, EndsObeys DEF Outs
    <3> QED BY <1>6, <1>9, <2>2, <3>2
  <2>3. CASE ~d.capped
    <3>1. v = read.out
      <4>1. Settled(f, h, capped)
        BY <1>7, <2>1, <2>3 DEF Settled
      <4> QED BY <1>5, <4>1
    <3>2. CASE v = "complete"
      <4>1. Obeys(Delivered(asked, k, Sent(f, h)), f, h, capped, a)
        BY <1>1, <1>2, <1>3, <1>9, <3>2, DeliveredObeys
      <4> HIDE DEF v
      <4> QED BY <1>5, <1>6, <1>9, <2>3, <3>1, <3>2, <4>1
    <3>3. CASE v # "complete"
      <4> DEFINE out == read.out
      <4>1. out = Verdict(f, h, capped, a) /\ out # "complete" /\ out \in Outs /\ ~asked.capped
        BY <1>3, <1>5, <2>3, <3>1, <3>3 DEF Outs
      <4> HIDE DEF out
      <4>2. Obeys(Ends(asked, out), f, h, capped, a)
        BY <1>3, <4>1, EndsObeys
      <4> QED BY <1>6, <1>9, <2>3, <3>1, <3>3, <4>2 DEF out
    <3> QED BY <3>2, <3>3
  <2> QED BY <2>2, <2>3
<1> QED BY <1>8, <1>9

(* An array of floats, whoever reads it.                                   *)
LEMMA FloatsRule ==
  ASSUME NEW f, NEW h, Offered(f, h), f.kind \in Floats, NEW capped, NEW a \in Nat, a <= N(f)
  PROVE  /\ f \in Fields /\ f.elems \in Seq(Int) /\ N(f) \in Nat /\ Sent(f, h) = f.elems
         /\ Settled(f, h, capped) =>
              Verdict(f, h, capped, a) = IF a < N(f) THEN "incomplete" ELSE "complete"
         /\ \A dst : Unusable(f, h, dst)
                       <=> ~dst.writable \/ dst.bits # Bits \/ dst.slots < N(f)
         /\ f.kind \in Countable /\ f.kind \notin Scalars
<1>1. f \in Fields /\ f.elems \in Seq(Int) /\ N(f) \in Nat
  BY DEF Offered, Fields, N
<1>2. /\ f.kind \in {"floats32", "floats64"} /\ f.kind \notin Integral /\ f.kind \notin Payloads
      /\ f.kind \in Countable /\ f.kind \in Whole /\ f.kind \notin Scalars
  BY DEF Payloads, Integral, Floats, Countable, Whole, Fixlen, Scalars
<1>3. ByRow(h) => h.by = "row" /\ h.kind = f.kind /\ h.bounded = FALSE
  <2> SUFFICES ASSUME ByRow(h) PROVE h.by = "row" /\ h.kind = f.kind /\ h.bounded = FALSE
    OBVIOUS
  <2>1. h \in Rows /\ Stores(h, f.kind) /\ h.by = "row"
    BY RowsAre DEF ByRow
  <2>2. h.kind = f.kind
    BY <1>2, <2>1 DEF Stores
  <2> QED BY <1>2, <2>1, <2>2 DEF Rows, Integral
<1>4. Sent(f, h) = f.elems
  <2>1. Sent(f, h) \in Seq(Int) /\ Len(Sent(f, h)) = N(f) /\ Len(f.elems) = N(f)
    BY SentIs DEF N
  <2>2. \A i \in 1 .. N(f) : Sent(f, h)[i] = f.elems[i]
    BY <1>2, <1>3, SentIs
  <2> QED BY <1>1, <2>1, <2>2, SeqEqual
<1>5. Lower(f, h) = <<>> /\ Upper(f, h) = <<>>
  BY <1>2, <1>3 DEF Lower, Upper
<1>6. \A i : ~Refused(f, h, i)
  BY <1>2, <1>5 DEF Refused
<1>7. Settled(f, h, capped) =>
        Verdict(f, h, capped, a) = IF a < N(f) THEN "incomplete" ELSE "complete"
  BY <1>6 DEF Verdict, Settled
<1>8. \A dst : Unusable(f, h, dst)
                 <=> ~dst.writable \/ dst.bits # Bits \/ dst.slots < N(f)
  BY <1>2 DEF Unusable
<1> QED BY <1>1, <1>2, <1>4, <1>7, <1>8

(* A value that goes to no buffer, and whose extent is known.              *)
LEMMA WholeObeys ==
  ASSUME NEW f, NEW h, Offered(f, h), h.by = "hooks", f.kind \in Floats, NEW capped,
         NEW a \in Nat, a <= N(f), NEW e, Ready(e, f, h, capped, a), e.out = "complete",
         ~TooMany(f, h), Buffer(f, h) = <<>>, e.capped = AboveCap(f, h, capped),
         NEW k \in HookNames \ (First \cup Begins)
  PROVE  Obeys(IF e.capped THEN Ends(e, "limit") ELSE IF a < N(f) THEN Ends(e, "incomplete")
               ELSE Delivered(e, k, f.elems), f, h, capped, a)
<1> DEFINE v == Verdict(f, h, capped, a)
<1>1. ~ByRow(h) /\ ~BadBuffer(f, h) /\ Sent(f, h) = f.elems
  BY FloatsRule DEF ByRow, BadBuffer
<1>2. CASE e.capped
  <2>1. v = "limit"
    BY <1>1, <1>2 DEF Verdict
  <2>2. Obeys(Ends(e, "limit"), f, h, capped, a)
    BY <2>1, EndsObeys DEF Outs
  <2> QED BY <1>2, <2>2
<1>3. CASE ~e.capped
  <2>1. Settled(f, h, capped)
    BY <1>1, <1>3 DEF Settled
  <2>2. CASE a < N(f)
    <3>1. v = "incomplete"
      BY <2>1, <2>2, FloatsRule
    <3>2. Obeys(Ends(e, "incomplete"), f, h, capped, a)
      BY <1>3, <3>1, EndsObeys DEF Outs
    <3> QED BY <1>3, <2>2, <3>2
  <2>3. CASE ~(a < N(f))
    <3>1. v = "complete"
      BY <2>1, <2>3, FloatsRule
    <3>2. Obeys(Delivered(e, k, Sent(f, h)), f, h, capped, a)
      BY <1>1, <3>1, DeliveredObeys
    <3> QED BY <1>1, <1>3, <2>3, <3>2
  <2> QED BY <2>2, <2>3
<1> QED BY <1>2, <1>3

LEMMA FarrayObeys ==
  ASSUME NEW f, NEW h, Offered(f, h), h.by = "hooks", f.kind \in Floats, ~Raw(f, h), NEW capped,
         NEW a \in Nat, a <= N(f), NEW d, Entered(d, f, h, capped, a)
  PROVE  Obeys(Pure!VisitFarray(d, f, h, a), f, h, capped, a)
<1> DEFINE asked == Told(d, "on_float_array_begin", <<N(f)>>)
           e == Uncapped(asked)
           v == Verdict(f, h, capped, a)
           k == IF f.kind = "floats32" THEN "on_float32_array" ELSE "on_float64_array"
           dst == h.dst[1]
           unusable == ~dst.writable \/ dst.bits # Bits \/ dst.slots < N(f)
<1>1. /\ ~ByRow(h) /\ f.kind \in Countable /\ N(f) \in Nat /\ Buffer(f, h) = h.dst
      /\ Sent(f, h) = f.elems
  <2>1. ~ByRow(h)
    BY DEF ByRow
  <2> QED BY <2>1, FloatsRule DEF Buffer
<1>2. "on_float_array_begin" \in Begins /\ k \in HookNames \ (First \cup Begins)
  BY DEF Begins, HookNames, First
<1> HIDE DEF k
<1>3. /\ Ready(asked, f, h, capped, a) /\ asked.out = "complete" /\ asked.capped = d.capped
  BY <1>1, <1>2, AskedReady DEF Entered
<1> HIDE DEF asked
<1>4. Ready(e, f, h, capped, a) /\ e.out = "complete" /\ ~e.capped
  BY <1>3, UncappedReady
<1> HIDE DEF e
<1>5. Pure!VisitFarray(d, f, h, a) =
        IF h.dst = <<>>
        THEN IF d.capped THEN Ends(asked, "limit")
             ELSE IF a < N(f) THEN Ends(asked, "incomplete") ELSE Delivered(asked, k, f.elems)
        ELSE IF unusable THEN Ends(e, "argument")
        ELSE IF a < N(f) THEN Ends(e, "incomplete") ELSE Consumed(Filled(e, f.elems))
  BY Shared, StepsShared DEF Pure!VisitFarray, Pure!Short, asked, e, k
<1>6. ~TooMany(f, h)
  BY DEF Entered
<1>7. CASE h.dst = <<>>
  <2>1. d.capped = AboveCap(f, h, capped)
    BY <1>1, <1>7 DEF Entered
  <2>2. Obeys(IF asked.capped THEN Ends(asked, "limit")
              ELSE IF a < N(f) THEN Ends(asked, "incomplete")
              ELSE Delivered(asked, k, f.elems), f, h, capped, a)
    BY <1>1, <1>2, <1>3, <1>6, <1>7, <2>1, WholeObeys
  <2> QED BY <1>3, <1>5, <1>7, <2>2
<1>8. CASE h.dst # <<>>
  <2>1. BadBuffer(f, h) <=> unusable
    <3>1. Unusable(f, h, dst) <=> unusable
      BY FloatsRule
    <3> HIDE DEF unusable
    <3> QED BY <1>1, <1>8, <3>1 DEF BadBuffer
  <2>2. ~AboveCap(f, h, capped) /\ Lands(f, h)
    BY <1>1, <1>8 DEF AboveCap, Lands
  <2> HIDE DEF unusable
  <2>3. CASE unusable
    <3>1. v = "argument"
      BY <1>6, <2>1, <2>3 DEF Verdict
    <3>2. Obeys(Ends(e, "argument"), f, h, capped, a)
      BY <1>4, <3>1, EndsObeys DEF Outs
    <3> QED BY <1>5, <1>8, <2>3, <3>2
  <2>4. CASE ~unusable
    <3>1. Settled(f, h, capped)
      BY <1>6, <2>1, <2>2, <2>4 DEF Settled
    <3>2. v = IF a < N(f) THEN "incomplete" ELSE "complete"
      BY <3>1, FloatsRule
    <3>3. CASE a < N(f)
      <4>1. v = "incomplete"
        BY <3>2, <3>3
      <4>2. Obeys(Ends(e, "incomplete"), f, h, capped, a)
        BY <1>4, <4>1, EndsObeys DEF Outs
      <4> QED BY <1>5, <1>8, <2>4, <3>3, <4>2
    <3>4. CASE ~(a < N(f))
      <4>1. v = "complete"
        BY <3>2, <3>4
      <4>2. Obeys(Consumed(Filled(e, Sent(f, h))), f, h, capped, a)
        BY <1>1, <1>4, <2>2, <4>1, FilledObeys
      <4> QED BY <1>1, <1>5, <1>8, <2>4, <3>4, <4>2
    <3> QED BY <3>3, <3>4
  <2> QED BY <2>3, <2>4
<1> QED BY <1>7, <1>8

(* Every field a handler reads, by the rule.                               *)
LEMMA VisitedObeys ==
  ASSUME NEW f, NEW h, Offered(f, h), h.by = "hooks", NEW capped, NEW a \in Nat, a <= N(f),
         NEW d, Entered(d, f, h, capped, a)
  PROVE  Obeys(Pure!VisitValue(d, f, h, a), f, h, capped, a)
<1>1. CASE f.kind \in Scalars
  <2>1. Pure!VisitValue(d, f, h, a) = Pure!VisitScalar(d, f, h, a)
    BY <1>1, KindsShared DEF Pure!VisitValue
  <2> QED BY <1>1, <2>1, ScalarObeys
<1>2. CASE f.kind \in Payloads
  <2>1. f.kind \notin Scalars
    BY <1>2 DEF Scalars, Payloads
  <2>2. Pure!VisitValue(d, f, h, a) = Pure!VisitPayload(d, f, h, a)
    BY <1>2, <2>1, KindsShared DEF Pure!VisitValue
  <2> QED BY <1>2, <2>2, PayloadObeys
<1>3. CASE f.kind \in Integral
  <2>1. f.kind \notin Scalars \cup Payloads
    BY <1>3 DEF Scalars, Payloads, Integral
  <2>2. Pure!VisitValue(d, f, h, a) = Pure!VisitVarints(d, f, h, a)
    BY <1>3, <2>1, KindsShared DEF Pure!VisitValue
  <2> QED BY <1>3, <2>2, VarintsObeys
<1>4. CASE f.kind \in Floats
  <2>1. f.kind \notin Scalars \cup Payloads \cup Integral /\ ~ByRow(h)
    BY <1>4 DEF Scalars, Payloads, Integral, Floats, ByRow
  <2>2. Raw(f, h) <=> f.kind = "floats32" /\ h.bits
    BY <2>1 DEF Raw
  <2>3. CASE Raw(f, h)
    <3>1. Pure!VisitValue(d, f, h, a) = Pure!VisitFarrayBits(d, f, a)
      BY <2>1, <2>2, <2>3, KindsShared DEF Pure!VisitValue
    <3>2. Pure!VisitFarrayBits(d, f, a) =
            IF d.capped THEN Ends(d, "limit") ELSE IF a < N(f) THEN Ends(d, "incomplete")
            ELSE Delivered(d, "on_float32_array_bits", f.elems)
      BY Shared, StepsShared DEF Pure!VisitFarrayBits, Pure!Short
    <3>3. Buffer(f, h) = <<>> /\ "on_float32_array_bits" \in HookNames \ (First \cup Begins)
      BY <2>1, <2>3 DEF Buffer, HookNames, First, Begins
    <3>4. Ready(d, f, h, capped, a) /\ d.out = "complete" /\ ~TooMany(f, h)
          /\ d.capped = AboveCap(f, h, capped)
      BY <3>3 DEF Entered
    <3> QED BY <1>4, <3>1, <3>2, <3>3, <3>4, WholeObeys
  <2>4. CASE ~Raw(f, h)
    <3>1. Pure!VisitValue(d, f, h, a) = Pure!VisitFarray(d, f, h, a)
      BY <2>1, <2>2, <2>4, KindsShared DEF Pure!VisitValue
    <3> QED BY <1>4, <2>4, <3>1, FarrayObeys
  <2> QED BY <2>3, <2>4
<1>5. f.kind \in Scalars \cup Payloads \cup Integral \cup Floats
  BY DEF Offered, Fields, Countable
<1> QED BY <1>1, <1>2, <1>3, <1>4, <1>5

-----------------------------------------------------------------------------
(* The destination table's route, by the rule.                             *)

LEMMA RowStores ==
  ASSUME NEW f, NEW h, Offered(f, h), h.by = "row", NEW capped, NEW a \in Nat,
         NEW d, Ready(d, f, h, capped, a), Verdict(f, h, capped, a) = "complete",
         d.out = "complete", NEW got, got = IF h.kind \in Payloads /\ ~h.into THEN 1 ELSE N(f)
  PROVE  Obeys([Consumed(Filled(d, Sent(f, h))) EXCEPT !.count = IF h.counts THEN got ELSE @],
               f, h, capped, a)
<1> DEFINE r == Consumed(Filled(d, Sent(f, h)))
<1>1. ByRow(h) /\ Lands(f, h)
  BY DEF ByRow, Lands
<1>2. Obeys([r EXCEPT !.count = Counted(f, h, "complete")], f, h, capped, a)
  BY <1>1, FilledObeys
<1>3. d \in Decoders /\ d.count = -1
  BY DEF Ready
<1>4. r.count = -1
  BY <1>3 DEF Consumed, Filled, Decoders
<1>5. (IF h.counts THEN got ELSE r.count) = Counted(f, h, "complete")
  <2> HIDE DEF r
  <2> QED BY <1>1, <1>4 DEF Counted
<1> HIDE DEF r
<1> QED BY <1>2, <1>5 DEF r

(* A bound and what it leaves of a parked cap.                             *)
LEMMA BoundObeys ==
  ASSUME NEW f, NEW h, Offered(f, h), NEW capped, NEW a \in Nat, a <= N(f),
         NEW d, Ready(d, f, h, capped, a), d.out = "complete",
         Bound(f, h) < 0 /\ Buffer(f, h) = <<>> => d.capped = AboveCap(f, h, capped),
         f.kind \in Scalars => ~d.capped /\ ~capped
  PROVE  LET b == Pure!SettleBound(d, f, Bound(f, h))
         IN IF TooMany(f, h) THEN b.out = "invalid" /\ Obeys(b, f, h, capped, a)
            ELSE Entered(b, f, h, capped, a)
<1> DEFINE e == Uncapped(d)
<1>1. /\ Pure!SettleBound(d, f, Bound(f, h))
           = IF Bound(f, h) < 0 THEN d ELSE IF N(f) > Bound(f, h) THEN Ends(d, "invalid") ELSE e
  BY Shared, StepsShared DEF Pure!SettleBound
<1>2. Bound(f, h) \in Int /\ N(f) \in Nat
  <2>1. N(f) \in Nat
    BY SentIs
  <2>2. ByRow(h) => h.cap \in Int
    BY RowsAre DEF ByRow, Rows
  <2>3. ~ByRow(h) => h.bound \in Int
    BY DEF ByRow, Offered, HookAnswers, Rows
  <2> QED BY <2>1, <2>2, <2>3 DEF Bound
<1>3. Ready(e, f, h, capped, a) /\ e.out = "complete" /\ ~e.capped
  BY UncappedReady
<1> HIDE DEF e
<1>4. CASE Bound(f, h) < 0
  <2>1. ~TooMany(f, h)
    BY <1>2, <1>4 DEF TooMany
  <2> QED BY <1>1, <1>4, <2>1 DEF Entered
<1>5. CASE ~(Bound(f, h) < 0) /\ N(f) > Bound(f, h)
  <2>1. TooMany(f, h)
    BY <1>2, <1>5 DEF TooMany
  <2>2. Verdict(f, h, capped, a) = "invalid"
    BY <2>1 DEF Verdict
  <2>3. Obeys(Ends(d, "invalid"), f, h, capped, a)
    BY <2>2, EndsObeys DEF Outs
  <2>4. Ends(d, "invalid").out = "invalid"
    BY DEF Ends, Ready, Decoders
  <2> QED BY <1>1, <1>5, <2>1, <2>3, <2>4
<1>6. CASE ~(Bound(f, h) < 0) /\ ~(N(f) > Bound(f, h))
  <2>1. ~TooMany(f, h)
    BY <1>2, <1>6 DEF TooMany
  <2>2. AboveCap(f, h, capped) = FALSE
    BY <1>2, <1>6 DEF AboveCap
  <2>3. e.capped = FALSE
    BY <1>3 DEF Ready, Decoders
  <2> QED BY <1>1, <1>3, <1>6, <2>1, <2>2, <2>3 DEF Entered
<1> QED BY <1>4, <1>5, <1>6

LEMMA MappedScalarObeys ==
  ASSUME NEW f, NEW h, Offered(f, h), h.by = "row", f.kind \in Scalars, NEW capped,
         NEW a \in Nat, a <= N(f), NEW d, Entered(d, f, h, capped, a)
  PROVE  Obeys(Pure!MappedScalar(d, f, h, a), f, h, capped, a)
<1> DEFINE x == f.elems[1]
           w == IF h.kind = "signed" THEN Unzigzag(x)
                ELSE IF h.kind = "boolean" THEN (IF x = 0 THEN 0 ELSE 1) ELSE x
           v == Verdict(f, h, capped, a)
           long == f.kind \in {"unsigned", "signed"} /\ Malformed(x)
           out == h.bounded /\ (w > h.hi \/ (h.kind = "signed" /\ w < h.lo))
<1>1. /\ f \in Fields /\ N(f) = 1 /\ ByRow(h) /\ h \in Rows /\ Stores(h, f.kind)
      /\ Ready(d, f, h, capped, a) /\ d.out = "complete" /\ ~d.capped /\ ~capped
  BY RowsAre DEF Offered, ByRow, Entered
<1>2. f.kind \notin Payloads /\ f.kind \notin Integral /\ f.kind \notin Countable
      /\ f.kind \in {"unsigned", "signed", "float32", "float64"} /\ f.kind \notin {"signeds", "blob"}
      /\ f.kind \notin Floats
  BY DEF Scalars, Integral, Payloads, Countable, Floats
<1>3. /\ h.kind \in {f.kind, "boolean"} /\ (h.kind = "boolean" => f.kind = "unsigned")
      /\ h.kind # "flags" /\ h.kind # "signeds" /\ h.kind \notin Payloads
  BY <1>1, <1>2 DEF Stores, Payloads
<1>4. ~TooMany(f, h) /\ ~BadBuffer(f, h) /\ ~AboveCap(f, h, capped)
  BY <1>1, <1>2 DEF Entered, BadBuffer, AboveCap, Buffer
<1>5. x \in Nat /\ f.elems \in Seq(Int)
  BY <1>1 DEF Fields, N
<1>6. Sent(f, h) = <<w>> /\ w \in Int /\ Sent(f, h)[1] = w
  <2>1. Sent(f, h)[1] = w
    <3>1. Sent(f, h)[1] =
            LET y == IF f.kind \in {"signed", "signeds"} THEN Unzigzag(x) ELSE x
            IN IF h.kind \in {"boolean", "flags"} /\ y # 0 THEN 1 ELSE y
      BY <1>1 DEF Sent
    <3> QED BY <1>2, <1>3, <3>1
  <2>2. w \in Int
    BY <1>5, Zigzag
  <2>3. Sent(f, h) \in Seq(Int) /\ Len(Sent(f, h)) = 1
    BY <1>1, SentIs
  <2> HIDE DEF w
  <2> QED BY <2>1, <2>2, <2>3
<1>7. Refused(f, h, 1) <=> long \/ out
  <2>1. f.kind \notin {"float32", "float64", "blob"} \cup Floats <=> f.kind \in {"unsigned", "signed"}
    BY <1>2
  <2>2. /\ Lower(f, h) = IF h.bounded /\ h.kind = "signed" THEN <<h.lo>> ELSE <<>>
        /\ Upper(f, h) = IF h.bounded THEN <<h.hi>> ELSE <<>>
    BY <1>1, <1>3 DEF Lower, Upper
  <2> HIDE DEF x, w
  <2>3. (Lower(f, h) # <<>> /\ Sent(f, h)[1] < Lower(f, h)[1])
          <=> h.bounded /\ h.kind = "signed" /\ w < h.lo
    BY <1>6, <2>2
  <2>4. (Upper(f, h) # <<>> /\ Sent(f, h)[1] > Upper(f, h)[1]) <=> h.bounded /\ w > h.hi
    BY <1>6, <2>2
  <2>5. (f.kind \notin {"float32", "float64", "blob"} \cup Floats /\ Malformed(f.elems[1])) <=> long
    BY <2>1 DEF x
  <2> HIDE DEF long
  <2> QED BY <2>3, <2>4, <2>5 DEF Refused
<1>8. v = IF a < 1 THEN "incomplete" ELSE IF long \/ out THEN "invalid" ELSE "complete"
  <2>1. CASE a < 1
    BY <1>1, <1>4, <2>1 DEF Verdict, Seen
  <2>2. CASE a = 1
    <3>1. Seen(f, a) = 1
      BY <1>1, <2>2 DEF Seen
    <3>2. (\E i \in 1 .. Seen(f, a) : Refused(f, h, i)) <=> long \/ out
      BY <1>7, <3>1
    <3> HIDE DEF long, out
    <3> QED BY <1>1, <1>4, <2>2, <3>2 DEF Verdict
  <2> QED BY <1>1, <2>1, <2>2
<1>9. Pure!MappedScalar(d, f, h, a) =
        IF a < N(f) THEN Ends(d, "incomplete")
        ELSE IF long THEN Ends(d, "invalid")
        ELSE IF out THEN Ends(Consumed(d), "invalid")
        ELSE [Consumed(Filled(d, <<w>>)) EXCEPT !.count = IF h.counts THEN 1 ELSE @]
  BY Shared, StepsShared DEF Pure!MappedScalar, Pure!Stored, Pure!Short
<1> HIDE DEF w, long, out, x
<1>10. CASE v \in {"incomplete", "invalid"}
  <2>1. Obeys(Ends(d, v), f, h, capped, a) /\ Obeys(Ends(Consumed(d), v), f, h, capped, a)
    BY <1>1, <1>10, EndsObeys DEF Outs
  <2> QED BY <1>1, <1>8, <1>9, <1>10, <2>1
<1>11. CASE v = "complete"
  <2>1. 1 = IF h.kind \in Payloads /\ ~h.into THEN 1 ELSE N(f)
    BY <1>1
  <2>2. Obeys([Consumed(Filled(d, Sent(f, h))) EXCEPT !.count = IF h.counts THEN 1 ELSE @],
              f, h, capped, a)
    BY <1>1, <1>11, <2>1, RowStores
  <2> QED BY <1>1, <1>6, <1>8, <1>9, <1>11, <2>2
<1> QED BY <1>8, <1>10, <1>11

LEMMA MappedPayloadObeys ==
  ASSUME NEW f, NEW h, Offered(f, h), h.by = "row", f.kind \in Payloads, NEW capped,
         NEW a \in Nat, a <= N(f), NEW d, Entered(d, f, h, capped, a)
  PROVE  Obeys(Pure!MappedPayload(d, f, h, a), f, h, capped, a)
<1> DEFINE e == Uncapped(d)
           t == Pure!TakeInto(e, f, a, h.dst)
           v == Verdict(f, h, capped, a)
           counted(y, got) == [y EXCEPT !.count = IF h.counts THEN got ELSE @]
<1>1. /\ f.elems \in Seq(Int) /\ N(f) \in Nat /\ Sent(f, h) = f.elems
      /\ ByRow(h) /\ Lands(f, h) /\ h.kind = f.kind
      /\ Buffer(f, h) = IF h.into THEN <<h.dst>> ELSE <<>>
      /\ Ready(d, f, h, capped, a) /\ d.out = "complete" /\ ~TooMany(f, h)
  <2>1. ByRow(h) /\ h.kind = f.kind
    <3>1. Stores(h, f.kind) /\ f.kind \in {"text", "blob"}
      BY RowsAre DEF Payloads
    <3> QED BY <3>1 DEF Stores, ByRow
  <2> QED BY <2>1, PayloadRule DEF Lands, Buffer, Entered
<1>2. Pure!MappedPayload(d, f, h, a) =
        IF h.into
        THEN IF t.out = "complete" THEN counted(Consumed(Filled(t, f.elems)), N(f)) ELSE t
        ELSE IF d.capped THEN Ends(d, "limit")
        ELSE IF a < N(f) THEN Ends(d, "incomplete")
        ELSE IF f.kind = "text" /\ InvalidText(f) THEN Ends(Consumed(d), "invalid")
        ELSE counted(Consumed(Filled(d, f.elems)), 1)
  BY Shared, StepsShared DEF Pure!MappedPayload, Pure!Stored, Pure!Short
<1>3. CASE h.into
  <2>1. Ready(e, f, h, capped, a) /\ e.out = "complete" /\ ~e.capped
    <3>1. LET x == Uncapped(d)
          IN Ready(x, f, h, capped, a) /\ x.out = d.out /\ ~x.capped
      <4> HIDE DEF e, t, v, counted
      <4> QED BY <1>1, UncappedReady
    <3> QED BY <1>1, <3>1
  <2>2. Buffer(f, h) # <<>> /\ Buffer(f, h)[1] = h.dst
    BY <1>1, <1>3
  <2> HIDE DEF e
  <2>3. IF v = "complete" THEN t = Consumed(Filled(e, Sent(f, h)))
        ELSE t.out # "complete" /\ Obeys(t, f, h, capped, a)
    BY <1>1, <2>1, <2>2, TakenObeys
  <2> HIDE DEF t, v
  <2>4. CASE v # "complete"
    BY <1>2, <1>3, <2>3, <2>4
  <2>5. CASE v = "complete"
    <3> DEFINE q == Filled(e, f.elems)
    <3>1. t = Consumed(q)
      BY <1>1, <2>3, <2>5
    <3>2. q \in Decoders /\ e \in Decoders /\ Filled(q, f.elems) = q
      <4>1. e \in Decoders
        BY <2>1 DEF Ready
      <4>2. q \in Decoders
        BY <1>1, <4>1, StepsTyped
      <4>3. Filled(Filled(e, f.elems), f.elems) = Filled(e, f.elems)
        BY <1>1, <4>1, FilledTwice
      <4> QED BY <4>1, <4>2, <4>3
    <3>3. q.out = "complete"
      BY <2>1, <3>2 DEF Filled, Decoders
    <3> HIDE DEF q
    <3>4. Consumed(Filled(t, f.elems)) = t /\ t.out = "complete"
      <4>1. Filled(Consumed(q), f.elems) = Consumed(q)
        BY <1>1, <3>2, FilledConsumed
      <4>2. Consumed(Consumed(q)) = Consumed(q) /\ Consumed(q).out = "complete"
        BY <3>2, <3>3 DEF Consumed, Decoders
      <4> QED BY <3>1, <4>1, <4>2
    <3>5. N(f) = IF h.kind \in Payloads /\ ~h.into THEN 1 ELSE N(f)
      BY <1>3
    <3>6. Obeys(counted(Consumed(Filled(e, Sent(f, h))), N(f)), f, h, capped, a)
      BY <2>1, <2>5, <3>5, RowStores DEF v
    <3>7. Consumed(Filled(e, Sent(f, h))) = t
      BY <1>1, <3>1 DEF q
    <3> HIDE DEF counted
    <3> QED BY <1>2, <1>3, <3>4, <3>6, <3>7
  <2> QED BY <2>4, <2>5
<1>4. CASE ~h.into
  <2>1. Buffer(f, h) = <<>> /\ ~BadBuffer(f, h) /\ d.capped = AboveCap(f, h, capped)
    BY <1>1, <1>4 DEF BadBuffer, Entered
  <2>2. v = IF d.capped THEN "limit"
            ELSE IF a < N(f) THEN "incomplete"
            ELSE IF f.kind = "text" /\ InvalidText(f) THEN "invalid" ELSE "complete"
    <3>1. CASE d.capped
      BY <1>1, <2>1, <3>1 DEF Verdict
    <3>2. CASE ~d.capped
      <4>1. Settled(f, h, capped)
        BY <1>1, <2>1, <3>2 DEF Settled
      <4> QED BY <3>2, <4>1, PayloadRule
    <3> QED BY <3>1, <3>2
  <2>3. v \in Outs
    BY <2>2 DEF Outs
  <2>4. CASE v = "complete"
    <3>1. 1 = IF h.kind \in Payloads /\ ~h.into THEN 1 ELSE N(f)
      BY <1>1, <1>4
    <3>2. Obeys(counted(Consumed(Filled(d, Sent(f, h))), 1), f, h, capped, a)
      BY <1>1, <2>4, <3>1, RowStores
    <3> HIDE DEF v, counted
    <3> QED BY <1>1, <1>2, <1>4, <2>2, <2>4, <3>2
  <2>5. CASE v # "complete"
    <3>1. v = "incomplete" => ~d.capped
      BY <2>2
    <3> HIDE DEF v
    <3>2. Obeys(Ends(d, v), f, h, capped, a) /\ Obeys(Ends(Consumed(d), v), f, h, capped, a)
      BY <1>1, <2>3, <2>5, <3>1, EndsObeys DEF v
    <3> QED BY <1>2, <1>4, <2>2, <2>5, <3>2
  <2> QED BY <2>4, <2>5
<1> QED BY <1>3, <1>4

LEMMA MappedArrayObeys ==
  ASSUME NEW f, NEW h, Offered(f, h), h.by = "row", f.kind \in Integral \cup Floats, NEW capped,
         NEW a \in Nat, a <= N(f), NEW d, Entered(d, f, h, capped, a)
  PROVE  Obeys(Pure!MappedArray(d, f, h, a), f, h, capped, a)
<1> DEFINE v == Verdict(f, h, capped, a)
           counted(y, got) == [y EXCEPT !.count = IF h.counts THEN got ELSE @]
<1>1. /\ h \in Rows /\ ByRow(h) /\ Lands(f, h) /\ Buffer(f, h) = <<>> /\ N(f) \in Nat
      /\ f.kind \notin Payloads /\ h.kind \notin Payloads /\ f.kind \notin Scalars
      /\ Ready(d, f, h, capped, a) /\ d.out = "complete" /\ ~TooMany(f, h)
  <2>1. h \in Rows /\ Stores(h, f.kind) /\ N(f) \in Nat
    BY RowsAre, SentIs
  <2>2. f.kind \notin Payloads /\ f.kind \notin Scalars /\ f.kind \notin {"text", "blob"}
    BY DEF Integral, Floats, Payloads, Scalars
  <2>3. h.kind \notin Payloads
    BY <2>1, <2>2 DEF Stores, Payloads
  <2>4. ByRow(h)
    BY DEF ByRow
  <2> QED BY <2>1, <2>2, <2>3, <2>4 DEF Lands, Buffer, Entered
<1>2. Settled(f, h, capped) /\ ~d.capped
  <2>1. h.cap \in Nat /\ f.kind \in Countable
    BY <1>1 DEF Rows, Countable
  <2>2. Bound(f, h) = h.cap
    BY <1>1, <2>1 DEF Bound
  <2>3. AboveCap(f, h, capped) = FALSE
    BY <2>1, <2>2 DEF AboveCap
  <2>4. d.capped = FALSE
    BY <1>1, <2>3 DEF Entered
  <2> QED BY <1>1, <2>3, <2>4 DEF Settled, BadBuffer
<1>3. N(f) = IF h.kind \in Payloads /\ ~h.into THEN 1 ELSE N(f)
  BY <1>1
<1>4. ASSUME v = "complete"
      PROVE  Obeys(counted(Consumed(Filled(d, Sent(f, h))), N(f)), f, h, capped, a)
  BY <1>1, <1>3, <1>4, RowStores
<1>5. CASE f.kind \in Floats
  <2>1. v = IF a < N(f) THEN "incomplete" ELSE "complete"
    BY <1>2, <1>5, FloatsRule
  <2>2. Sent(f, h) = f.elems
    BY <1>5, FloatsRule
  <2>3. Pure!MappedArray(d, f, h, a) =
          IF a < N(f) THEN Ends(d, "incomplete")
          ELSE counted(Consumed(Filled(d, f.elems)), N(f))
    BY <1>5, Shared, StepsShared, KindsShared DEF Pure!MappedArray, Pure!Stored, Pure!Short
  <2> HIDE DEF counted
  <2>4. CASE a < N(f)
    <3>1. Obeys(Ends(d, "incomplete"), f, h, capped, a)
      BY <1>1, <1>2, <2>1, <2>4, EndsObeys DEF Outs
    <3> QED BY <2>3, <2>4, <3>1
  <2>5. CASE ~(a < N(f))
    BY <1>4, <2>1, <2>2, <2>3, <2>5
  <2> QED BY <2>4, <2>5
<1>6. CASE f.kind \in Integral
  <2> DEFINE zigzag == f.kind = "signeds"
             read == ReadOf(f, h, a)
             x == read.values
             flags == [i \in DOMAIN x |-> IF x[i] > 1 THEN 1 ELSE x[i]]
             p == IF h.kind = "flags" THEN flags ELSE x
             m == Filled(d, x)
  <2>1. /\ x \in Seq(Int) /\ Len(x) <= a /\ \A i \in 1 .. Len(x) : x[i] = Values(f, zigzag)[i]
        /\ read.out \in {"complete", "incomplete", "invalid"}
        /\ read.out = "complete" => x = Values(f, zigzag)
        /\ read = Pure!ReadVarints(f, a, Lower(f, h), Upper(f, h), zigzag)
    BY <1>6, ReadIs
  <2>2. v = read.out
    BY <1>2, <1>6, IntegralRule
  <2>3. /\ Lower(f, h) = IF h.bounded /\ h.kind = "signeds" THEN <<h.lo>> ELSE <<>>
        /\ Upper(f, h) = IF h.bounded THEN <<h.hi>> ELSE <<>>
        /\ (h.kind = "signeds" <=> zigzag)
        /\ f.kind \notin Floats
    <3>1. f.kind \notin Floats
      BY <1>6 DEF Integral, Floats
    <3> QED BY <1>1, <1>6, <3>1, IntegralRule
  <2>4. Pure!MappedArray(d, f, h, a) =
          IF read.out # "complete" THEN Ends(m, read.out)
          ELSE counted(Consumed(Filled(d, p)), N(f))
    <3> HIDE DEF read
    <3>1. Pure!ReadVarints(f, a, IF h.bounded /\ h.kind = "signeds" THEN <<h.lo>> ELSE <<>>,
                           IF h.bounded THEN <<h.hi>> ELSE <<>>, h.kind = "signeds") = read
      <4>1. (h.kind = "signeds") = zigzag
        BY <2>3
      <4> QED BY <2>1, <2>3, <4>1
    <3> QED BY <2>3, <3>1, Shared, StepsShared, KindsShared
            DEF Pure!MappedArray, Pure!Stored, Pure!Short
  <2>5. ASSUME read.out = "complete" PROVE p = Sent(f, h)
    <3> DEFINE w == Values(f, zigzag)
    <3>1. x = w /\ w \in Seq(Int) /\ Len(w) = N(f)
      <4>1. f \in Fields /\ zigzag \in BOOLEAN
        BY <1>6, IntegralRule
      <4> HIDE DEF zigzag, x, read
      <4> QED BY <2>1, <2>5, <4>1, ValuesAre
    <3>2. CASE h.kind # "flags"
      <4>1. Sent(f, h) = w
        BY <1>6, <3>2, IntegralRule
      <4> QED BY <3>1, <3>2, <4>1
    <3>3. CASE h.kind = "flags"
      <4>1. ~zigzag /\ f.kind \notin {"signed", "signeds"} /\ f \in Fields
        BY <1>6, <2>3, <3>3, IntegralRule DEF Integral
      <4>2. Sent(f, h) = [i \in 1 .. N(f) |-> IF f.elems[i] # 0 THEN 1 ELSE f.elems[i]]
        BY <1>1, <3>3, <4>1 DEF Sent
      <4>3. w = [i \in 1 .. N(f) |-> f.elems[i]]
        BY <4>1 DEF Values
      <4>4. \A i \in 1 .. N(f) : f.elems[i] \in Nat
        BY <4>1 DEF Fields, N
      <4>5. flags = [i \in 1 .. N(f) |-> IF w[i] > 1 THEN 1 ELSE w[i]]
        <5>1. DOMAIN x = 1 .. N(f)
          <6> HIDE DEF x, w
          <6> QED BY <3>1
        <5> HIDE DEF x, w
        <5> QED BY <3>1, <5>1
      <4>6. \A i \in 1 .. N(f) : (IF w[i] > 1 THEN 1 ELSE w[i])
                                   = (IF f.elems[i] # 0 THEN 1 ELSE f.elems[i])
        <5> TAKE i \in 1 .. N(f)
        <5>1. w[i] = f.elems[i] /\ f.elems[i] \in Nat
          BY <4>3, <4>4
        <5> HIDE DEF w
        <5> QED BY <5>1
      <4> HIDE DEF flags, w
      <4>7. flags = Sent(f, h)
        BY <4>2, <4>5, <4>6
      <4> QED BY <3>3, <4>7
    <3> QED BY <3>2, <3>3
  <2> HIDE DEF p, counted
  <2>6. CASE read.out = "complete"
    BY <1>4, <2>2, <2>4, <2>5, <2>6
  <2>7. CASE read.out # "complete"
    <3> DEFINE out == read.out
    <3>1. /\ out = Verdict(f, h, capped, a) /\ out \in {"incomplete", "invalid"}
          /\ x \in Seq(Int) /\ Len(x) <= a
          /\ \A i \in 1 .. Len(x) : x[i] = Values(f, f.kind = "signeds")[i]
      BY <2>1, <2>2, <2>7
    <3> HIDE DEF x, out
    <3>2. Obeys(Ends(Filled(d, x), out), f, h, capped, a)
      BY <1>1, <1>2, <1>6, <3>1, PartlyObeys
    <3> QED BY <2>4, <2>7, <3>2 DEF out
  <2> QED BY <2>6, <2>7
<1> QED BY <1>5, <1>6

(* In front of a row's read the bound has not been settled.                *)
Offering(d, f, h, capped, a) ==
  /\ Ready(d, f, h, capped, a) /\ d.out = "complete"
  /\ Bound(f, h) < 0 /\ Buffer(f, h) = <<>> => d.capped = AboveCap(f, h, capped)
  /\ f.kind \in Scalars => ~d.capped /\ ~capped

LEMMA DeclaredIs ==
  ASSUME NEW f, NEW h, Offered(f, h), h.by = "row"
  PROVE  /\ Pure!Declared(h) = Bound(f, h)
         /\ \A d : (IF h.kind \in Integral \cup Floats \cup {"flags"} THEN Native!SettleBound(d, f, h.cap)
                    ELSE IF h.kind \in Payloads
                    THEN Native!SettleBound(d, f, IF h.cap > 0 THEN h.cap ELSE -1) ELSE d)
                   = Pure!SettleBound(d, f, Bound(f, h))
<1>1. h \in Rows /\ Stores(h, f.kind) /\ f \in Fields /\ h.cap \in Nat
  BY RowsAre DEF Offered, Rows
<1>2. /\ h.kind \in Integral \cup Floats \cup {"flags"} <=> f.kind \in Integral \cup Floats
      /\ h.kind \in Payloads <=> f.kind \in Payloads
  <2>1. f.kind # "flags"
    BY <1>1 DEF Fields, Scalars, Countable, Payloads, Integral, Floats
  <2> QED BY <1>1, <2>1 DEF Stores, Integral, Floats, Payloads
<1>3. /\ f.kind \in Payloads => f.kind \notin Integral \cup Floats
      /\ f.kind \in Countable <=> f.kind \in Payloads \cup Integral \cup Floats
  BY DEF Integral, Floats, Payloads, Countable
<1>4. Bound(f, h) = IF f.kind \in Integral \cup Floats THEN h.cap
                    ELSE IF f.kind \in Payloads /\ h.cap > 0 THEN h.cap ELSE -1
  BY <1>1, <1>3 DEF Bound, ByRow
<1>5. Pure!Declared(h) = Bound(f, h)
  BY <1>2, <1>3, <1>4, KindsShared DEF Pure!Declared
<1>6. \A d, b : Native!SettleBound(d, f, b) = Pure!SettleBound(d, f, b)
  BY Shared, StepsShared DEF Native!SettleBound, Pure!SettleBound
<1>7. \A d : Pure!SettleBound(d, f, -1) = d
  BY DEF Pure!SettleBound
<1> QED BY <1>1, <1>2, <1>3, <1>4, <1>5, <1>6, <1>7

(* A row's read, by the rule ...                                           *)
LEMMA MappedObeys ==
  ASSUME NEW f, NEW h, Offered(f, h), h.by = "row", NEW capped, NEW a \in Nat, a <= N(f),
         NEW d, Offering(d, f, h, capped, a)
  PROVE  Obeys(Pure!MappedField(d, f, h, a), f, h, capped, a)
<1> DEFINE b == Pure!SettleBound(d, f, Bound(f, h))
<1>1. IF TooMany(f, h) THEN b.out = "invalid" /\ Obeys(b, f, h, capped, a)
      ELSE Entered(b, f, h, capped, a)
  BY BoundObeys DEF Offering
<1>2. Pure!MappedField(d, f, h, a) =
        IF b.out # "complete" THEN b
        ELSE IF f.kind \in Scalars THEN Pure!MappedScalar(b, f, h, a)
        ELSE IF f.kind \in Payloads THEN Pure!MappedPayload(b, f, h, a)
        ELSE Pure!MappedArray(b, f, h, a)
  BY DeclaredIs, KindsShared DEF Pure!MappedField
<1> HIDE DEF b
<1>3. CASE TooMany(f, h)
  BY <1>1, <1>2, <1>3
<1>4. CASE ~TooMany(f, h)
  <2>1. Entered(b, f, h, capped, a) /\ b.out = "complete"
    BY <1>1, <1>4 DEF Entered
  <2>2. f.kind \in Scalars \cup Payloads \cup Integral \cup Floats
    BY DEF Offered, Fields, Countable
  <2>3. CASE f.kind \in Scalars
    BY <1>2, <2>1, <2>3, MappedScalarObeys
  <2>4. CASE f.kind \in Payloads
    <3>1. f.kind \notin Scalars
      BY <2>4 DEF Payloads, Scalars
    <3> QED BY <1>2, <2>1, <2>4, <3>1, MappedPayloadObeys
  <2>5. CASE f.kind \in Integral \cup Floats
    <3>1. f.kind \notin Scalars /\ f.kind \notin Payloads
      BY <2>5 DEF Payloads, Scalars, Integral, Floats
    <3> QED BY <1>2, <2>1, <2>5, <3>1, MappedArrayObeys
  <2> QED BY <2>2, <2>3, <2>4, <2>5
<1> QED BY <1>3, <1>4

(* ... and alike.                                                          *)
LEMMA MappedAlike ==
  ASSUME NEW f, NEW h, Offered(f, h), h.by = "row", ReadAlike(f, h), NEW a \in Nat,
         NEW d \in Decoders
  PROVE  Alike(Pure!MappedField(d, f, h, a), Native!MappedField(d, f, h, a))
<1> DEFINE b == Pure!SettleBound(d, f, Bound(f, h))
           nb == IF h.kind \in Integral \cup Floats \cup {"flags"} THEN Native!SettleBound(d, f, h.cap)
                 ELSE IF h.kind \in Payloads
                 THEN Native!SettleBound(d, f, IF h.cap > 0 THEN h.cap ELSE -1) ELSE d
<1>1. Pure!MappedField(d, f, h, a) =
        IF b.out # "complete" THEN b
        ELSE IF f.kind \in Scalars THEN Pure!MappedScalar(b, f, h, a)
        ELSE IF f.kind \in Payloads THEN Pure!MappedPayload(b, f, h, a)
        ELSE Pure!MappedArray(b, f, h, a)
  BY DeclaredIs, KindsShared DEF Pure!MappedField
<1>2. Native!MappedField(d, f, h, a) =
        IF nb.out # "complete" THEN nb
        ELSE IF f.kind \in Scalars THEN Native!MappedScalar(nb, f, h, a)
        ELSE IF f.kind \in Payloads THEN Native!MappedPayload(nb, f, h, a)
        ELSE Native!MappedArray(nb, f, h, a)
  BY KindsShared DEF Native!MappedField
<1>3. nb = b
  BY DeclaredIs
<1>4. b \in Decoders
  <2>1. Ends(d, "invalid") \in Decoders /\ Uncapped(d) \in Decoders
    <3>1. "invalid" \in Outs
      BY DEF Outs
    <3> QED BY <3>1, StepsTyped
  <2> QED BY <2>1, StepsShared DEF Pure!SettleBound
<1> HIDE DEF b, nb
<1>5. f.kind \in Scalars \cup Payloads \cup Integral \cup Floats
  BY DEF Offered, Fields, Countable
<1>6. f.kind \in Scalars => Native!MappedScalar(b, f, h, a) = Pure!MappedScalar(b, f, h, a)
  BY <1>4, MappedScalarAlike
<1>7. f.kind \in Payloads => Alike(Pure!MappedPayload(b, f, h, a), Native!MappedPayload(b, f, h, a))
  BY <1>4, MappedPayloadAlike
<1>8. f.kind \in Integral \cup Floats
        => Native!MappedArray(b, f, h, a) = Pure!MappedArray(b, f, h, a)
  BY <1>4, MappedArrayAlike
<1> QED BY <1>1, <1>2, <1>3, <1>5, <1>6, <1>7, <1>8 DEF Alike

-----------------------------------------------------------------------------
(* The walk, from a header parsed and from a value resumed.                *)

LEMMA SuspendsKeeps ==
  /\ \A d : Pure!Suspends(d) = Native!Suspends(d)
  /\ \A d \in Decoders : Pure!Suspends(d) \in Decoders /\ Pure!Suspends(d).out = d.out
  /\ \A p \in Decoders : \A n : Alike(p, n) => Alike(Pure!Suspends(p), Native!Suspends(n))
  /\ \A r, f, h, capped, a : Obeys(r, f, h, capped, a) => Obeys(Pure!Suspends(r), f, h, capped, a)
<1>1. \A d : Pure!Suspends(d) = Native!Suspends(d)
  BY DEF Pure!Suspends, Native!Suspends
<1>2. ASSUME NEW d \in Decoders
      PROVE  /\ Pure!Suspends(d) \in Decoders /\ Pure!Suspends(d).out = d.out
             /\ Pure!Suspends(d).mem = d.mem /\ Pure!Suspends(d).count = d.count
             /\ Pure!Suspends(d).calls = d.calls /\ Pure!Suspends(d).capped = d.capped
             /\ Pure!Suspends(Consumed(d)) = Consumed(Pure!Suspends(d))
  BY DEF Pure!Suspends, Decoders, Consumed
<1>3. ASSUME NEW p \in Decoders, NEW n, Alike(p, n)
      PROVE  Alike(Pure!Suspends(p), Native!Suspends(n))
  BY <1>1, <1>2, <1>3 DEF Alike
<1>4. ASSUME NEW r, NEW f, NEW h, NEW capped, NEW a, Obeys(r, f, h, capped, a)
      PROVE  Obeys(Pure!Suspends(r), f, h, capped, a)
  BY <1>2, <1>4 DEF Obeys
<1> QED BY <1>1, <1>2, <1>3, <1>4

LEMMA ParkedIs ==
  ASSUME NEW f, NEW h, Offered(f, h), NEW capped \in BOOLEAN
  PROVE  LET d == Parked(h, capped)
         IN /\ d \in Decoders /\ d.out = "complete" /\ d.count = -1 /\ d.calls = <<>>
            /\ d.capped = capped /\ \A i \in DOMAIN d.mem : d.mem[i] = Before
<1> DEFINE slots == IF h.by = "hooks" THEN (IF h.dst = <<>> THEN 0 ELSE h.dst[1].slots)
                    ELSE IF h.kind \in Payloads THEN (IF h.into THEN h.dst.slots ELSE 0)
                    ELSE IF h.kind \in Integral \cup Floats \cup {"flags"} THEN h.cap
                    ELSE 1
           m == [i \in 1 .. slots |-> Before]
<1>1. slots \in Nat
  <2>1. CASE h.by = "hooks"
    BY <2>1, HooksAre DEF Lent
  <2>2. CASE h.by # "hooks"
    <3>1. h \in Rows
      BY <2>2 DEF Offered, HookAnswers
    <3> QED BY <2>2, <3>1 DEF Rows, Lent
  <2> QED BY <2>1, <2>2
<1>2. Storage(h) = m
  BY DEF Storage
<1> HIDE DEF slots
<1>3. m \in Seq(Int) /\ \A i \in DOMAIN m : m[i] = Before
  BY <1>1, BeforeIs
<1> HIDE DEF m
<1>4. "complete" \in Outs /\ <<>> \in Seq(HookNames \X Seq(Int))
  BY DEF Outs
<1>5. Fresh \in Decoders /\ Fresh.out = "complete" /\ Fresh.count = -1 /\ Fresh.calls = <<>>
  <2>1. <<>> \in Seq(Int)
    OBVIOUS
  <2> QED BY <1>4, <2>1 DEF Fresh, Decoders
<1> DEFINE d == Parked(h, capped)
<1>6. d = [Fresh EXCEPT !.pend = TRUE, !.capped = capped, !.mem = m]
  BY <1>2 DEF Parked
<1> HIDE DEF m
<1>7. /\ d \in Decoders /\ d.out = "complete" /\ d.count = -1 /\ d.calls = <<>>
      /\ d.capped = capped /\ d.mem = m
  <2> HIDE DEF d
  <2> QED BY <1>3, <1>5, <1>6 DEF Decoders
<1> HIDE DEF d
<1> QED BY <1>3, <1>7 DEF d

(* What a handler is told of a header.                                     *)
LEMMA HeardIs ==
  ASSUME NEW f, NEW h, Offered(f, h), h.by = "hooks", NEW capped \in BOOLEAN,
         capped => f.kind \in Countable, NEW a \in Nat, a <= N(f)
  PROVE  LET heard == Told(Parked(h, capped), "on_field", <<N(f)>>)
             b == Pure!SchemaBound(heard, f, h)
         IN /\ heard \in Decoders /\ heard.out = "complete" /\ b \in Decoders
            /\ ReadAlike(f, h) => Native!SchemaBound(heard, f, h) = b
            /\ IF b.out = "complete" THEN Entered(b, f, h, capped, a) ELSE Obeys(b, f, h, capped, a)
<1> DEFINE d == Parked(h, capped)
           heard == Told(d, "on_field", <<N(f)>>)
           b == Pure!SchemaBound(heard, f, h)
           asked == Told(heard, "on_schema_bound", <<N(f)>>)
           one == <<"on_field", <<N(f)>>>>
           two == <<"on_schema_bound", <<N(f)>>>>
<1>1. /\ d \in Decoders /\ d.out = "complete" /\ d.count = -1 /\ d.calls = <<>>
      /\ d.capped = capped /\ \A i \in DOMAIN d.mem : d.mem[i] = Before
  BY ParkedIs
<1> HIDE DEF d
<1>2. <<N(f)>> \in Seq(Int) /\ "on_field" \in HookNames /\ "on_schema_bound" \in HookNames
  BY SentIs DEF HookNames
<1>3. heard \in Decoders /\ asked \in Decoders
  <2>1. heard \in Decoders
    BY <1>1, <1>2, StepsTyped
  <2> HIDE DEF heard
  <2> QED BY <1>2, <2>1, StepsTyped
<1>4. /\ heard.out = "complete" /\ heard.count = -1 /\ heard.calls = <<one>>
      /\ heard.mem = d.mem /\ heard.capped = capped
  BY <1>1 DEF Told, Decoders
<1> HIDE DEF heard
<1>5. /\ asked.out = "complete" /\ asked.count = -1 /\ Len(asked.calls) = 2
      /\ asked.calls[1] = one /\ asked.calls[2] = two
      /\ asked.mem = d.mem /\ asked.capped = capped
  <2>1. /\ asked.out = "complete" /\ asked.count = -1 /\ asked.calls = Append(heard.calls, two)
        /\ asked.mem = d.mem /\ asked.capped = capped
    BY <1>3, <1>4 DEF Told, Decoders
  <2> HIDE DEF one, two, asked
  <2> DEFINE c == <<one>>
  <2>2. c \in Seq({one, two}) /\ Len(c) = 1 /\ c[1] = one
    OBVIOUS
  <2> HIDE DEF c
  <2>3. Len(Append(c, two)) = 2 /\ Append(c, two)[1] = one /\ Append(c, two)[2] = two
    <3> DEFINE S == {one, two}
               e == Append(c, two)
    <3>1. two \in S /\ c \in Seq(S)
      BY <2>2
    <3> HIDE DEF S
    <3>2. Len(e) = Len(c) + 1 /\ (\A i \in 1 .. Len(c) : e[i] = c[i]) /\ e[Len(c) + 1] = two
      BY <3>1, AppendProperties
    <3> HIDE DEF e
    <3> QED BY <2>2, <3>2 DEF e
  <2> QED BY <1>4, <2>1, <2>3 DEF c
<1> HIDE DEF asked
<1>6. ~ByRow(h) /\ h.by # "row"
  BY DEF ByRow
<1>7. \A k : Holding(d.mem, f, k)
  BY <1>1 DEF Holding
<1>8. f.kind \in Countable <=> f.kind \in Payloads \cup Integral \cup Floats
  BY DEF Countable
<1>9. ReadAlike(f, h) => Native!SchemaBound(heard, f, h) = b
  <2> SUFFICES ASSUME ReadAlike(f, h) PROVE Native!SchemaBound(heard, f, h) = b
    OBVIOUS
  <2>4. f.kind \in Countable => Native!Fits(h.bound)
    BY Shared DEF ReadAlike, Native!Fits, Word
  <2>1. \A e : Native!SettleBound(e, f, h.bound) = Pure!SettleBound(e, f, h.bound)
    BY Shared, StepsShared DEF Native!SettleBound, Pure!SettleBound
  <2>2. CASE f.kind \in Countable
    BY <1>8, <2>1, <2>2, <2>4, Shared, StepsShared, KindsShared
       DEF Native!SchemaBound, Pure!SchemaBound
  <2>3. CASE f.kind \notin Countable
    BY <1>8, <2>3, KindsShared DEF Native!SchemaBound, Pure!SchemaBound
  <2> QED BY <2>2, <2>3
<1>10. CASE f.kind \notin Countable
  <2>1. b = heard
    BY <1>10, KindsShared DEF Pure!SchemaBound
  <2>2. f.kind \in Scalars /\ f.kind \notin Integral
    BY <1>10 DEF Offered, Fields, Countable
  <2>3. Asked(heard.calls, f, h)
    BY <1>4, <1>6, <1>10 DEF Asked
  <2>4. Ready(heard, f, h, capped, a)
    BY <1>3, <1>4, <1>7, <2>3 DEF Ready
  <2>5. ~TooMany(f, h) /\ capped = FALSE /\ AboveCap(f, h, capped) = FALSE
    BY <1>10 DEF TooMany, Bound, AboveCap
  <2>6. Entered(heard, f, h, capped, a)
    BY <1>4, <2>4, <2>5 DEF Entered
  <2> QED BY <1>3, <1>4, <1>9, <2>1, <2>6 DEF heard, d
<1>11. CASE f.kind \in Countable
  <2>1. f.kind \notin Scalars /\ Bound(f, h) = h.bound
    BY <1>6, <1>11 DEF Bound, Countable, Scalars, Payloads, Integral, Floats
  <2>2. b = Pure!SettleBound(asked, f, Bound(f, h))
    BY <1>11, <2>1, Shared, StepsShared, KindsShared DEF Pure!SchemaBound, asked
  <2>3. Asked(asked.calls, f, h)
    <3>1. DOMAIN asked.calls = 1 .. 2
      BY <1>3, <1>5 DEF Decoders
    <3> QED BY <1>5, <1>6, <1>11, <3>1 DEF Asked
  <2>4. Ready(asked, f, h, capped, a)
    BY <1>3, <1>5, <1>7, <2>3 DEF Ready
  <2>5. Bound(f, h) < 0 /\ Buffer(f, h) = <<>> => asked.capped = AboveCap(f, h, capped)
    BY <1>5 DEF AboveCap
  <2>6. IF TooMany(f, h) THEN b.out = "invalid" /\ Obeys(b, f, h, capped, a)
        ELSE Entered(b, f, h, capped, a)
    <3>1. LET x == Pure!SettleBound(asked, f, Bound(f, h))
          IN IF TooMany(f, h) THEN x.out = "invalid" /\ Obeys(x, f, h, capped, a)
             ELSE Entered(x, f, h, capped, a)
      BY <1>5, <2>1, <2>4, <2>5, BoundObeys
    <3> HIDE DEF b
    <3> QED BY <2>2, <3>1
  <2> HIDE DEF b
  <2>7. b \in Decoders /\ IF b.out = "complete" THEN Entered(b, f, h, capped, a)
                          ELSE Obeys(b, f, h, capped, a)
    BY <2>6 DEF Entered, Ready, Obeys
  <2> QED BY <1>3, <1>4, <1>9, <2>7 DEF b, heard, d
<1> QED BY <1>10, <1>11

Skipped(h) == h.by = "hooks" /\ h.skip

LEMMA WalkObeys ==
  ASSUME NEW f, NEW h, Offered(f, h), NEW capped \in BOOLEAN,
         capped => f.kind \in Countable, NEW a \in Nat, a <= N(f)
  PROVE  LET r == Pure!Walk(Parked(h, capped), f, h, a)
         IN /\ r \in Decoders
            /\ IF Skipped(h) THEN r.out = "complete" ELSE Obeys(r, f, h, capped, a)
            /\ ReadAlike(f, h) => Alike(r, Native!Walk(Parked(h, capped), f, h, a))
<1> DEFINE d == Parked(h, capped)
           heard == Told(d, "on_field", <<N(f)>>)
           b == Pure!SchemaBound(heard, f, h)
           r == Pure!Walk(d, f, h, a)
           n == Native!Walk(d, f, h, a)
<1>1. h.by \in {"row", "hooks"}
  BY DEF Offered, HookAnswers, Rows
<1>2. CASE h.by = "row"
  <2> DEFINE p == Pure!MappedField(d, f, h, a)
             q == Native!MappedField(d, f, h, a)
  <2>1. r = Pure!Suspends(p) /\ n = Native!Suspends(q) /\ ~Skipped(h)
    BY <1>2 DEF Pure!Walk, Native!Walk, Skipped
  <2>2. /\ d \in Decoders /\ d.out = "complete" /\ d.count = -1 /\ d.calls = <<>>
        /\ d.capped = capped /\ \A i \in DOMAIN d.mem : d.mem[i] = Before
    BY ParkedIs
  <2> HIDE DEF d
  <2>3. Offering(d, f, h, capped, a)
    <3>1. ByRow(h) /\ (f.kind \in Scalars => f.kind \notin Countable)
      BY <1>2 DEF ByRow, Scalars, Countable, Payloads, Integral, Floats
    <3>2. Ready(d, f, h, capped, a)
      BY <2>2, <3>1 DEF Ready, Holding, Asked
    <3> QED BY <2>2, <3>1, <3>2 DEF Offering, AboveCap
  <2>4. Obeys(p, f, h, capped, a)
    BY <1>2, <2>3, MappedObeys
  <2>5. ReadAlike(f, h) => Alike(p, q)
    BY <1>2, <2>2, MappedAlike
  <2> HIDE DEF p, q, r, n
  <2>6. p \in Decoders
    BY <2>4 DEF Obeys
  <2>7. /\ r \in Decoders /\ ~Skipped(h) /\ Obeys(r, f, h, capped, a)
        /\ ReadAlike(f, h) => Alike(r, n)
    BY <2>1, <2>4, <2>5, <2>6, SuspendsKeeps
  <2> QED BY <2>7 DEF r, n, d
<1>3. CASE h.by = "hooks"
  <2>1. /\ heard \in Decoders /\ heard.out = "complete" /\ b \in Decoders
        /\ ReadAlike(f, h) => Native!SchemaBound(heard, f, h) = b
        /\ IF b.out = "complete" THEN Entered(b, f, h, capped, a) ELSE Obeys(b, f, h, capped, a)
    BY <1>3, HeardIs
  <2> DEFINE p == Pure!VisitValue(b, f, h, a)
             q == Native!VisitValue(b, f, h, a)
  <2>2. /\ r = IF h.skip THEN heard ELSE IF b.out # "complete" THEN b ELSE Pure!Suspends(p)
        /\ ReadAlike(f, h) =>
             n = IF h.skip THEN heard ELSE IF b.out # "complete" THEN b ELSE Native!Suspends(q)
    <3>1. Pure!Told(d, "on_field", <<Pure!N(f)>>) = heard
          /\ Native!Told(d, "on_field", <<Native!N(f)>>) = heard
      BY Shared, StepsShared
    <3> HIDE DEF heard
    <3> QED BY <1>3, <2>1, <3>1 DEF Pure!Walk, Native!Walk
  <2>3. b.out = "complete" => Obeys(p, f, h, capped, a) /\ (ReadAlike(f, h) => Alike(p, q))
    <3> HIDE DEF b
    <3> QED BY <1>3, <2>1, VisitedObeys, VisitedAlike
  <2> HIDE DEF b, heard, p, q, r, n
  <2>4. Skipped(h) <=> h.skip
    BY <1>3 DEF Skipped
  <2>5. CASE h.skip
    <3>1. r = heard /\ (ReadAlike(f, h) => n = heard)
      BY <2>2, <2>5
    <3> QED BY <2>1, <2>4, <2>5, <3>1 DEF Alike, r, n, d
  <2>6. CASE ~h.skip /\ b.out # "complete"
    <3>1. r = b /\ (ReadAlike(f, h) => n = b)
      BY <2>2, <2>6
    <3> QED BY <2>1, <2>4, <2>6, <3>1 DEF Alike, r, n, d
  <2>7. CASE ~h.skip /\ b.out = "complete"
    <3>1. r = Pure!Suspends(p) /\ (ReadAlike(f, h) => n = Native!Suspends(q))
      BY <2>2, <2>7
    <3>2. p \in Decoders
      BY <2>3, <2>7 DEF Obeys
    <3>3. /\ r \in Decoders /\ Obeys(r, f, h, capped, a) /\ (ReadAlike(f, h) => Alike(r, n))
      BY <2>3, <2>7, <3>1, <3>2, SuspendsKeeps
    <3> QED BY <2>4, <2>7, <3>3 DEF r, n, d
  <2> QED BY <2>5, <2>6, <2>7
<1> QED BY <1>1, <1>2, <1>3

LEMMA ResumeObeys ==
  ASSUME NEW f, NEW h, Offered(f, h), ~Skipped(h), NEW capped \in BOOLEAN,
         capped => f.kind \in Countable, NEW a \in Nat, NEW b \in Nat, a <= b, b <= N(f),
         NEW d, Obeys(d, f, h, capped, a), d.out = "incomplete"
  PROVE  LET r == Pure!Resume(d, f, h, b)
         IN /\ Obeys(r, f, h, capped, b)
            /\ ReadAlike(f, h) => Alike(r, Native!Resume(d, f, h, b))
<1> DEFINE e == Ends(d, "complete")
           r == Pure!Resume(d, f, h, b)
           n == Native!Resume(d, f, h, b)
           p == IF h.by = "row" THEN Pure!MappedField(e, f, h, b) ELSE Pure!VisitValue(e, f, h, b)
           q == IF h.by = "row" THEN Native!MappedField(e, f, h, b) ELSE Native!VisitValue(e, f, h, b)
           ready == f.kind \in Whole => b >= N(f)
<1>1. /\ N(f) \in Nat /\ d \in Decoders /\ d.count = -1 /\ ~d.capped /\ Asked(d.calls, f, h)
      /\ Holding(d.mem, f, Front(f, h, a)) /\ Verdict(f, h, capped, a) = "incomplete"
  BY SentIs DEF Obeys, Counted, Handed
<1>2. Settled(f, h, capped)
  BY <1>1 DEF Verdict, Settled
<1>3. Holding(d.mem, f, Front(f, h, b))
  <2>1. \A i \in DOMAIN d.mem : i \in Nat
    BY <1>1 DEF Decoders
  <2>2. Front(f, h, a) \in Nat /\ Front(f, h, b) \in Nat /\ Front(f, h, a) <= Front(f, h, b)
    BY DEF Front
  <2>3. \A i \in DOMAIN d.mem : i <= Front(f, h, a) => i <= Front(f, h, b)
    BY <2>1, <2>2
  <2> QED BY <1>1, <2>3 DEF Holding
<1>4. Ready(d, f, h, capped, b)
  BY <1>1, <1>2, <1>3 DEF Ready
<1>5. e \in Decoders /\ e.out = "complete" /\ e.capped = FALSE /\ Ready(e, f, h, capped, b)
  <2>1. /\ e \in Decoders /\ e.out = "complete" /\ e.capped = FALSE /\ e.mem = d.mem
        /\ e.count = -1 /\ e.calls = d.calls
    <3>1. "complete" \in Outs
      BY DEF Outs
    <3> QED BY <1>1, <3>1 DEF Ends, Decoders
  <2> HIDE DEF e
  <2> QED BY <1>1, <1>2, <1>3, <2>1 DEF Ready
<1> HIDE DEF e
<1>6. f.kind \in Scalars => ~capped
  BY DEF Scalars, Countable, Payloads, Integral, Floats
<1>7. Entered(e, f, h, capped, b) /\ Offering(e, f, h, capped, b)
  <2>1. AboveCap(f, h, capped) = FALSE /\ ~TooMany(f, h)
    BY <1>2 DEF Settled, AboveCap
  <2> QED BY <1>5, <1>6, <2>1 DEF Entered, Offering
<1>8. Obeys(p, f, h, capped, b) /\ (ReadAlike(f, h) => Alike(p, q))
  <2>1. CASE h.by = "row"
    <3>1. Obeys(Pure!MappedField(e, f, h, b), f, h, capped, b)
      BY <1>7, <2>1, MappedObeys
    <3>2. ReadAlike(f, h) => Alike(Pure!MappedField(e, f, h, b), Native!MappedField(e, f, h, b))
      BY <1>5, <2>1, MappedAlike
    <3> QED BY <2>1, <3>1, <3>2
  <2>2. CASE h.by # "row"
    <3>1. h.by = "hooks"
      BY <2>2 DEF Offered, HookAnswers, Rows
    <3>2. Obeys(Pure!VisitValue(e, f, h, b), f, h, capped, b)
      BY <1>7, <3>1, VisitedObeys
    <3>3. ReadAlike(f, h) => Alike(Pure!VisitValue(e, f, h, b), Native!VisitValue(e, f, h, b))
      BY <1>5, <3>1, VisitedAlike
    <3> QED BY <2>2, <3>2, <3>3
  <2> QED BY <2>1, <2>2
<1>9. /\ r = IF ~ready THEN Ends(d, "incomplete") ELSE Pure!Suspends(p)
      /\ n = IF ~ready THEN Ends(d, "incomplete") ELSE Native!Suspends(q)
  <2>1. Pure!ValueReady(f, b) <=> ready
    BY Shared, KindsShared DEF Pure!ValueReady
  <2>2. Native!ValueReady(f, b) <=> ready
    BY Shared, KindsShared DEF Native!ValueReady
  <2>3. Pure!Ends(d, "complete") = e /\ Native!Ends(d, "complete") = e
        /\ Pure!Ends(d, "incomplete") = Ends(d, "incomplete")
        /\ Native!Ends(d, "incomplete") = Ends(d, "incomplete")
    BY StepsShared DEF e
  <2> HIDE DEF ready
  <2>4. r = IF ~ready THEN Ends(d, "incomplete") ELSE Pure!Suspends(p)
    BY <2>1, <2>3 DEF Pure!Resume
  <2>5. n = IF ~ready THEN Ends(d, "incomplete") ELSE Native!Suspends(q)
    BY <2>2, <2>3 DEF Native!Resume
  <2> QED BY <2>4, <2>5
<1> HIDE DEF p, q, r, n
<1>10. CASE ready
  <2>1. r = Pure!Suspends(p) /\ n = Native!Suspends(q)
    <3> HIDE DEF ready
    <3> QED BY <1>9, <1>10
  <2>2. p \in Decoders
    BY <1>8 DEF Obeys
  <2>3. Obeys(r, f, h, capped, b) /\ (ReadAlike(f, h) => Alike(r, n))
    BY <1>8, <2>1, <2>2, SuspendsKeeps
  <2> QED BY <2>3 DEF r, n
<1>11. CASE ~ready
  <2>1. r = Ends(d, "incomplete") /\ n = r
    <3> HIDE DEF ready
    <3> QED BY <1>9, <1>11
  <2>2. Verdict(f, h, capped, b) = "incomplete"
    <3>1. f.kind \in Whole /\ b < N(f)
      BY <1>1, <1>11
    <3>2. ~\E i \in 1 .. Seen(f, b) : Refused(f, h, i)
      BY <3>1 DEF Seen
    <3> QED BY <1>2, <3>1, <3>2 DEF Verdict, Settled
  <2>3. Obeys(Ends(d, "incomplete"), f, h, capped, b)
    BY <1>1, <1>4, <2>2, EndsObeys DEF Outs
  <2> QED BY <2>1, <2>3 DEF Alike, r, n
<1> QED BY <1>10, <1>11

LEMMA SkipsAlike ==
  ASSUME NEW f, NEW d \in Decoders
  PROVE  /\ Native!SkipPending(d, f) = Pure!SkipPending(d, f)
         /\ Pure!SkipPending(d, f) \in Decoders
         /\ Pure!SkipPending(d, f).out \in {"complete", "invalid"}
<1>1. Fresh \in Decoders /\ Fresh.out = "complete"
  BY DEF Fresh, Decoders, Outs
<1>2. Ends(d, "invalid") \in Decoders /\ Ends(d, "invalid").out = "invalid"
  <2>1. "invalid" \in Outs
    BY DEF Outs
  <2>2. \A o \in Outs : Ends(d, o) \in Decoders /\ Ends(d, o).out = o
    BY StepsTyped
  <2> QED BY <2>1, <2>2
<1>3. Native!SkipPending(d, f) = Pure!SkipPending(d, f)
  BY StepsShared, KindsShared DEF Native!SkipPending, Pure!SkipPending
<1>4. Pure!SkipPending(d, f) = Fresh \/ Pure!SkipPending(d, f) = Ends(d, "invalid")
  BY StepsShared DEF Pure!SkipPending
<1> QED BY <1>1, <1>2, <1>3, <1>4

-----------------------------------------------------------------------------
(* What is true of the field in hand and of the decoder behind it.         *)
Offer ==
  \E o \in Offers : o.field = field /\ o.answer = answer

InHand ==
  field # NoField =>
    /\ Offered(field, answer) /\ Offer
    /\ over \in BOOLEAN /\ (over => field.kind \in Countable)
    /\ arrived \in Nat /\ arrived <= N(field)
    /\ Open => Obeys(pure, field, answer, over, arrived)
    /\ ~Open => pure.out = "complete"

ByTheRule ==
  /\ pure \in Decoders
  /\ field = NoField => pure.out # "incomplete"
  /\ InHand

(* What the engines have is the same, but a value that was refused.        *)
InStep ==
  /\ field = NoField => native = pure
  /\ Alike(pure, native)

LEMMA OfferIs ==
  ASSUME NEW o \in Offers
  PROVE  Offered(o.field, o.answer) /\ o.field # NoField
<1>1. Offered(o.field, o.answer)
  BY OffersAssumption DEF Offered
<1>2. o.field.kind # "none"
  BY <1>1 DEF Offered, Fields, Scalars, Countable, Payloads, Integral, Floats
<1> QED BY <1>1, <1>2 DEF NoField

LEMMA RuleStarts == Init => ByTheRule /\ InStep
<1> SUFFICES ASSUME Init PROVE ByTheRule /\ InStep
  OBVIOUS
<1>1. Fresh \in Decoders /\ Fresh.out = "complete"
  BY DEF Fresh, Decoders, Outs
<1> QED BY <1>1 DEF Init, ByTheRule, InHand, InStep, Alike

LEMMA HeaderKeeps ==
  ASSUME NEW o \in Offers, NEW capped \in BOOLEAN, NEW a \in 0 .. 2, a <= N(o.field),
         Header(o.field, o.answer, capped, a)
  PROVE  ByTheRule' /\ (OffersAlike => InStep')
<1> DEFINE f == o.field
           h == o.answer
           r == Pure!Walk(Parked(h, capped), f, h, a)
           n == Native!Walk(Parked(h, capped), f, h, a)
<1>1. Offered(f, h) /\ f # NoField /\ a \in Nat /\ (capped => f.kind \in Countable)
  BY OfferIs DEF Header
<1>2. /\ r \in Decoders
      /\ IF Skipped(h) THEN r.out = "complete" ELSE Obeys(r, f, h, capped, a)
      /\ ReadAlike(f, h) => Alike(r, n)
  <2> HIDE DEF f, h
  <2>1. a <= N(f)
    BY DEF f
  <2> QED BY <1>1, <2>1, WalkObeys
<1>3. field' = f /\ answer' = h /\ over' = capped /\ arrived' = a /\ pure' = r /\ native' = n
  BY DEF Header
<1>4. Open' <=> ~Skipped(h)
  BY <1>1, <1>3 DEF Open, Skipped
<1>5. Offer' /\ arrived' <= N(field')
  BY <1>3 DEF Offer
<1> HIDE DEF f, h, r, n
<1>6. InHand'
  BY <1>1, <1>2, <1>3, <1>4, <1>5 DEF InHand
<1>7. OffersAlike => ReadAlike(f, h)
  BY DEF OffersAlike, f, h
<1> QED BY <1>1, <1>2, <1>3, <1>6, <1>7 DEF ByTheRule, InStep

LEMMA FeedKeeps ==
  ASSUME ByTheRule, NEW k \in 1 .. 2, Feed(k)
  PROVE  ByTheRule' /\ (OffersAlike /\ InStep => InStep')
<1> DEFINE b == arrived + k
           r == Pure!Resume(pure, field, answer, b)
           n == Native!Resume(pure, field, answer, b)
<1>1. field # NoField /\ Open /\ pure.out = "incomplete"
  BY DEF Feed, ByTheRule, InHand
<1>2. /\ Offered(field, answer) /\ Offer /\ ~Skipped(answer)
      /\ over \in BOOLEAN /\ (over => field.kind \in Countable)
      /\ arrived \in Nat /\ Obeys(pure, field, answer, over, arrived)
  BY <1>1 DEF ByTheRule, InHand, Open, Skipped
<1>3. b \in Nat /\ arrived <= b /\ b <= N(field)
  BY <1>2 DEF Feed
<1>4. /\ field' = field /\ answer' = answer /\ over' = over /\ arrived' = b /\ pure' = r
      /\ native' = Native!Resume(native, field, answer, b)
  BY DEF Feed
<1> HIDE DEF b
<1>5. Obeys(r, field, answer, over, b) /\ (ReadAlike(field, answer) => Alike(r, n))
  BY <1>1, <1>2, <1>3, ResumeObeys
<1>6. r \in Decoders
  BY <1>5 DEF Obeys
<1>7. Open' /\ Offer'
  BY <1>1, <1>2, <1>4 DEF Open, Offer
<1>8. OffersAlike => ReadAlike(field, answer)
  BY <1>2 DEF OffersAlike, Offer
<1>9. InStep => native = pure
  BY <1>1 DEF InStep, Alike
<1> HIDE DEF r
<1>10. InHand'
  BY <1>2, <1>3, <1>4, <1>5, <1>7 DEF InHand
<1>11. OffersAlike /\ InStep => native' = n /\ Alike(r, n)
  BY <1>4, <1>5, <1>8, <1>9
<1> HIDE DEF n
<1> QED BY <1>1, <1>4, <1>6, <1>10, <1>11 DEF ByTheRule, InStep

LEMMA NextHeaderKeeps ==
  ASSUME ByTheRule, NextHeader
  PROVE  ByTheRule' /\ (InStep => InStep')
<1>1. pure \in Decoders
  BY DEF ByTheRule
<1>2. InStep => native = pure
  BY DEF NextHeader, InStep, Alike
<1>3. field' = NoField /\ pure' = Pure!SkipPending(pure, field)
      /\ native' = Native!SkipPending(native, field)
  BY DEF NextHeader
<1>4. pure' \in Decoders /\ pure'.out # "incomplete"
      /\ Native!SkipPending(pure, field) = pure'
  BY <1>1, <1>3, SkipsAlike
<1> QED BY <1>2, <1>3, <1>4 DEF ByTheRule, InHand, InStep, Alike

LEMMA ResetKeeps ==
  ASSUME Reset
  PROVE  ByTheRule' /\ InStep'
<1>1. Fresh \in Decoders /\ Fresh.out = "complete"
  BY DEF Fresh, Decoders, Outs
<1>2. field' = NoField /\ pure' = Fresh /\ native' = Fresh
  BY StepsShared DEF Reset, Pure!Reset, Native!Reset
<1> QED BY <1>1, <1>2 DEF ByTheRule, InHand, InStep, Alike

LEMMA StepKeeps ==
  ASSUME ByTheRule, [Next]_vars
  PROVE  ByTheRule' /\ (OffersAlike /\ InStep => InStep')
<1>1. ASSUME NEW o \in Offers, NEW capped \in BOOLEAN, NEW a \in 0 .. 2, a <= N(o.field),
             Header(o.field, o.answer, capped, a)
      PROVE  ByTheRule' /\ (OffersAlike /\ InStep => InStep')
  BY <1>1, HeaderKeeps
<1>2. ASSUME NEW k \in 1 .. 2, Feed(k)
      PROVE  ByTheRule' /\ (OffersAlike /\ InStep => InStep')
  BY <1>2, FeedKeeps
<1>3. CASE NextHeader
  BY <1>3, NextHeaderKeeps
<1>4. CASE Reset
  BY <1>4, ResetKeeps
<1>5. CASE UNCHANGED vars
  BY <1>5 DEF vars, ByTheRule, InHand, Offer, Open, InStep
<1> QED BY <1>1, <1>2, <1>3, <1>4, <1>5 DEF Next

(* The rule is an invariant of the pure reads: between any two calls of    *)
(* feed or reset, the decoder (its answer, its hook calls, the caller's    *)
(* storage and the count) is what the rule says of the field in hand and   *)
(* of the units that have arrived.                                         *)
THEOREM ReadsByRule == Spec => []ByTheRule
<1>1. Init => ByTheRule
  BY RuleStarts
<1>2. ByTheRule /\ [Next]_vars => ByTheRule'
  BY StepKeeps
<1> QED BY <1>1, <1>2, PTL DEF Spec

(* VerdictByRule, for every field and answer: what feed answers of a value *)
(* does not depend on the pieces it came in nor on whether a bound, a      *)
(* buffer or a cap was settled first, at the header or on a later feed.    *)
THEOREM VerdictIsTheRules == Spec => []VerdictByRule
<1>1. ByTheRule => VerdictByRule
  BY DEF ByTheRule, InHand, Open, Obeys, VerdictByRule
<1> QED BY <1>1, ReadsByRule, PTL

(* HandedOverOnce, for every field and answer: however often a read starts *)
(* over, the visitor is offered the field once, asked for its bound once,  *)
(* and handed the value once, last, and not at all where a row or a buffer *)
(* took it.                                                                *)
THEOREM ValueHandedOverOnce == Spec => []HandedOverOnce
<1>1. ASSUME ByTheRule, Open
      PROVE  LET calls   == pure.calls
                 told    == DOMAIN calls \ Calls(First \cup Begins)
                 counted == field.kind \in Countable
             IN IF ByRow(answer) THEN calls = <<>>
                ELSE /\ Calls({"on_field"}) = {1}
                     /\ Calls({"on_schema_bound"}) = IF counted THEN {2} ELSE {}
                     /\ Calls(Begins) # {} => counted
                     /\ IF Taken /\ Buffer(field, answer) = <<>>
                        THEN told = {Len(calls)} /\ calls[Len(calls)][2] = Sent(field, answer)
                        ELSE told = {}
  <2> DEFINE calls == pure.calls
             counted == field.kind \in Countable
             told == DOMAIN calls \ Calls(First \cup Begins)
             over1 == ~ByRow(answer) /\ pure.out = "complete" /\ Buffer(field, answer) = <<>>
  <2>1. /\ pure \in Decoders /\ Handed(calls, field, answer, pure.out)
        /\ calls \in Seq(HookNames \X Seq(Int))
    <3>1. Obeys(pure, field, answer, over, arrived)
      BY <1>1 DEF ByTheRule, InHand, Open
    <3> QED BY <3>1 DEF Obeys, Decoders
  <2>2. CASE ByRow(answer)
    BY <2>1, <2>2 DEF Handed, Asked
  (* The hooks of a run of calls that hands nothing over.                  *)
  <2>3. ASSUME NEW c \in Seq(HookNames \X Seq(Int)), ~ByRow(answer), Asked(c, field, answer)
        PROVE  /\ \A i \in DOMAIN c : (c[i][1] = "on_field" <=> i = 1)
               /\ \A i \in DOMAIN c : (c[i][1] = "on_schema_bound" <=> counted /\ i = 2)
               /\ \A i \in DOMAIN c : c[i][1] \in Begins => counted
               /\ \A i \in DOMAIN c : c[i][1] \in First \cup Begins
               /\ Len(c) \in Nat /\ Len(c) >= 1 /\ (counted => Len(c) >= 2) /\ DOMAIN c = 1 .. Len(c)
    <3>1. /\ Len(c) \in Nat /\ Len(c) >= 1 /\ (counted => Len(c) >= 2) /\ DOMAIN c = 1 .. Len(c)
          /\ c[1][1] = "on_field" /\ (counted => c[2][1] = "on_schema_bound")
      BY <2>3 DEF Asked
    <3>2. ASSUME NEW i \in DOMAIN c
          PROVE  \/ i = 1
                 \/ counted /\ i = 2
                 \/ counted /\ i > 2 /\ c[i][1] \in Begins
      <4>1. i \in Nat /\ i >= 1
        BY <3>1
      <4>2. CASE i > (IF counted THEN 2 ELSE 1)
        BY <2>3, <4>2 DEF Asked
      <4>3. CASE ~(i > (IF counted THEN 2 ELSE 1))
        BY <4>1, <4>3
      <4> QED BY <4>2, <4>3
    <3>3. "on_field" \notin Begins /\ "on_schema_bound" \notin Begins
      BY DEF Begins
    <3>4. ASSUME NEW i \in DOMAIN c
          PROVE  /\ (c[i][1] = "on_field" <=> i = 1)
                 /\ (c[i][1] = "on_schema_bound" <=> counted /\ i = 2)
                 /\ (c[i][1] \in Begins => counted)
                 /\ c[i][1] \in First \cup Begins
      <4>1. CASE i = 1
        BY <3>1, <3>3, <4>1 DEF First
      <4>2. CASE counted /\ i = 2
        BY <3>1, <3>3, <4>2 DEF First
      <4>3. CASE counted /\ i > 2 /\ c[i][1] \in Begins
        BY <3>3, <4>3
      <4> QED BY <3>2, <4>1, <4>2, <4>3
    <3> QED BY <3>1, <3>4
  <2>4. CASE ~ByRow(answer) /\ ~over1
    <3>1. Asked(calls, field, answer)
      BY <2>1, <2>4 DEF Handed
    <3>2. /\ Calls({"on_field"}) = {1}
          /\ Calls({"on_schema_bound"}) = IF counted THEN {2} ELSE {}
          /\ Calls(Begins) # {} => counted
          /\ told = {}
      <4> HIDE DEF counted
      <4> QED BY <2>1, <2>3, <2>4, <3>1 DEF Calls
    <3>3. ~(Taken /\ Buffer(field, answer) = <<>>)
      BY <2>4 DEF Taken
    <3> QED BY <2>4, <3>2, <3>3
  <2>5. CASE over1
    <3>1. PICK c \in Seq(HookNames \X Seq(Int)), m \in HookNames \ (First \cup Begins) :
            Asked(c, field, answer) /\ calls = Append(c, <<m, Sent(field, answer)>>)
      BY <2>1, <2>5 DEF Handed
    <3> DEFINE n == Len(c)
               x == <<m, Sent(field, answer)>>
    <3>2. /\ \A i \in DOMAIN c : (c[i][1] = "on_field" <=> i = 1)
          /\ \A i \in DOMAIN c : (c[i][1] = "on_schema_bound" <=> counted /\ i = 2)
          /\ \A i \in DOMAIN c : c[i][1] \in Begins => counted
          /\ \A i \in DOMAIN c : c[i][1] \in First \cup Begins
          /\ n \in Nat /\ n >= 1 /\ (counted => n >= 2) /\ DOMAIN c = 1 .. n
      BY <2>3, <2>5, <3>1
    <3>3. Sent(field, answer) \in Seq(Int)
      BY <1>1, SentIs DEF ByTheRule, InHand, Open
    <3>4. /\ Len(calls) = n + 1 /\ DOMAIN calls = 1 .. n + 1 /\ calls[n + 1] = x
          /\ \A i \in 1 .. n : calls[i] = c[i]
      <4> DEFINE S == HookNames \X Seq(Int)
      <4>1. x \in S /\ c \in Seq(S)
        BY <3>1, <3>3
      <4> HIDE DEF S, x
      <4>2. /\ Append(c, x) \in Seq(S) /\ Len(Append(c, x)) = Len(c) + 1
            /\ (\A i \in 1 .. Len(c) : Append(c, x)[i] = c[i]) /\ Append(c, x)[Len(c) + 1] = x
        BY <4>1, AppendProperties
      <4>3. calls = Append(c, x)
        BY <3>1 DEF x
      <4> QED BY <3>2, <4>2, <4>3
    <3>5. calls[n + 1][1] = m /\ calls[n + 1][2] = Sent(field, answer)
      BY <3>4
    <3>6. m \notin First \cup Begins /\ m # "on_field" /\ m # "on_schema_bound"
      BY <3>1 DEF First
    <3> HIDE DEF x, n, calls, counted, over1
    <3>7. ASSUME NEW i \in 1 .. n + 1
          PROVE  /\ (calls[i][1] = "on_field" <=> i = 1)
                 /\ (calls[i][1] = "on_schema_bound" <=> counted /\ i = 2)
                 /\ (calls[i][1] \in Begins => counted)
                 /\ (calls[i][1] \in First \cup Begins <=> i # n + 1)
      <4>1. CASE i = n + 1
        BY <3>2, <3>5, <3>6, <4>1
      <4>2. CASE i # n + 1
        <5>1. i \in 1 .. n /\ i \in DOMAIN c /\ calls[i] = c[i]
          BY <3>2, <3>4, <4>2
        <5> QED BY <3>2, <4>2, <5>1
      <4> QED BY <4>1, <4>2
    <3>8. /\ Calls({"on_field"}) = {1}
          /\ Calls({"on_schema_bound"}) = IF counted THEN {2} ELSE {}
          /\ Calls(Begins) # {} => counted
          /\ told = {n + 1}
      <4>1. \A names : Calls(names) = {i \in 1 .. n + 1 : calls[i][1] \in names}
        BY <3>4 DEF Calls, calls
      <4>2. Calls({"on_field"}) = {1}
        BY <3>2, <3>7, <4>1
      <4>3. Calls({"on_schema_bound"}) = IF counted THEN {2} ELSE {}
        <5>1. Calls({"on_schema_bound"}) = {i \in 1 .. n + 1 : counted /\ i = 2}
          BY <3>7, <4>1
        <5>2. CASE counted
          <6>1. 2 \in 1 .. n + 1
            BY <3>2, <5>2
          <6>2. Calls({"on_schema_bound"}) = {i \in 1 .. n + 1 : i = 2}
            BY <5>1, <5>2
          <6>3. {i \in 1 .. n + 1 : i = 2} = {2}
            BY <6>1
          <6> QED BY <5>2, <6>2, <6>3
        <5>3. CASE ~counted
          BY <5>1, <5>3
        <5> QED BY <5>2, <5>3
      <4>4. Calls(Begins) # {} => counted
        BY <3>7, <4>1
      <4>5. told = {n + 1}
        <5>1. told = {i \in 1 .. n + 1 : calls[i][1] \notin First \cup Begins}
          BY <3>4, <4>1 DEF told
        <5>2. \A i \in 1 .. n + 1 : calls[i][1] \notin First \cup Begins <=> i = n + 1
          BY <3>7
        <5>3. n + 1 \in 1 .. n + 1
          BY <3>2
        <5> HIDE DEF told
        <5>4. \A i : i \in told <=> i \in 1 .. n + 1 /\ i = n + 1
          BY <5>1, <5>2
        <5>5. \A i : i \in told <=> i \in {n + 1}
          BY <5>3, <5>4
        <5> QED BY <5>5
      <4> QED BY <4>2, <4>3, <4>4, <4>5
    <3>9. Taken /\ Buffer(field, answer) = <<>> /\ ~ByRow(answer)
      BY <1>1, <2>5 DEF Taken, over1
    <3> QED BY <3>4, <3>5, <3>8, <3>9 DEF calls, counted
  <2> QED BY <2>2, <2>4, <2>5
<1>2. ByTheRule => HandedOverOnce
  BY <1>1 DEF HandedOverOnce
<1> QED BY <1>2, ReadsByRule, PTL

(* Both engines stay in step, where they are answered in a way they read   *)
(* alike.                                                                  *)
LEMMA ReadsAlike ==
  ASSUME OffersAlike
  PROVE  Spec => [](ByTheRule /\ InStep)
<1>1. Init => ByTheRule /\ InStep
  BY RuleStarts
<1>2. ByTheRule /\ InStep /\ [Next]_vars => (ByTheRule /\ InStep)'
  BY StepKeeps
<1> QED BY <1>1, <1>2, PTL DEF Spec

(* In step is what EnginesAgree says.                                      *)
LEMMA AlikeIs ==
  ASSUME ByTheRule, InStep
  PROVE  EnginesAgree
<1>1. pure \in Decoders
  BY DEF ByTheRule
<1>2. native = pure \/ native = Consumed(pure)
  BY DEF InStep, Alike
<1> QED BY <1>1, <1>2 DEF EnginesAgree, Consumed, Decoders

(* EnginesAgree, for every answer but the bounds and ends the native engine*)
(* does not convert to a word or reads otherwise (OffersAlike): decoder.py *)
(* and _speedups.pyx give the same verdict, store the same words and call  *)
(* the same hooks, piece by piece.                                         *)
THEOREM TwoEnginesAgree ==
  ASSUME OffersAlike
  PROVE  Spec => []EnginesAgree
<1>1. ByTheRule /\ InStep => EnginesAgree
  BY AlikeIs
<1> QED BY <1>1, ReadsAlike, PTL

(* DestinationKept, under the same condition: the caller's storage is      *)
(* written by the native engine with what was sent and nothing else, never *)
(* ahead of the settled bound, buffer and cap, a payload or a float array  *)
(* whole or not at all, and the count slot with every value that completes.*)
THEOREM StorageIsKept ==
  ASSUME OffersAlike
  PROVE  Spec => []DestinationKept
<1>1. ASSUME ByTheRule, InStep, Open
      PROVE  LET sent   == Sent(field, answer)
                 stored == ByRow(answer) \/ Buffer(field, answer) # <<>>
                 counts == ByRow(answer) /\ answer.counts
             IN /\ \A i \in DOMAIN native.mem :
                     /\ native.mem[i] # Before =>
                          /\ Settled(field, answer, over) /\ i <= Seen(field, arrived) /\ stored
                          /\ field.kind \in Integral \/ Taken
                          /\ native.mem[i] = sent[i] \/ (answer.kind = "flags" /\ ~Taken)
                     /\ Taken /\ stored => native.mem[i] = (IF i <= N(field) THEN sent[i] ELSE Before)
                /\ counts /\ Taken =>
                     native.count = (IF answer.kind \in Payloads /\ ~answer.into THEN 1
                                     ELSE N(field))
                /\ ~counts => native.count = -1
  <2>1. native.mem = pure.mem /\ native.count = pure.count
    BY <1>1, AlikeIs DEF EnginesAgree
  <2>2. /\ Stored(pure.mem, field, answer, over, arrived, pure.out)
        /\ pure.count = Counted(field, answer, pure.out)
    BY <1>1 DEF ByTheRule, InHand, Open, Obeys
  <2>3. Taken <=> pure.out = "complete"
    BY <1>1 DEF Taken
  <2> QED BY <2>1, <2>2, <2>3 DEF Stored, Counted, Lands
<1>2. ByTheRule /\ InStep => DestinationKept
  BY <1>1 DEF DestinationKept
<1> QED BY <1>2, ReadsAlike, PTL
=============================================================================
