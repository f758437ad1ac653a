------------------------ MODULE BindingTables_proofs ------------------------
(***************************************************************************)
(* A frozen table never changes, what was worked out from it never goes    *)
(* stale, a decoder's storage covers every slot its tables write, and a    *)
(* row starts from what its own arrival could leave, for any tables,       *)
(* arguments and storage. The second part is about the native engine's     *)
(* copy of a tree: under every id of every table the flattened rows, their *)
(* index or their search, their children and their reset plans give what   *)
(* the rows that were bound give.                                          *)
(***************************************************************************)
EXTENDS BindingTables, FiniteSetTheorems, WellFoundedInduction, SequenceTheorems, TLAPS

-----------------------------------------------------------------------------
(* A finite set of numbers has a largest one.                              *)

LEMMA FiniteMax ==
  ASSUME NEW S, S \subseteq Int, IsFiniteSet(S), S # {}
  PROVE  \E n \in S : \A m \in S : m <= n
<1> DEFINE HasMax(X) == \E n \in X : \A m \in X : m <= n
           Bad == {X \in SUBSET S : X # {} /\ ~HasMax(X)}
<1> SUFFICES ASSUME S \in Bad PROVE FALSE
  OBVIOUS
<1>1. IsWellFoundedOn(StrictSubsetOrdering(S), SUBSET S)
  BY FS_StrictSubsetOrderingWellFounded, FS_FiniteSubsetsOfFinite, Zenon
<1>2. PICK X \in Bad : \A Y \in Bad : <<Y, X>> \notin StrictSubsetOrdering(S)
  <2> HIDE DEF HasMax
  <2>1. Bad \subseteq SUBSET S /\ Bad # {} OBVIOUS
  <2> HIDE DEF Bad
  <2> QED BY <1>1, <2>1, WFMin, Zenon
<1>3. PICK x \in X : TRUE OBVIOUS
<1>4. X \ {x} \in SUBSET S /\ <<X \ {x}, X>> \in StrictSubsetOrdering(S)
  BY <1>3 DEF StrictSubsetOrdering
<1>5. X \ {x} \notin Bad BY <1>2, <1>4
<1>6. CASE X \ {x} = {}
  <2>1. x \in Int BY <1>3
  <2>2. X = {x} BY <1>3, <1>6
  <2> QED BY <2>1, <2>2
<1>7. CASE X \ {x} # {}
  <2>1. PICK n \in X \ {x} : \A m \in X \ {x} : m <= n BY <1>4, <1>5, <1>7
  <2>2. x \in Int /\ n \in Int /\ \A m \in X : m \in Int BY <1>3
  <2>3. CASE x <= n
    <3>1. \A m \in X : m <= n BY <2>1, <2>3
    <3> QED BY <3>1
  <2>4. CASE n <= x
    <3>1. \A m \in X : m <= x BY <2>1, <2>2, <2>4
    <3> QED BY <1>3, <3>1
  <2> QED BY <2>2, <2>3, <2>4
<1> QED BY <1>6, <1>7

-----------------------------------------------------------------------------
(* Types.                                                                  *)

(* What a binder method hands to _add.                                     *)
DefaultOf(kind) ==
  IF kind \in {"float32", "float64"} THEN 0 .. UnsignedMax
  ELSE IF kind \in {"unsigned", "signed", "boolean"} THEN Int
  ELSE IF kind \in {"array", "signeds", "flags"} THEN Seq(Int)
  ELSE IF kind \in {"floats32", "floats64"} THEN Seq(0 .. UnsignedMax) ELSE Seq(Nat)

Callable(kind, a) ==
  /\ Numbers(a) /\ a.at \in Int /\ a.cap \in Int
  /\ Optional(a.lo, Int) /\ Optional(a.hi, Int) /\ Optional(a.default, DefaultOf(kind))
  /\ a.child \in Tables \cup {"none"}
  /\ (kind = "sequence") <=> (a.child \in Tables)
  /\ kind = "array" => a.lo = <<0>>
  /\ kind \in RowKinds

LEMMA OptTyped ==
  ASSUME NEW S, NEW x, Optional(x, S), NEW d
  PROVE  /\ x # <<>> => x[1] \in S
         /\ Opt(x, d) \in S \cup {d}
         /\ x # <<>> => Opt(x, d) = x[1]
<1>1. x # <<>> => 1 \in 1 .. Len(x) BY DEF Optional
<1> QED BY <1>1 DEF Optional, Opt

LEMMA NothingOptional ==
  ASSUME NEW S PROVE Optional(<<>>, S)
BY DEF Optional

(* Every binder method is one call of _add.                                *)
LEMMA BindIsAdd ==
  ASSUME NEW t \in Tables, Bind(t)
  PROVE  \E kind, a : Callable(kind, a) /\ Add(t, kind, a)
<1> USE TablesAssumption DEF RowKinds, OneWordKinds, ManyWordsKinds, ObjectKinds,
        ScalarKinds, ArrayKinds
<1>p. ASSUME NEW id, NEW at, NEW cap, NEW count, NEW default, NEW kind \in RowKinds \ {"sequence"},
             id \in Int, at \in Int, cap \in Int, Optional(count, Int),
             Optional(default, DefaultOf(kind)),
             NEW lo, NEW hi, Optional(lo, Int), Optional(hi, Int)
      PROVE  /\ kind # "array" =>
                  /\ Callable(kind, Plain(id, at, cap, count, default))
                  /\ Callable(kind, [Plain(id, at, cap, count, default) EXCEPT !.hi = hi])
             /\ kind # "array" \/ lo = <<0>> =>
                  Callable(kind, [Plain(id, at, cap, count, default) EXCEPT !.lo = lo, !.hi = hi])
  <2> HIDE DEF RowKinds
  <2>1. Optional(<<>>, Int) BY NothingOptional, Zenon
  <2>2. kind # "sequence" /\ "none" \notin Tables OBVIOUS
  <2>3. kind # "array" => Callable(kind, Plain(id, at, cap, count, default))
    BY <1>p, <2>1, <2>2 DEF Callable, Plain, Numbers
  <2>4. kind # "array" => Callable(kind, [Plain(id, at, cap, count, default) EXCEPT !.hi = hi])
    BY <1>p, <2>1, <2>2 DEF Callable, Plain, Numbers
  <2>5. kind # "array" \/ lo = <<0>> =>
          Callable(kind, [Plain(id, at, cap, count, default) EXCEPT !.lo = lo, !.hi = hi])
    BY <1>p, <2>1, <2>2 DEF Callable, Plain, Numbers
  <2> QED BY <2>3, <2>4, <2>5
<1>0. 0 \in Int /\ Optional(<<>>, Int) /\ Optional(<<0>>, Int)
  <2>1. Optional(<<>>, Int) BY NothingOptional, Zenon
  <2>2. <<0>> \in Seq(Int) /\ Len(<<0>>) <= 1 OBVIOUS
  <2>3. Optional(<<0>>, Int) BY <2>2, Zenon DEF Optional
  <2>4. 0 \in Int OBVIOUS
  <2> QED BY <2>1, <2>3, <2>4, Zenon
<1>1. CASE Unsigned(t)
  <2> PICK a \in Args.unsigned :
        Add(t, "unsigned", [Plain(a.id, a.at, 0, a.count, a.default) EXCEPT !.hi = a.max])
    BY <1>1 DEF Unsigned
  <2> Optional(a.default, DefaultOf("unsigned")) BY ArgsAssumption DEF DefaultOf
  <2> QED BY <1>0, <1>p, ArgsAssumption DEF Numbers
<1>2. CASE Signed(t)
  <2> PICK a \in Args.signed :
        Add(t, "signed", [Plain(a.id, a.at, 0, a.count, a.default) EXCEPT !.lo = a.min, !.hi = a.max])
    BY <1>2 DEF Signed
  <2> Optional(a.default, DefaultOf("signed")) BY ArgsAssumption DEF DefaultOf
  <2> QED BY <1>0, <1>p, ArgsAssumption DEF Numbers
<1>3. CASE Boolean(t)
  <2> PICK a \in Args.boolean : Add(t, "boolean", Plain(a.id, a.at, 0, a.count, a.default))
    BY <1>3 DEF Boolean
  <2> Optional(a.default, DefaultOf("boolean")) BY ArgsAssumption DEF DefaultOf
  <2> QED BY <1>0, <1>p, ArgsAssumption DEF Numbers
<1>4. CASE Float32(t)
  <2> PICK a \in Args.float : Add(t, "float32", Plain(a.id, a.at, 0, a.count, a.default))
    BY <1>4 DEF Float32
  <2> Optional(a.default, DefaultOf("float32")) BY ArgsAssumption DEF DefaultOf
  <2> QED BY <1>0, <1>p, ArgsAssumption DEF Numbers
<1>5. CASE Float64(t)
  <2> PICK a \in Args.float : Add(t, "float64", Plain(a.id, a.at, 0, a.count, a.default))
    BY <1>5 DEF Float64
  <2> Optional(a.default, DefaultOf("float64")) BY ArgsAssumption DEF DefaultOf
  <2> QED BY <1>0, <1>p, ArgsAssumption DEF Numbers
<1>6. CASE String(t)
  <2> PICK a \in Args.text : Add(t, "text", Plain(a.id, a.at, a.cap, a.count, a.default))
    BY <1>6 DEF String
  <2> Optional(a.default, DefaultOf("text")) BY ArgsAssumption DEF DefaultOf
  <2> QED BY <1>0, <1>p, ArgsAssumption DEF Numbers
<1>7. CASE StringInto(t)
  <2> PICK a \in Args.text : Add(t, "into", Plain(a.id, a.at, a.cap, a.count, a.default))
    BY <1>7 DEF StringInto
  <2> Optional(a.default, DefaultOf("into")) BY ArgsAssumption DEF DefaultOf
  <2> QED BY <1>0, <1>p, ArgsAssumption DEF Numbers
<1>8. CASE UnsignedArray(t)
  <2> PICK a \in Args.array :
        Add(t, "array", [Plain(a.id, a.at, a.cap, a.count, a.default) EXCEPT !.lo = <<0>>, !.hi = a.max])
    BY <1>8 DEF UnsignedArray
  <2> Optional(a.default, DefaultOf("array")) BY ArgsAssumption DEF DefaultOf
  <2> QED BY <1>0, <1>p, ArgsAssumption DEF Numbers
<1>9. CASE SignedArray(t)
  <2> PICK a \in Args.array :
        Add(t, "signeds", [Plain(a.id, a.at, a.cap, a.count, a.default) EXCEPT !.hi = a.max])
    BY <1>9 DEF SignedArray
  <2> Optional(a.default, DefaultOf("signeds")) BY ArgsAssumption DEF DefaultOf
  <2> QED BY <1>0, <1>p, ArgsAssumption DEF Numbers
<1>10. CASE BooleanArray(t)
  <2> PICK a \in Args.array : Add(t, "flags", Plain(a.id, a.at, a.cap, a.count, a.default))
    BY <1>10 DEF BooleanArray
  <2> Optional(a.default, DefaultOf("flags")) BY ArgsAssumption DEF DefaultOf
  <2> QED BY <1>0, <1>p, ArgsAssumption DEF Numbers
<1>11. CASE Float32Array(t)
  <2> PICK a \in Args.floats : Add(t, "floats32", Plain(a.id, a.at, a.cap, a.count, a.default))
    BY <1>11 DEF Float32Array
  <2> Optional(a.default, DefaultOf("floats32")) BY ArgsAssumption DEF DefaultOf
  <2> QED BY <1>0, <1>p, ArgsAssumption DEF Numbers
<1>12. CASE Float64Array(t)
  <2> PICK a \in Args.floats : Add(t, "floats64", Plain(a.id, a.at, a.cap, a.count, a.default))
    BY <1>12 DEF Float64Array
  <2> Optional(a.default, DefaultOf("floats64")) BY ArgsAssumption DEF DefaultOf
  <2> QED BY <1>0, <1>p, ArgsAssumption DEF Numbers
<1>13. CASE Sequence(t)
  <2> PICK a \in Args.sequence, child \in Tables :
        Add(t, "sequence", [Plain(a.id, 0, 0, a.count, <<>>) EXCEPT !.child = child])
    BY <1>13 DEF Sequence
  <2> DEFINE b == [Plain(a.id, 0, 0, a.count, <<>>) EXCEPT !.child = child]
  <2>1. Numbers(a) BY ArgsAssumption
  <2>2. Callable("sequence", b)
    <3>1. Optional(<<>>, DefaultOf("sequence")) BY NothingOptional, Zenon
    <3> QED BY <1>0, <2>1, <3>1 DEF Callable, Plain, Numbers
  <2> QED BY <2>2
<1> QED BY <1>1, <1>2, <1>3, <1>4, <1>5, <1>6, <1>7, <1>8, <1>9, <1>10, <1>11, <1>12, <1>13 DEF Bind

(* A row is what its declaration says, and claims its slots.               *)
LEMMA EntryIsRow ==
  ASSUME NEW t \in Tables, NEW kind, NEW a, Callable(kind, a), InRange(t, a),
         WidthFits(kind, a), DefaultFits(t, kind, a)
  PROVE  /\ Entry(kind, a) \in Rows
         /\ kind = "sequence" => a.child \in Tables
         /\ kind \in ManyWordsKinds => Len(Default(kind, a)) <= a.cap
<1> USE LimitsAssumption
<1>1. /\ a.id \in Nat /\ a.at \in Nat /\ a.cap \in Nat /\ Opt(a.count, -1) \in Nat \cup {-1}
      /\ a.child \in Tables \cup {"none"} /\ kind \in RowKinds
  <2>0. Optional(a.count, Int) BY DEF Callable, Numbers
  <2>1. Opt(a.count, -1) \in Int /\ (a.count # <<>> => Opt(a.count, -1) = a.count[1])
    <3>1. Opt(a.count, -1) \in Int \cup {-1} /\ (a.count # <<>> => Opt(a.count, -1) = a.count[1])
      BY <2>0, OptTyped, Zenon
    <3> QED BY <3>1
  <2>2. a.count = <<>> => Opt(a.count, -1) = -1 BY DEF Opt
  <2>3. Opt(a.count, -1) \in Nat \cup {-1} BY <2>1, <2>2 DEF InRange
  <2>4. a.id \in Nat /\ a.at \in Nat /\ a.cap \in Nat BY DEF Callable, Numbers, InRange
  <2> QED BY <2>3, <2>4 DEF Callable
<1>2. /\ Width(kind, a).lo \in Int /\ Width(kind, a).hi \in Nat
  BY DEF WidthFits, SignedMin
<1>3. /\ Default(kind, a) \in Seq(Nat)
      /\ kind \in ManyWordsKinds => Len(Default(kind, a)) <= a.cap
  <2> DEFINE d == Opt(a.default, <<>>)
  <2>0. ASSUME NEW n, kind \in {"float32", "floats32", "float64", "floats64"} => n \in Nat, n \in Int
        PROVE  DefaultBits(kind, n) \in Nat
    <3>1. n % (UnsignedMax + 1) \in Nat BY <2>0
    <3>2. n \in Nat => Single(n) \in Nat BY DEF Single
    <3> QED BY <2>0, <3>1, <3>2 DEF DefaultBits
  <2>1. CASE kind \in OneWordKinds
    <3>1. Opt(a.default, 0) \in Int /\ (kind \in {"float32", "float64"} => Opt(a.default, 0) \in Nat)
      <4>1. \/ DefaultOf(kind) = 0 .. UnsignedMax /\ kind \in {"float32", "float64"}
            \/ DefaultOf(kind) = Int /\ kind \notin {"float32", "float64"}
        BY <2>1 DEF DefaultOf, OneWordKinds, ScalarKinds
      <4>2. Opt(a.default, 0) \in DefaultOf(kind) \cup {0}
          BY OptTyped, Zenon DEF Callable
      <4> QED BY <4>1, <4>2
    <3>2. kind \notin {"floats32", "floats64"} BY <2>1 DEF OneWordKinds, ScalarKinds
    <3>3. DefaultBits(kind, Opt(a.default, 0)) \in Nat BY <2>0, <3>1, <3>2
    <3>4. kind \notin ManyWordsKinds BY <2>1 DEF OneWordKinds, ManyWordsKinds, ScalarKinds, ArrayKinds
    <3> QED BY <2>1, <3>3, <3>4 DEF Default
  <2>2. CASE kind \in ManyWordsKinds
    <3>1. kind \notin OneWordKinds BY <2>2 DEF OneWordKinds, ManyWordsKinds, ScalarKinds, ArrayKinds
    <3>2. d \in Seq(Int) /\ (kind \in {"floats32", "floats64"} => d \in Seq(Nat))
      <4>1. \/ DefaultOf(kind) = Seq(0 .. UnsignedMax) /\ kind \in {"floats32", "floats64"}
            \/ DefaultOf(kind) = Seq(Int) /\ kind \notin {"floats32", "floats64"}
        BY <2>2 DEF DefaultOf, ManyWordsKinds, ArrayKinds
      <4>2. Opt(a.default, <<>>) \in DefaultOf(kind) \cup {<<>>}
          BY OptTyped, Zenon DEF Callable
      <4>3. <<>> \in Seq(Nat) /\ <<>> \in Seq(Int) OBVIOUS
      <4>4. /\ \A x \in Seq(Nat) : x \in Seq(Int)
            /\ \A x \in Seq(0 .. UnsignedMax) : x \in Seq(Nat) /\ x \in Seq(Int)
        OBVIOUS
      <4> HIDE DEF DefaultOf, Opt
      <4> QED BY <4>1, <4>2, <4>3, <4>4, Zenon
    <3>3. Len(d) <= a.cap
      <4>1. CASE a.default = <<>>
        <5> d = <<>> BY <4>1 DEF Opt
        <5> QED BY <1>1
      <4>2. CASE a.default # <<>>
        <5>1. d = a.default[1] BY <4>2 DEF Opt
        <5>2. kind \notin ObjectKinds BY <2>2 DEF ObjectKinds, ManyWordsKinds, ArrayKinds
        <5> QED BY <3>1, <4>2, <5>1, <5>2 DEF DefaultFits
      <4> QED BY <4>1, <4>2
    <3>4. \A k \in DOMAIN d : d[k] = a.default[1][k]
      <4>1. CASE a.default = <<>> BY <4>1 DEF Opt
      <4>2. CASE a.default # <<>> BY <4>2 DEF Opt
      <4> QED BY <4>1, <4>2
    <3>5. Default(kind, a) = [k \in DOMAIN d |-> DefaultBits(kind, d[k])]
      BY <2>2, <3>1, <3>4 DEF Default
    <3>6. kind \notin {"float32", "float64"} BY <2>2 DEF ManyWordsKinds, ArrayKinds
    <3>7. \A k \in 1 .. Len(d) : DefaultBits(kind, d[k]) \in Nat
      <4> SUFFICES ASSUME NEW k \in 1 .. Len(d) PROVE DefaultBits(kind, d[k]) \in Nat OBVIOUS
      <4> d[k] \in Int /\ (kind \in {"floats32", "floats64"} => d[k] \in Nat) BY <3>2
      <4> QED BY <2>0, <3>6
    <3>8. Default(kind, a) \in Seq(Nat) /\ Len(Default(kind, a)) = Len(d)
      <4> HIDE DEF d
      <4> DOMAIN d = 1 .. Len(d) /\ Len(d) \in Nat BY <3>2
      <4> QED BY <3>5, <3>7
    <3> QED BY <3>3, <3>8
  <2>3. CASE kind \notin OneWordKinds \cup ManyWordsKinds
    <3>1. Default(kind, a) = d BY <2>3 DEF Default
    <3>2. d \in Seq(Nat)
      <4>1. DefaultOf(kind) = Seq(Nat) BY <2>3 DEF DefaultOf, OneWordKinds, ManyWordsKinds, ScalarKinds, ArrayKinds
      <4>2. Opt(a.default, <<>>) \in DefaultOf(kind) \cup {<<>>}
          BY OptTyped, Zenon DEF Callable
      <4>3. <<>> \in Seq(Nat) /\ <<>> \in Seq(Int) OBVIOUS
      <4>4. \A x \in Seq(Nat) : x \in Seq(Int) OBVIOUS
      <4> HIDE DEF DefaultOf, Opt
      <4> QED BY <4>1, <4>2, <4>3, <4>4, Zenon
    <3> QED BY <2>3, <3>1, <3>2
  <2> QED BY <2>1, <2>2, <2>3
<1> QED BY <1>1, <1>2, <1>3 DEF Entry, Rows, Callable

-----------------------------------------------------------------------------
(* What a row starts from.                                                 *)

FloatKinds == {"float32", "float64", "floats32", "floats64"}

LEMMA BitsArrive ==
  ASSUME NEW r, NEW kind \in RowKinds \ (ObjectKinds \cup {"unsigned", "sequence"}), r.kind = kind,
         r.lo \in SignedMin .. SignedMax,
         r.hi \in 0 .. (IF kind \in SignedKinds THEN SignedMax ELSE UnsignedMax),
         kind = "array" => r.lo >= 0,
         NEW d \in Int, kind \in FloatKinds => d \in 0 .. UnsignedMax,
         kind \in SignedKinds \cup {"array"} => d \in r.lo .. r.hi
  PROVE  DefaultBits(kind, d) \in Arrivals(r)
<1> USE LimitsAssumption
<1>1. kind \in {"boolean", "flags", "array"} \cup SignedKinds \cup FloatKinds
  BY DEF RowKinds, OneWordKinds, ManyWordsKinds, ScalarKinds, ArrayKinds, ObjectKinds,
         SignedKinds, FloatKinds
<1>2. CASE kind \in {"boolean", "flags"}
  BY <1>2 DEF DefaultBits, Arrivals, SignedKinds
<1>3. CASE kind = "array"
  <2>1. d % (UnsignedMax + 1) = d /\ d \in 0 .. r.hi
    BY <1>3 DEF SignedMin, SignedKinds
  <2> QED BY <1>3, <2>1 DEF DefaultBits, Arrivals
<1>4. CASE kind \in SignedKinds
  <2>1. DefaultBits(kind, d) = d % (UnsignedMax + 1) /\ d \in r.lo .. r.hi
    BY <1>4 DEF DefaultBits, SignedKinds
  <2>2. Arrivals(r) = {v % (UnsignedMax + 1) : v \in r.lo .. r.hi}
    BY <1>4 DEF Arrivals, SignedKinds
  <2> QED BY <2>1, <2>2
<1>5. CASE kind \in {"float32", "floats32"}
  BY <1>5 DEF DefaultBits, Arrivals, SignedKinds, FloatKinds
<1>6. CASE kind \in {"float64", "floats64"}
  BY <1>6 DEF DefaultBits, Arrivals, SignedKinds, FloatKinds
<1> QED BY <1>1, <1>2, <1>3, <1>4, <1>5, <1>6 DEF FloatKinds

LEMMA EntryStarts ==
  ASSUME NEW t \in Tables, NEW kind, kind \notin ObjectKinds \cup {"unsigned"}, NEW a,
         Callable(kind, a), WidthFits(kind, a), DefaultFits(t, kind, a)
  PROVE  StartsAsArrival(Entry(kind, a))
<1> USE LimitsAssumption
<1>1. PICK r : r = Entry(kind, a)
  OBVIOUS
<1>2. r.kind = kind /\ r.lo = Width(kind, a).lo /\ r.hi = Width(kind, a).hi
      /\ r.default = Default(kind, a)
  BY <1>1 DEF Entry
<1>3. /\ r.lo \in SignedMin .. SignedMax
      /\ r.hi \in 0 .. (IF kind \in SignedKinds THEN SignedMax ELSE UnsignedMax)
      /\ kind = "array" => r.lo >= 0
  <2>1. <<0>> # <<>> /\ <<0>>[1] = 0
    OBVIOUS
  <2>2. kind = "array" => Opt(a.lo, SignedMin) = 0
    BY <2>1 DEF Callable, Opt
  <2>3. kind = "array" => Width(kind, a).lo = 0
    BY <2>2 DEF Width
  <2> QED BY <1>2, <2>3 DEF WidthFits
<1>4. kind \in RowKinds /\ Optional(a.default, DefaultOf(kind))
  BY DEF Callable
(* One word of a default the call brought.                                 *)
<1>5. ASSUME NEW d \in Int, kind # "sequence", kind \in FloatKinds => d \in 0 .. UnsignedMax,
             DefaultBitsFit(kind, Width(kind, a), d)
      PROVE  DefaultBits(kind, d) \in Arrivals(r)
  <2>1. kind \in SignedKinds \cup {"array"} => d \in r.lo .. r.hi
    BY <1>2, <1>5 DEF DefaultBitsFit
  <2> QED BY <1>2, <1>3, <1>4, <1>5, <2>1, BitsArrive
<1>6. CASE kind = "sequence"
  <2>1. a.default = <<>>
    BY <1>6 DEF DefaultFits, OneWordKinds, ManyWordsKinds, ScalarKinds, ArrayKinds, ObjectKinds
  <2>2. r.default = <<>>
    BY <1>2, <1>6, <2>1 DEF Default, Opt, OneWordKinds, ManyWordsKinds, ScalarKinds, ArrayKinds
  <2> QED BY <1>1, <2>2 DEF StartsAsArrival, Range
<1>7. CASE kind \in OneWordKinds
  <2>1. PICK o : o = Opt(a.default, 0)
    OBVIOUS
  <2>2. r.default = <<DefaultBits(kind, o)>>
    <3>1. kind \notin ManyWordsKinds
      BY <1>7 DEF OneWordKinds, ManyWordsKinds, ScalarKinds, ArrayKinds
    <3> QED BY <1>2, <1>7, <2>1, <3>1 DEF Default
  <2>3. Range(r.default) = {DefaultBits(kind, o)}
    BY <2>2 DEF Range
  <2>4. CASE a.default = <<>>
    <3>1. o = 0
      BY <2>1, <2>4 DEF Opt
    <3>2. DefaultBits(kind, o) = 0
      BY <3>1 DEF DefaultBits, Single
    <3> QED BY <1>1, <1>2, <1>7, <2>3, <3>2 DEF StartsAsArrival, Undeclared
  <2>5. CASE a.default # <<>>
    <3>1. o = a.default[1] /\ o \in DefaultOf(kind)
      BY <1>4, <2>1, <2>5, OptTyped
    <3>2. o \in Int /\ (kind \in FloatKinds => o \in 0 .. UnsignedMax)
      <4>1. kind \notin {"floats32", "floats64"}
        BY <1>7 DEF OneWordKinds, ScalarKinds
      <4> QED BY <1>7, <3>1, <4>1 DEF DefaultOf, FloatKinds, OneWordKinds, ScalarKinds
    <3>3. DefaultBitsFit(kind, Width(kind, a), o)
      BY <1>7, <2>5, <3>1
      DEF DefaultFits, OneWordKinds, ManyWordsKinds, ScalarKinds, ArrayKinds, ObjectKinds
    <3>4. kind # "sequence"
      BY <1>7 DEF OneWordKinds, ScalarKinds
    <3>5. DefaultBits(kind, o) \in Arrivals(r)
      BY <1>5, <3>2, <3>3, <3>4
    <3> QED BY <1>1, <2>3, <3>5 DEF StartsAsArrival
  <2> QED BY <2>4, <2>5
<1>8. CASE kind \in ManyWordsKinds
  <2>1. kind \notin OneWordKinds /\ kind # "sequence"
    BY <1>8 DEF OneWordKinds, ManyWordsKinds, ScalarKinds, ArrayKinds
  <2>2. CASE a.default = <<>>
    <3>1. DOMAIN r.default = {}
      BY <1>2, <1>8, <2>1, <2>2 DEF Default, Opt
    <3> QED BY <1>1, <3>1 DEF StartsAsArrival, Range
  <2>3. CASE a.default # <<>>
    <3>1. PICK d : d = a.default[1]
      OBVIOUS
    <3>2. Opt(a.default, <<>>) = d /\ d \in DefaultOf(kind)
      BY <1>4, <2>3, <3>1, OptTyped
    <3>3. r.default = [k \in DOMAIN d |-> DefaultBits(kind, d[k])]
      BY <1>2, <1>8, <2>1, <3>1, <3>2 DEF Default
    <3>4. ASSUME NEW k \in DOMAIN d
          PROVE  d[k] \in Int /\ (kind \in FloatKinds => d[k] \in 0 .. UnsignedMax)
      <4>1. \/ kind \in {"array", "signeds", "flags"} /\ d \in Seq(Int)
            \/ kind \in {"floats32", "floats64"} /\ d \in Seq(0 .. UnsignedMax)
        BY <1>8, <3>2 DEF DefaultOf, ManyWordsKinds, ArrayKinds
      <4> QED BY <3>4, <4>1 DEF FloatKinds
    <3>5. \A k \in DOMAIN d : DefaultBitsFit(kind, Width(kind, a), d[k])
      BY <2>1, <2>3, <1>8, <3>1
      DEF DefaultFits, OneWordKinds, ManyWordsKinds, ScalarKinds, ArrayKinds, ObjectKinds
    <3>6. \A k \in DOMAIN d : DefaultBits(kind, d[k]) \in Arrivals(r)
      BY <1>5, <2>1, <3>4, <3>5
    <3>7. Range(r.default) = {DefaultBits(kind, d[k]) : k \in DOMAIN d}
      BY <3>3 DEF Range
    <3> QED BY <1>1, <3>6, <3>7 DEF StartsAsArrival
  <2> QED BY <2>2, <2>3
<1> QED BY <1>4, <1>6, <1>7, <1>8 DEF RowKinds

-----------------------------------------------------------------------------
(* The least set with x that is closed under A, and what it depends on.    *)

Least(D, A, x) ==
  {u \in D : \A S \in SUBSET D : x \in S /\ (\A v \in S : A[v] \subseteq S) => u \in S}

LEMMA LeastBelow ==
  ASSUME NEW D, NEW A, NEW x, NEW C \in SUBSET D, x \in C, \A v \in C : A[v] \subseteq C
  PROVE  Least(D, A, x) \subseteq C
BY DEF Least

LEMMA LeastClosed ==
  ASSUME NEW D, NEW A, NEW x \in D, \A v \in D : A[v] \subseteq D
  PROVE  /\ x \in Least(D, A, x)
         /\ \A v \in Least(D, A, x) : A[v] \subseteq Least(D, A, x)
<1>1. x \in Least(D, A, x) BY DEF Least
<1>2. ASSUME NEW v \in Least(D, A, x), NEW w \in A[v]
      PROVE  w \in Least(D, A, x)
  <2>1. v \in D /\ w \in D BY DEF Least
  <2>2. ASSUME NEW S \in SUBSET D, x \in S, \A y \in S : A[y] \subseteq S
        PROVE  w \in S
    <3>1. v \in S BY <2>2 DEF Least
    <3> QED BY <2>2, <3>1
  <2> QED BY <2>1, <2>2 DEF Least
<1> QED BY <1>1, <1>2

LEMMA LeastSame ==
  ASSUME NEW D, NEW A, NEW B, NEW x, NEW C \in SUBSET D, x \in C,
         \A v \in C : A[v] \subseteq C /\ A[v] = B[v]
  PROVE  Least(D, A, x) = Least(D, B, x)
<1>1. ASSUME NEW P, NEW Q, \A v \in C : P[v] \subseteq C /\ P[v] = Q[v]
      PROVE  Least(D, P, x) \subseteq Least(D, Q, x)
  <2> SUFFICES ASSUME NEW u \in Least(D, P, x), NEW S \in SUBSET D,
                      x \in S, \A v \in S : Q[v] \subseteq S
               PROVE  u \in S
    BY DEF Least
  <2>1. S \cap C \in SUBSET D /\ x \in S \cap C OBVIOUS
  <2>2. \A v \in S \cap C : P[v] \subseteq S \cap C BY <1>1
  <2>3. u \in S \cap C BY <2>1, <2>2 DEF Least
  <2> QED BY <2>3
<1>2. Least(D, A, x) \subseteq Least(D, B, x) BY <1>1
<1>3. \A v \in C : B[v] \subseteq C /\ B[v] = A[v] OBVIOUS
<1>4. Least(D, B, x) \subseteq Least(D, A, x) BY <1>1, <1>3
<1> QED BY <1>2, <1>4

-----------------------------------------------------------------------------
(* What an option starts from is decided by the tables below it.           *)

Fresh(A) == [t \in DOMAIN A |-> ChildrenIn(FreshRows(A, t))]

LEMMA FreshIsLeast ==
  ASSUME NEW A, NEW r, r.kind = "sequence"
  PROVE  FreshTables(A, r) = Least(DOMAIN A, Fresh(A), r.child)
<1>1. ASSUME NEW S \in SUBSET DOMAIN A
      PROVE  (\A t \in S : ChildrenIn(FreshRows(A, t)) \subseteq S)
             <=> (\A t \in S : Fresh(A)[t] \subseteq S)
  BY DEF Fresh
<1> QED BY <1>1 DEF FreshTables, Least

LEMMA FreshRowsAreRows ==
  ASSUME NEW A, NEW t
  PROVE  /\ FreshRows(A, t) \subseteq RowsOf(A, t)
         /\ ChildrenIn(FreshRows(A, t)) \subseteq ChildrenIn(RowsOf(A, t))
<1>1. FreshRows(A, t) \subseteq RowsOf(A, t) BY DEF FreshRows, RowsOf
<1> QED BY <1>1 DEF ChildrenIn

LEMMA FreshBelow ==
  ASSUME NEW A, NEW C \in SUBSET DOMAIN A,
         \A t \in C : ChildrenIn(RowsOf(A, t)) \subseteq C,
         NEW r, r.kind = "sequence" => r.child \in C
  PROVE  FreshTables(A, r) \subseteq C
<1>1. CASE r.kind # "sequence" BY <1>1 DEF FreshTables
<1>2. CASE r.kind = "sequence"
  <2>1. \A t \in C : Fresh(A)[t] \subseteq C BY FreshRowsAreRows DEF Fresh
  <2> QED BY <1>2, <2>1, LeastBelow, FreshIsLeast
<1> QED BY <1>1, <1>2

LEMMA ResetSame ==
  ASSUME NEW A, NEW B, DOMAIN A = DOMAIN B, NEW C \in SUBSET DOMAIN A,
         \A t \in C : A[t] = B[t] /\ ChildrenIn(RowsOf(A, t)) \subseteq C,
         NEW r, r.kind = "sequence" => r.child \in C
  PROVE  /\ ResetWords(A, r) = ResetWords(B, r)
         /\ ResetObjects(A, r) = ResetObjects(B, r)
         /\ ResetInto(A, r) = ResetInto(B, r)
<1>1. \A t \in C : FreshRows(A, t) = FreshRows(B, t) BY DEF FreshRows, RowsOf
<1>2. FreshTables(A, r) = FreshTables(B, r)
  <2>1. CASE r.kind # "sequence" BY <2>1 DEF FreshTables
  <2>2. CASE r.kind = "sequence"
    <3>1. \A t \in C : Fresh(A)[t] \subseteq C /\ Fresh(A)[t] = Fresh(B)[t]
      BY <1>1, FreshRowsAreRows DEF Fresh
    <3>2. Least(DOMAIN A, Fresh(A), r.child) = Least(DOMAIN A, Fresh(B), r.child)
      BY <2>2, <3>1, LeastSame
    <3> QED BY <2>2, <3>2, FreshIsLeast
  <2> QED BY <2>1, <2>2
<1>3. FreshTables(A, r) \subseteq C BY FreshBelow
<1>4. \A t \in FreshTables(A, r) : FreshRows(A, t) = FreshRows(B, t) /\ A[t] = B[t]
  BY <1>1, <1>3
<1>5. Replayed(A, r, OwnWords) = Replayed(B, r, OwnWords)
  BY <1>2, <1>4 DEF Replayed
<1>6. Replayed(A, r, OwnObjects) = Replayed(B, r, OwnObjects)
  BY <1>2, <1>4 DEF Replayed
<1>7. Replayed(A, r, OwnInto) = Replayed(B, r, OwnInto)
  BY <1>2, <1>4 DEF Replayed
<1>8. {<<A[t].which, A[t].first>> : t \in {u \in FreshTables(A, r) : A[u].which >= 0}}
      = {<<B[t].which, B[t].first>> : t \in {u \in FreshTables(B, r) : B[u].which >= 0}}
  BY <1>2, <1>4
<1> QED BY <1>5, <1>6, <1>7, <1>8 DEF ResetWords, ResetObjects, ResetInto

-----------------------------------------------------------------------------
(* Every row has claimed its slots from its table.                         *)

RowClaims(r, words, objs) ==
  /\ r.kind = "sequence" => r.child \in Tables
  /\ r.count < words
  /\ r.kind \in OneWordKinds => r.at < words
  /\ r.kind \in ManyWordsKinds => r.at + r.cap <= words /\ Len(r.default) <= r.cap
  /\ r.kind \in ObjectKinds => r.at < objs

Claimed ==
  \A t \in Tables :
    /\ Which[t] < needWords[t]
    /\ \A k \in DOMAIN entries[t] : RowClaims(entries[t][k], needWords[t], needObjects[t])

LEMMA WordSlotsAre ==
  ASSUME NEW kind, NEW a, Callable(kind, a)
  PROVE  /\ WordSlots(kind, a) \in Int
         /\ Opt(a.count, -1) \in Int /\ Opt(a.count, -1) < WordSlots(kind, a)
         /\ kind \in OneWordKinds => a.at < WordSlots(kind, a)
         /\ kind \in ManyWordsKinds => a.at + a.cap <= WordSlots(kind, a)
<1>1. Opt(a.count, -1) \in Int
  <2>1. Optional(a.count, Int) BY DEF Callable, Numbers
  <2>2. Opt(a.count, -1) \in Int \cup {-1} BY <2>1, OptTyped, Zenon
  <2> QED BY <2>2
<1>2. a.at \in Int /\ a.cap \in Int BY DEF Callable
<1>3. OneWordKinds \cap ManyWordsKinds = {}
  BY DEF OneWordKinds, ManyWordsKinds, ScalarKinds, ArrayKinds
<1> DEFINE c == CASE kind \in OneWordKinds   -> a.at + 1
                  [] kind \in ManyWordsKinds -> a.at + a.cap
                  [] OTHER                   -> 0
<1>4. CASE kind \in OneWordKinds
  <2>1. c = a.at + 1 BY <1>3, <1>4
  <2> HIDE DEF c
  <2>2. WordSlots(kind, a) = Larger(Opt(a.count, -1) + 1, c) BY DEF WordSlots, c
  <2> QED BY <1>1, <1>2, <1>3, <1>4, <2>1, <2>2 DEF Larger
<1>5. CASE kind \in ManyWordsKinds
  <2>1. c = a.at + a.cap BY <1>3, <1>5
  <2> HIDE DEF c
  <2>2. WordSlots(kind, a) = Larger(Opt(a.count, -1) + 1, c) BY DEF WordSlots, c
  <2> QED BY <1>1, <1>2, <1>3, <1>5, <2>1, <2>2 DEF Larger
<1>6. CASE kind \notin OneWordKinds \cup ManyWordsKinds
  <2>1. c = 0 BY <1>6
  <2> HIDE DEF c
  <2>2. WordSlots(kind, a) = Larger(Opt(a.count, -1) + 1, c) BY DEF WordSlots, c
  <2> QED BY <1>1, <1>6, <2>1, <2>2 DEF Larger
<1> QED BY <1>4, <1>5, <1>6

(* _add leaves the other tables alone, and lets this one only claim more.  *)
LEMMA AddTouches ==
  ASSUME TypeOK, NEW t \in Tables, NEW kind, NEW a, Callable(kind, a), Add(t, kind, a)
  PROVE  /\ t \notin frozen
         /\ UNCHANGED <<frozen, derived, decoders>>
         /\ \A u \in Tables \ {t} : /\ entries'[u] = entries[u]
                                    /\ needWords'[u] = needWords[u]
                                    /\ needObjects'[u] = needObjects[u]
         /\ needWords' \in [Tables -> Nat] /\ needObjects' \in [Tables -> Nat]
         /\ needWords[t] <= needWords'[t] /\ WordSlots(kind, a) <= needWords'[t]
         /\ needObjects[t] <= needObjects'[t]
         /\ kind \in ObjectKinds => a.at < needObjects'[t]
         /\ \/ entries' = entries
            \/ /\ Entry(kind, a) \in Rows
               /\ kind = "sequence" => a.child \in Tables
               /\ kind \in ManyWordsKinds => Len(Default(kind, a)) <= a.cap
               /\ entries' = [entries EXCEPT ![t] = Append(@, Entry(kind, a))]
<1>1. InRange(t, a) BY DEF Add
<1>2. /\ needWords \in [Tables -> Nat] /\ needObjects \in [Tables -> Nat]
      /\ entries \in [Tables -> Seq(Rows)]
  BY DEF TypeOK
<1>3. /\ needWords' = [needWords EXCEPT ![t] = Larger(@, WordSlots(kind, a))]
      /\ needWords'[t] = Larger(needWords[t], WordSlots(kind, a))
  BY <1>2 DEF Add
<1>4. /\ needWords[t] \in Nat /\ WordSlots(kind, a) \in Int BY <1>2, WordSlotsAre
<1>5. needWords'[t] \in Nat /\ needWords[t] <= needWords'[t] /\ WordSlots(kind, a) <= needWords'[t]
  BY <1>3, <1>4 DEF Larger
<1> DEFINE o == IF kind \in ObjectKinds THEN a.at + 1 ELSE 0
<1>6. o \in Int /\ a.at \in Int BY DEF Callable
<1>7. /\ needObjects' = [needObjects EXCEPT ![t] = Larger(@, o)]
      /\ needObjects'[t] = Larger(needObjects[t], o)
  BY <1>2 DEF Add
<1>8. needObjects'[t] \in Nat /\ needObjects[t] <= needObjects'[t] /\ o <= needObjects'[t]
  <2> HIDE DEF o
  <2> QED BY <1>2, <1>6, <1>7 DEF Larger
<1>9. kind \in ObjectKinds => a.at < needObjects'[t] BY <1>6, <1>8
<1>10. needWords' \in [Tables -> Nat] /\ needObjects' \in [Tables -> Nat]
  <2> HIDE DEF o
  <2>1. needWords' \in [Tables -> Nat] BY <1>2, <1>3, <1>5
  <2>2. needObjects' \in [Tables -> Nat] BY <1>2, <1>7, <1>8
  <2> QED BY <2>1, <2>2
<1>11. /\ t \notin frozen /\ UNCHANGED <<frozen, derived, decoders>> BY <1>1 DEF Add, InRange
<1>12. \A u \in Tables \ {t} : needWords'[u] = needWords[u] /\ needObjects'[u] = needObjects[u]
  <2> HIDE DEF o
  <2> QED BY <1>2, <1>3, <1>7
<1>13. CASE WidthFits(kind, a) /\ DefaultFits(t, kind, a)
  <2>1. entries' = [entries EXCEPT ![t] = Append(@, Entry(kind, a))] BY <1>13 DEF Add
  <2>2. \A u \in Tables \ {t} : entries'[u] = entries[u] BY <1>2, <2>1
  <2>3. /\ Entry(kind, a) \in Rows
        /\ kind = "sequence" => a.child \in Tables
        /\ kind \in ManyWordsKinds => Len(Default(kind, a)) <= a.cap
    BY <1>1, <1>13, EntryIsRow
  <2> QED BY <1>5, <1>8, <1>9, <1>10, <1>11, <1>12, <2>1, <2>2, <2>3
<1>14. CASE ~(WidthFits(kind, a) /\ DefaultFits(t, kind, a))
  <2>1. entries' = entries BY <1>14 DEF Add
  <2> QED BY <1>5, <1>8, <1>9, <1>10, <1>11, <1>12, <2>1
<1> QED BY <1>13, <1>14

LEMMA AddClaims ==
  ASSUME TypeOK, Claimed, NEW t \in Tables, NEW kind, NEW a, Callable(kind, a), Add(t, kind, a)
  PROVE  TypeOK' /\ Claimed'
<1>1. /\ t \notin frozen /\ UNCHANGED <<frozen, derived, decoders>>
      /\ \A u \in Tables \ {t} : /\ entries'[u] = entries[u]
                                 /\ needWords'[u] = needWords[u]
                                 /\ needObjects'[u] = needObjects[u]
      /\ needWords' \in [Tables -> Nat] /\ needObjects' \in [Tables -> Nat]
      /\ needWords[t] <= needWords'[t] /\ WordSlots(kind, a) <= needWords'[t]
      /\ needObjects[t] <= needObjects'[t]
      /\ kind \in ObjectKinds => a.at < needObjects'[t]
      /\ \/ entries' = entries
         \/ /\ Entry(kind, a) \in Rows
            /\ kind = "sequence" => a.child \in Tables
            /\ kind \in ManyWordsKinds => Len(Default(kind, a)) <= a.cap
            /\ entries' = [entries EXCEPT ![t] = Append(@, Entry(kind, a))]
  BY AddTouches
<1>2. /\ needWords \in [Tables -> Nat] /\ needObjects \in [Tables -> Nat]
      /\ entries \in [Tables -> Seq(Rows)] BY DEF TypeOK
<1>3. TypeOK'
  <2>1. entries' \in [Tables -> Seq(Rows)]
    <3>1. CASE entries' = entries BY <1>2, <3>1
    <3>2. CASE entries' = [entries EXCEPT ![t] = Append(@, Entry(kind, a))] /\ Entry(kind, a) \in Rows
      <4>1. Append(entries[t], Entry(kind, a)) \in Seq(Rows)
        <5> HIDE DEF Rows
        <5> QED BY <1>2, <3>2
      <4> QED BY <1>2, <3>2, <4>1
    <3> QED BY <1>1, <3>1, <3>2
  <2> QED BY <1>1, <2>1 DEF TypeOK, derived
<1>4. ASSUME NEW u \in Tables
      PROVE  /\ (Which[u] < needWords[u])'
             /\ \A k \in DOMAIN entries'[u] : RowClaims(entries'[u][k], needWords'[u], needObjects'[u])
  <2>1. /\ Which[u] < needWords[u]
        /\ \A k \in DOMAIN entries[u] : RowClaims(entries[u][k], needWords[u], needObjects[u])
    BY DEF Claimed
  <2>2. needWords[u] \in Nat /\ needObjects[u] \in Nat /\ needWords'[u] \in Nat /\ needObjects'[u] \in Nat
        /\ Which[u] \in Int /\ needWords[u] <= needWords'[u] /\ needObjects[u] <= needObjects'[u]
    <3>1. needWords[u] \in Nat /\ needObjects[u] \in Nat BY <1>2
    <3>2. needWords'[u] \in Nat /\ needObjects'[u] \in Nat BY <1>1
    <3>3. Which[u] \in Int BY TablesAssumption
    <3>4. needWords[u] <= needWords'[u] /\ needObjects[u] <= needObjects'[u]
      BY <1>1, <3>1, <3>2
    <3> QED BY <3>1, <3>2, <3>3, <3>4
  <2>3. ASSUME NEW r \in Rows, RowClaims(r, needWords[u], needObjects[u])
        PROVE  RowClaims(r, needWords'[u], needObjects'[u])
    <3>1. r.count \in Int /\ r.at \in Int /\ r.cap \in Int BY DEF Rows
    <3>2. \A x \in Int : /\ x < needWords[u] => x < needWords'[u]
                         /\ x <= needWords[u] => x <= needWords'[u]
                         /\ x < needObjects[u] => x < needObjects'[u]
      BY <2>2
    <3>3. r.at + r.cap \in Int BY <3>1
    <3> QED BY <2>3, <3>1, <3>2, <3>3 DEF RowClaims
  <2>4. \A k \in DOMAIN entries[u] : RowClaims(entries[u][k], needWords'[u], needObjects'[u])
    <3>1. \A k \in DOMAIN entries[u] : entries[u][k] \in Rows BY <1>2
    <3> QED BY <2>1, <2>3, <3>1
  <2>5. CASE entries'[u] = entries[u] BY <2>1, <2>2, <2>4, <2>5
  <2>6. CASE u = t /\ entries' = [entries EXCEPT ![t] = Append(@, Entry(kind, a))]
             /\ Entry(kind, a) \in Rows
             /\ (kind = "sequence" => a.child \in Tables)
             /\ (kind \in ManyWordsKinds => Len(Default(kind, a)) <= a.cap)
    <3> DEFINE e == Entry(kind, a)
    <3>1. RowClaims(e, needWords'[u], needObjects'[u])
      <4>1. e.kind = kind /\ e.at = a.at /\ e.cap = a.cap /\ e.count = Opt(a.count, -1)
            /\ e.child = a.child /\ e.default = Default(kind, a)
        BY DEF Entry
      <4>2. a.at \in Int /\ a.cap \in Int BY DEF Callable
      <4>3. /\ WordSlots(kind, a) \in Int
            /\ Opt(a.count, -1) \in Int /\ Opt(a.count, -1) < WordSlots(kind, a)
            /\ kind \in OneWordKinds => a.at < WordSlots(kind, a)
            /\ kind \in ManyWordsKinds => a.at + a.cap <= WordSlots(kind, a)
        BY WordSlotsAre
      <4>4. WordSlots(kind, a) <= needWords'[u] /\ (kind \in ObjectKinds => a.at < needObjects'[u])
        BY <1>1, <2>6
      <4> HIDE DEF e
      <4> QED BY <2>2, <2>6, <4>1, <4>2, <4>3, <4>4 DEF RowClaims
    <3>2. entries'[u] = Append(entries[u], e) BY <1>2, <2>6
    <3>3. entries[u] \in Seq(Rows) /\ e \in Rows BY <1>2, <2>6
    <3> HIDE DEF e
    <3>4. \A k \in DOMAIN entries'[u] : entries'[u][k] = e \/ (k \in DOMAIN entries[u] /\ entries'[u][k] = entries[u][k])
      <4> HIDE DEF Rows
      <4> QED BY <3>2, <3>3
    <3> QED BY <2>1, <2>2, <2>4, <3>1, <3>4
  <2> QED BY <1>1, <2>5, <2>6
<1> QED BY <1>3, <1>4 DEF Claimed

-----------------------------------------------------------------------------
(* The tables below a table.                                               *)

Below == [v \in Tables |-> ChildrenOf(v)]

LEMMA ChildrenAreTables ==
  ASSUME Claimed, NEW t \in Tables
  PROVE  ChildrenOf(t) \subseteq Tables
BY DEF Claimed, RowClaims, ChildrenOf, ChildrenIn

LEMMA ReachableIsLeast ==
  ASSUME NEW t
  PROVE  Reachable(t) = Least(Tables, Below, t)
<1>1. ASSUME NEW S \in SUBSET Tables
      PROVE  (\A v \in S : ChildrenOf(v) \subseteq S) <=> (\A v \in S : Below[v] \subseteq S)
  BY DEF Below
<1> QED BY <1>1 DEF Reachable, Least

LEMMA ReachableClosed ==
  ASSUME Claimed, NEW t \in Tables
  PROVE  /\ Reachable(t) \subseteq Tables /\ t \in Reachable(t)
         /\ \A v \in Reachable(t) : ChildrenOf(v) \subseteq Reachable(t)
<1>1. \A v \in Tables : Below[v] \subseteq Tables BY ChildrenAreTables DEF Below
<1>2. /\ t \in Least(Tables, Below, t)
      /\ \A v \in Least(Tables, Below, t) : Below[v] \subseteq Least(Tables, Below, t)
  BY <1>1, LeastClosed
<1>3. Reachable(t) \subseteq Tables BY DEF Reachable
<1> QED BY <1>2, <1>3, ReachableIsLeast DEF Below

LEMMA ReachableFrozen ==
  ASSUME TypeOK, FrozenClosedDown, NEW t \in frozen
  PROVE  Reachable(t) \subseteq frozen
<1>1. frozen \in SUBSET Tables BY DEF TypeOK
<1> QED BY <1>1 DEF FrozenClosedDown, Reachable

(* The rows the walk finds are rows that were bound.                       *)
LEMMA RowsBound ==
  ASSUME NEW t \in Tables
  PROVE  /\ \A r \in RowsOf(T, t) : \E k \in DOMAIN entries[t] : r = entries[t][k]
         /\ ChildrenIn(RowsOf(T, t)) \subseteq ChildrenOf(t)
         /\ T[t] = TableOf(t) /\ T[t].which = Which[t] /\ DOMAIN T = Tables
<1>1. T[t] = TableOf(t) /\ T[t].which = Which[t] /\ DOMAIN T = Tables BY DEF T, TableOf
<1>2. T[t].rows = ById(entries[t]) BY <1>1 DEF TableOf
<1>3. \A r \in RowsOf(T, t) : \E k \in DOMAIN entries[t] : r = entries[t][k]
  <2> SUFFICES ASSUME NEW id \in DOMAIN ById(entries[t])
               PROVE  \E k \in DOMAIN entries[t] : ById(entries[t])[id] = entries[t][k]
    BY <1>2 DEF RowsOf
  <2>1. PICK k \in DOMAIN entries[t] : entries[t][k].id = id BY DEF ById
  <2> DEFINE j == CHOOSE k2 \in DOMAIN entries[t] : entries[t][k2].id = id
  <2>2. j \in DOMAIN entries[t] BY <2>1
  <2>3. ById(entries[t])[id] = entries[t][j] BY DEF ById
  <2> QED BY <2>2, <2>3
<1>4. ChildrenIn(RowsOf(T, t)) \subseteq ChildrenOf(t)
  BY <1>3 DEF ChildrenOf, ChildrenIn
<1> QED BY <1>1, <1>3, <1>4

-----------------------------------------------------------------------------
(* What was worked out from frozen tables does not change while they do    *)
(* not.                                                                    *)

LEMMA FrozenStays ==
  ASSUME TypeOK, Claimed, FrozenClosedDown,
         \A u \in frozen : /\ entries'[u] = entries[u]
                           /\ needWords'[u] = needWords[u] /\ needObjects'[u] = needObjects[u]
  PROVE  \A t \in frozen :
           /\ ChildrenOf(t)' = ChildrenOf(t) /\ Reachable(t)' = Reachable(t)
           /\ SizesNow(t)' = SizesNow(t) /\ PlansOf(t)' = PlansOf(t)
<1> SUFFICES ASSUME NEW t \in frozen
             PROVE  /\ ChildrenOf(t)' = ChildrenOf(t) /\ Reachable(t)' = Reachable(t)
                    /\ SizesNow(t)' = SizesNow(t) /\ PlansOf(t)' = PlansOf(t)
  OBVIOUS
<1>0. frozen \in SUBSET Tables /\ t \in Tables BY DEF TypeOK
<1>1. \A v \in frozen : ChildrenOf(v)' = ChildrenOf(v) BY DEF ChildrenOf
<1>2. Reachable(t)' = Reachable(t)
  <2> DEFINE B == [v \in Tables |-> ChildrenOf(v)']
  <2>1. \A v \in frozen : Below[v] \subseteq frozen /\ Below[v] = B[v]
    BY <1>0, <1>1 DEF Below, FrozenClosedDown
  <2>2. Least(Tables, Below, t) = Least(Tables, B, t)
    <3> HIDE DEF B
    <3> QED BY <1>0, <2>1, LeastSame
  <2>3. Reachable(t)' = Least(Tables, B, t)
    <3>1. ASSUME NEW S \in SUBSET Tables
          PROVE  (\A v \in S : ChildrenOf(v)' \subseteq S) <=> (\A v \in S : B[v] \subseteq S)
      OBVIOUS
    <3>2. Reachable(t)' = {u \in Tables : \A S \in SUBSET Tables :
              t \in S /\ (\A v \in S : ChildrenOf(v)' \subseteq S) => u \in S}
      BY DEF Reachable
    <3> HIDE DEF B
    <3> QED BY <3>1, <3>2 DEF Least
  <2> QED BY <2>2, <2>3, ReachableIsLeast
<1>3. Reachable(t) \subseteq frozen BY ReachableFrozen
<1>4. SizesNow(t)' = SizesNow(t)
  <2>1. {needWords'[u] : u \in Reachable(t)} = {needWords[u] : u \in Reachable(t)} BY <1>3
  <2>2. {needObjects'[u] : u \in Reachable(t)} = {needObjects[u] : u \in Reachable(t)} BY <1>3
  <2> QED BY <1>2, <2>1, <2>2 DEF SizesNow, Largest
<1>5. PlansOf(t)' = PlansOf(t)
  <2>1. ASSUME NEW v \in frozen
        PROVE  T[v] = T'[v] /\ ChildrenIn(RowsOf(T, v)) \subseteq frozen
    <3>1. v \in Tables BY <1>0
    <3>2. TableOf(v)' = TableOf(v) BY DEF TableOf
    <3>3. T[v] = T'[v] BY <3>1, <3>2 DEF T
    <3>4. ChildrenIn(RowsOf(T, v)) \subseteq frozen BY <3>1, RowsBound DEF FrozenClosedDown
    <3> QED BY <3>3, <3>4
  <2>2. DOMAIN T = Tables /\ DOMAIN T' = Tables BY DEF T
  <2>3. ASSUME NEW k \in DOMAIN entries[t]
        PROVE  /\ ResetWords(T, entries[t][k]) = ResetWords(T', entries[t][k])
               /\ ResetObjects(T, entries[t][k]) = ResetObjects(T', entries[t][k])
               /\ ResetInto(T, entries[t][k]) = ResetInto(T', entries[t][k])
    <3>1. entries[t][k].kind = "sequence" => entries[t][k].child \in frozen
      BY DEF FrozenClosedDown, ChildrenOf, ChildrenIn
    <3>2. PICK A : A = T OBVIOUS
    <3>3. PICK B : B = T' OBVIOUS
    <3>4. PICK r : r = entries[t][k] OBVIOUS
    <3>5. /\ DOMAIN A = DOMAIN B /\ frozen \in SUBSET DOMAIN A
          /\ \A v \in frozen : A[v] = B[v] /\ ChildrenIn(RowsOf(A, v)) \subseteq frozen
      BY <1>0, <2>1, <2>2, <3>2, <3>3
    <3>6. /\ ResetWords(A, r) = ResetWords(B, r)
          /\ ResetObjects(A, r) = ResetObjects(B, r)
          /\ ResetInto(A, r) = ResetInto(B, r)
      BY <3>1, <3>4, <3>5, ResetSame
    <3> QED BY <3>2, <3>3, <3>4, <3>6
  <2>4. entries'[t] = entries[t] OBVIOUS
  <2>5. \A k \in DOMAIN entries[t] : Plan(entries[t][k], Which[t])' = Plan(entries[t][k], Which[t])
    BY <2>3, <2>4 DEF Plan
  <2> QED BY <2>4, <2>5 DEF PlansOf
<1> QED BY <1>1, <1>2, <1>4, <1>5

-----------------------------------------------------------------------------
(* The invariant.                                                          *)

(* What is kept of a table's sizes was worked out from frozen tables.      *)
Kept ==
  /\ \A t \in Tables :
       /\ sizes[t] # <<>> => t \in frozen /\ sizes[t] = SizesNow(t)
       /\ compiled[t] # <<>> => t \in frozen /\ compiled[t].sizes = SizesNow(t)
  /\ \A d \in decoders :
       /\ d.table \in frozen /\ d.words \in Int /\ d.objects \in Int
       /\ SizesNow(d.table)[1] <= d.words
       /\ SizesNow(d.table)[2] = 0 \/ SizesNow(d.table)[2] <= d.objects

IInv == TypeOK /\ Claimed /\ FrozenClosedDown /\ PlanCurrent /\ Kept

LEMMA InitInv == Init => IInv
<1> SUFFICES ASSUME Init PROVE IInv OBVIOUS
<1>1. TypeOK
  <2>1. entries \in [Tables -> Seq(Rows)]
    <3>1. <<>> \in Seq(Rows) OBVIOUS
    <3> HIDE DEF Rows
    <3> QED BY <3>1 DEF Init
  <2>2. needWords \in [Tables -> Nat]
    <3>1. \A t \in Tables : (IF Which[t] >= 0 THEN Which[t] + 1 ELSE 0) \in Nat BY TablesAssumption
    <3> QED BY <3>1 DEF Init
  <2> QED BY <2>1, <2>2 DEF Init, TypeOK
<1>2. Claimed
  <2>1. \A t \in Tables : Which[t] < needWords[t] BY TablesAssumption DEF Init
  <2>2. \A t \in Tables : DOMAIN entries[t] = {} BY DEF Init
  <2> QED BY <2>1, <2>2 DEF Claimed
<1> QED BY <1>1, <1>2 DEF Init, IInv, FrozenClosedDown, PlanCurrent, Kept

(* Binding a row leaves every frozen table and all that was worked out     *)
(* from it.                                                                *)
LEMMA BindStays ==
  ASSUME IInv, NEW t \in Tables, Bind(t)
  PROVE  /\ TypeOK' /\ Claimed' /\ UNCHANGED <<frozen, derived, decoders>>
         /\ \A u \in frozen : /\ entries'[u] = entries[u]
                              /\ needWords'[u] = needWords[u] /\ needObjects'[u] = needObjects[u]
<1>1. PICK kind, a : Callable(kind, a) /\ Add(t, kind, a) BY BindIsAdd
<1>2. TypeOK /\ Claimed /\ frozen \subseteq Tables BY DEF IInv, TypeOK
<1>3. TypeOK' /\ Claimed' BY <1>1, <1>2, AddClaims
<1>4. /\ t \notin frozen
      /\ UNCHANGED <<frozen, derived, decoders>>
      /\ \A u \in Tables \ {t} : /\ entries'[u] = entries[u]
                                 /\ needWords'[u] = needWords[u]
                                 /\ needObjects'[u] = needObjects[u]
  BY <1>1, <1>2, AddTouches
<1> QED BY <1>2, <1>3, <1>4

LEMMA BindInv ==
  ASSUME IInv, NEW t \in Tables, Bind(t)
  PROVE  IInv'
<1>1. /\ TypeOK' /\ Claimed' /\ UNCHANGED <<frozen, derived, decoders>>
      /\ \A u \in frozen : /\ entries'[u] = entries[u]
                           /\ needWords'[u] = needWords[u] /\ needObjects'[u] = needObjects[u]
  BY BindStays
<1>2. \A u \in frozen : /\ ChildrenOf(u)' = ChildrenOf(u) /\ Reachable(u)' = Reachable(u)
                        /\ SizesNow(u)' = SizesNow(u) /\ PlansOf(u)' = PlansOf(u)
  BY <1>1, FrozenStays DEF IInv
<1>3. FrozenClosedDown' BY <1>1, <1>2 DEF IInv, FrozenClosedDown
<1>4. PlanCurrent' BY <1>1, <1>2 DEF IInv, PlanCurrent, derived
<1>5. Kept' BY <1>1, <1>2 DEF IInv, Kept, derived
<1> QED BY <1>1, <1>3, <1>4, <1>5 DEF IInv

(* The sizes of a tree are numbers, and no table of the tree needs more.   *)
LEMMA SizesBound ==
  ASSUME TypeOK, Claimed, NEW t \in Tables
  PROVE  /\ SizesNow(t)[1] \in Nat /\ SizesNow(t)[2] \in Nat
         /\ \A u \in Reachable(t) : /\ needWords[u] <= SizesNow(t)[1]
                                    /\ needObjects[u] <= SizesNow(t)[2]
<1>1. Reachable(t) \subseteq Tables /\ t \in Reachable(t) BY ReachableClosed
<1>2. IsFiniteSet(Reachable(t)) BY <1>1, TablesAssumption, FS_Subset
<1>3. ASSUME NEW need \in [Tables -> Nat]
      PROVE  /\ Largest(need, Reachable(t)) \in Nat
             /\ \A u \in Reachable(t) : need[u] <= Largest(need, Reachable(t))
  <2> DEFINE S == {need[u] : u \in Reachable(t)}
  <2>1. S \subseteq Nat /\ S # {} BY <1>1
  <2>2. IsFiniteSet(S)
    <3> DEFINE f == [u \in Reachable(t) |-> need[u]]
    <3>1. f \in Surjection(Reachable(t), S) BY DEF Surjection
    <3> HIDE DEF f, S
    <3> QED BY <1>2, <3>1, FS_Surjection
  <2>3. \E n \in S : \A m \in S : m <= n
    <3> HIDE DEF S
    <3> S \subseteq Int BY <2>1
    <3> QED BY <2>1, <2>2, FiniteMax
  <2>4. Max(S) \in S /\ \A m \in S : m <= Max(S)
    <3> HIDE DEF S
    <3>1. \A m, n \in S : m <= n <=> n >= m BY <2>1
    <3> QED BY <2>3, <3>1 DEF Max
  <2>5. Largest(need, Reachable(t)) = Max(S) BY DEF Largest
  <2> QED BY <2>1, <2>4, <2>5
<1>4. needWords \in [Tables -> Nat] /\ needObjects \in [Tables -> Nat] BY DEF TypeOK
<1> QED BY <1>3, <1>4 DEF SizesNow

(* Freezing a tree: below what is frozen everything is frozen, with the    *)
(* plans of now.                                                           *)
LEMMA FreezeCloses ==
  ASSUME IInv, NEW t \in Tables
  PROVE  /\ t \in Frozen(t) /\ frozen \subseteq Frozen(t) /\ Frozen(t) \subseteq Tables
         /\ \A u \in Frozen(t) : ChildrenOf(u) \subseteq Frozen(t)
         /\ \A u \in Frozen(t) : PlansAfter(t)[u] = PlansOf(u)
         /\ \A u \in frozen : PlansAfter(t)[u] = plans[u]
         /\ DOMAIN PlansAfter(t) = Tables
<1>1. /\ Reachable(t) \subseteq Tables /\ t \in Reachable(t)
      /\ \A v \in Reachable(t) : ChildrenOf(v) \subseteq Reachable(t)
  BY ReachableClosed DEF IInv
<1>2. frozen \subseteq Tables BY DEF IInv, TypeOK
<1>3. \A u \in frozen : ChildrenOf(u) \subseteq frozen BY DEF IInv, FrozenClosedDown
<1>4. \A u \in frozen : plans[u] = PlansOf(u) BY DEF IInv, PlanCurrent
<1>5. \A u \in Frozen(t) : PlansAfter(t)[u] = PlansOf(u)
  BY <1>1, <1>2, <1>4 DEF Frozen, PlansAfter
<1>6. \A u \in frozen : PlansAfter(t)[u] = plans[u] BY <1>4, <1>5 DEF Frozen
<1> QED BY <1>1, <1>2, <1>3, <1>5, <1>6 DEF Frozen, PlansAfter

(* Whichever way a table is used, what is kept afterwards is of now.       *)
LEMMA UseKeeps ==
  ASSUME IInv, NEW t \in Tables, Use(t)
  PROVE  /\ UNCHANGED contents
         /\ \/ frozen' = frozen /\ plans' = plans
            \/ frozen' = Frozen(t) /\ plans' = PlansAfter(t)
         /\ sizes' = sizes \/ (t \in frozen' /\ sizes' = [sizes EXCEPT ![t] = SizesNow(t)])
         /\ \/ compiled' = compiled
            \/ t \in frozen' /\ \E c : c.sizes = SizesNow(t) /\ compiled' = [compiled EXCEPT ![t] = c]
         /\ \A d \in decoders' \ decoders :
              /\ d.table = t /\ t \in frozen' /\ d.words \in Int /\ d.objects \in Int
              /\ SizesNow(t)[1] <= d.words
              /\ SizesNow(t)[2] = 0 \/ SizesNow(t)[2] <= d.objects
<1>1. SizesOf(t) = SizesNow(t) BY DEF IInv, Kept, SizesOf
<1>2. t \in Frozen(t) BY FreezeCloses
<1>3. compiled[t] # <<>> => t \in frozen /\ compiled[t].sizes = SizesNow(t) BY DEF IInv, Kept
<1>4. SizesNow(t)[1] \in Int /\ SizesNow(t)[2] \in Int 
  <2>1. SizesNow(t)[1] \in Nat /\ SizesNow(t)[2] \in Nat BY SizesBound DEF IInv
  <2> QED BY <2>1
<1>5. ASSUME NEW s \in Storage, NEW need, need = SizesNow(t), LetThrough(t, s, need)
      PROVE  \A d \in decoders' \ decoders :
               /\ d.table = t /\ d.words \in Int /\ d.objects \in Int
               /\ SizesNow(t)[1] <= d.words
               /\ SizesNow(t)[2] = 0 \/ SizesNow(t)[2] <= d.objects
  <2>1. s.words \in Int /\ s.objects \in Int BY LimitsAssumption
  <2> QED BY <1>4, <1>5, <2>1 DEF LetThrough
<1>6. CASE Freeze(t) BY <1>6 DEF Freeze
<1>7. CASE AskSizes(t) BY <1>2, <1>7 DEF AskSizes
<1>8. CASE BuildDecoder(t) BY <1>1, <1>2, <1>5, <1>8 DEF BuildDecoder
<1>9. CASE BuildNative(t)
  <2>1. PICK s \in Storage :
          /\ IF compiled[t] # <<>> THEN UNCHANGED <<frozen, derived>>
             ELSE /\ frozen' = Frozen(t) /\ plans' = PlansAfter(t)
                  /\ sizes' = [sizes EXCEPT ![t] = SizesOf(t)]
                  /\ compiled' = [compiled EXCEPT ![t] = Build(t, PlansAfter(t))]
          /\ LetThrough(t, s, IF compiled[t] # <<>> THEN compiled[t].sizes ELSE SizesOf(t))
          /\ UNCHANGED contents
    BY <1>9 DEF BuildNative
  <2>2. Build(t, PlansAfter(t)).sizes = SizesNow(t) BY <1>1 DEF Build
  <2>3. (IF compiled[t] # <<>> THEN compiled[t].sizes ELSE SizesOf(t)) = SizesNow(t)
    BY <1>1, <1>3
  <2>4. \A d \in decoders' \ decoders :
               /\ d.table = t /\ d.words \in Int /\ d.objects \in Int
               /\ SizesNow(t)[1] <= d.words
               /\ SizesNow(t)[2] = 0 \/ SizesNow(t)[2] <= d.objects
    BY <1>5, <2>1, <2>3
  <2> HIDE DEF Build
  <2>5. CASE compiled[t] # <<>> BY <1>3, <2>1, <2>4, <2>5 DEF derived
  <2>6. CASE compiled[t] = <<>> BY <1>1, <1>2, <2>1, <2>2, <2>4, <2>6
  <2> QED BY <2>5, <2>6
<1> QED BY <1>6, <1>7, <1>8, <1>9 DEF Use

LEMMA UseInv ==
  ASSUME IInv, NEW t \in Tables, Use(t)
  PROVE  IInv'
<1>1. /\ UNCHANGED contents
      /\ \/ frozen' = frozen /\ plans' = plans
         \/ frozen' = Frozen(t) /\ plans' = PlansAfter(t)
      /\ sizes' = sizes \/ (t \in frozen' /\ sizes' = [sizes EXCEPT ![t] = SizesNow(t)])
      /\ \/ compiled' = compiled
         \/ t \in frozen' /\ \E c : c.sizes = SizesNow(t) /\ compiled' = [compiled EXCEPT ![t] = c]
      /\ \A d \in decoders' \ decoders :
           /\ d.table = t /\ t \in frozen' /\ d.words \in Int /\ d.objects \in Int
           /\ SizesNow(t)[1] <= d.words
           /\ SizesNow(t)[2] = 0 \/ SizesNow(t)[2] <= d.objects
  BY UseKeeps
<1>2. /\ t \in Frozen(t) /\ frozen \subseteq Frozen(t) /\ Frozen(t) \subseteq Tables
      /\ \A u \in Frozen(t) : ChildrenOf(u) \subseteq Frozen(t)
      /\ \A u \in Frozen(t) : PlansAfter(t)[u] = PlansOf(u)
      /\ DOMAIN PlansAfter(t) = Tables
  BY FreezeCloses
<1>3. entries' = entries /\ needWords' = needWords /\ needObjects' = needObjects
  BY <1>1 DEF contents
<1>4. frozen \subseteq frozen' BY <1>1, <1>2
<1>5. \A u : /\ ChildrenOf(u)' = ChildrenOf(u) /\ Reachable(u)' = Reachable(u) /\ T' = T
             /\ SizesNow(u)' = SizesNow(u) /\ PlansOf(u)' = PlansOf(u)
  <2>1. \A u : ChildrenOf(u)' = ChildrenOf(u) BY <1>3 DEF ChildrenOf
  <2>2. \A u : Reachable(u)' = Reachable(u) BY <2>1 DEF Reachable
  <2>3. T' = T BY <1>3 DEF T, TableOf
  <2>4. \A u : SizesNow(u)' = SizesNow(u) BY <1>3, <2>2 DEF SizesNow, Largest
  <2>5. \A u : PlansOf(u)' = PlansOf(u) BY <1>3, <2>3 DEF PlansOf, Plan
  <2> QED BY <2>1, <2>2, <2>3, <2>4, <2>5
<1>6. TypeOK'
  <2>1. \A d \in decoders' : d.table \in Tables BY <1>1 DEF IInv, TypeOK
  <2>2. frozen' \subseteq Tables BY <1>1, <1>2 DEF IInv, TypeOK
  <2>3. DOMAIN sizes' = Tables /\ DOMAIN plans' = Tables /\ DOMAIN compiled' = Tables
    BY <1>1, <1>2 DEF IInv, TypeOK
  <2> QED BY <1>3, <2>1, <2>2, <2>3 DEF IInv, TypeOK
<1>7. Claimed' BY <1>3 DEF IInv, Claimed
<1>8. FrozenClosedDown' BY <1>1, <1>2, <1>5 DEF IInv, FrozenClosedDown
<1>9. PlanCurrent' BY <1>1, <1>2, <1>5 DEF IInv, PlanCurrent
<1>10. Kept'
  <2>1. ASSUME NEW u \in Tables
        PROVE  /\ sizes'[u] # <<>> => u \in frozen' /\ sizes'[u] = SizesNow(u)
               /\ compiled'[u] # <<>> => u \in frozen' /\ compiled'[u].sizes = SizesNow(u)
    <3>1. /\ sizes[u] # <<>> => u \in frozen /\ sizes[u] = SizesNow(u)
          /\ compiled[u] # <<>> => u \in frozen /\ compiled[u].sizes = SizesNow(u)
      BY DEF IInv, Kept
    <3>2. DOMAIN sizes = Tables /\ DOMAIN compiled = Tables BY DEF IInv, TypeOK
    <3>3. sizes'[u] # <<>> => u \in frozen' /\ sizes'[u] = SizesNow(u)
      BY <1>1, <1>4, <3>1, <3>2
    <3>4. compiled'[u] # <<>> => u \in frozen' /\ compiled'[u].sizes = SizesNow(u)
      BY <1>1, <1>4, <3>1, <3>2
    <3> QED BY <3>3, <3>4
  <2>2. ASSUME NEW d \in decoders'
        PROVE  /\ d.table \in frozen' /\ d.words \in Int /\ d.objects \in Int
               /\ SizesNow(d.table)[1] <= d.words
               /\ SizesNow(d.table)[2] = 0 \/ SizesNow(d.table)[2] <= d.objects
    <3>1. CASE d \in decoders BY <1>4, <3>1 DEF IInv, Kept
    <3>2. CASE d \notin decoders BY <1>1, <3>2
    <3> QED BY <3>1, <3>2
  <2> QED BY <1>5, <2>1, <2>2 DEF Kept
<1> QED BY <1>6, <1>7, <1>8, <1>9, <1>10 DEF IInv

LEMMA StepInv == IInv /\ [Next]_vars => IInv'
<1> SUFFICES ASSUME IInv, [Next]_vars PROVE IInv' OBVIOUS
<1>1. CASE Next BY <1>1, BindInv, UseInv DEF Next
<1>2. CASE UNCHANGED vars
  <2>1. UNCHANGED <<entries, needWords, needObjects, frozen, sizes, plans, compiled, decoders>>
    BY <1>2 DEF vars, contents, derived
  <2>2. \A u : ChildrenOf(u)' = ChildrenOf(u) BY <2>1 DEF ChildrenOf
  <2>3. \A u : Reachable(u)' = Reachable(u) BY <2>2 DEF Reachable
  <2>4. T' = T BY <2>1 DEF T, TableOf
  <2>5. \A u : SizesNow(u)' = SizesNow(u) BY <2>1, <2>3 DEF SizesNow, Largest
  <2>6. \A u : PlansOf(u)' = PlansOf(u) BY <2>1, <2>4 DEF PlansOf, Plan
  <2>7. TypeOK' BY <2>1 DEF IInv, TypeOK
  <2>8. Claimed' BY <2>1 DEF IInv, Claimed
  <2>9. FrozenClosedDown' BY <2>1, <2>2 DEF IInv, FrozenClosedDown
  <2>10. PlanCurrent' BY <2>1, <2>6 DEF IInv, PlanCurrent
  <2>11. Kept' BY <2>1, <2>5 DEF IInv, Kept
  <2> QED BY <2>7, <2>8, <2>9, <2>10, <2>11 DEF IInv
<1> QED BY <1>1, <1>2

-----------------------------------------------------------------------------
(* The storage covers every write.                                         *)

(* What a row of a table starts from lies in slots its table claimed.      *)
LEMMA OwnClaimed ==
  ASSUME TypeOK, Claimed, NEW u \in Tables, NEW r \in Range(entries[u])
  PROVE  /\ \A p \in OwnWords(r) : p[1] \in Int /\ p[1] < needWords[u]
         /\ \A p \in OwnObjects(r) \cup OwnInto(r) : p[1] \in Nat /\ p[1] < needObjects[u]
<1>1. PICK i \in DOMAIN entries[u] : r = entries[u][i] BY DEF Range
<1>2. r \in Rows BY <1>1 DEF TypeOK
<1>3. RowClaims(r, needWords[u], needObjects[u]) BY <1>1 DEF Claimed
<1>4. /\ needWords[u] \in Nat /\ needObjects[u] \in Nat BY DEF TypeOK
<1>5. /\ r.at \in Nat /\ r.cap \in Nat /\ r.count \in Int /\ r.default \in Seq(Nat) BY <1>2 DEF Rows
<1>6. OneWordKinds \cap ManyWordsKinds = {} /\ ObjectKinds = {"text", "into"}
      /\ ObjectKinds \cap (OneWordKinds \cup ManyWordsKinds) = {}
  BY DEF OneWordKinds, ManyWordsKinds, ScalarKinds, ArrayKinds, ObjectKinds
<1>7. \A p \in OwnWords(r) : p[1] \in Int /\ p[1] < needWords[u]
  <2> DEFINE own == CASE r.kind \in OneWordKinds   -> {<<r.at, r.default[1]>>}
                      [] r.kind \in ManyWordsKinds -> {<<r.at + k - 1, r.default[k]>> :
                                                         k \in DOMAIN r.default}
                      [] OTHER                     -> {}
             cnt == IF r.count < 0 THEN {}
                    ELSE {<<r.count, IF r.kind \in ManyWordsKinds \cup {"into"}
                                     THEN Len(r.default) ELSE 0>>}
  <2>1. OwnWords(r) = own \cup cnt BY DEF OwnWords
  <2>2. \A p \in cnt : p[1] = r.count OBVIOUS
  <2>3. \A p \in own : p[1] \in Int /\ p[1] < needWords[u]
    <3>1. CASE r.kind \in OneWordKinds
      <4>1. own = {<<r.at, r.default[1]>>} BY <1>6, <3>1
      <4> QED BY <1>3, <1>4, <1>5, <3>1, <4>1 DEF RowClaims
    <3>2. CASE r.kind \in ManyWordsKinds
      <4>1. own = {<<r.at + k - 1, r.default[k]>> : k \in DOMAIN r.default} BY <1>6, <3>2
      <4>2. r.at + r.cap <= needWords[u] /\ Len(r.default) <= r.cap BY <1>3, <3>2 DEF RowClaims
      <4>3. ASSUME NEW j \in DOMAIN r.default
            PROVE  r.at + j - 1 \in Int /\ r.at + j - 1 < needWords[u]
        <5>1. Len(r.default) \in Nat /\ j \in 1 .. Len(r.default) BY <1>5, LenProperties
        <5>2. j \in Int /\ j <= r.cap BY <1>5, <4>2, <5>1
        <5>3. PICK a, c, n : a = r.at /\ c = r.cap /\ n = needWords[u] OBVIOUS
        <5>4. a \in Nat /\ c \in Nat /\ n \in Nat /\ a + c <= n /\ j <= c BY <1>4, <1>5, <4>2, <5>2, <5>3
        <5>5. a + j - 1 \in Int /\ a + j - 1 < n BY <5>2, <5>4
        <5> QED BY <5>3, <5>5
      <4> QED BY <4>1, <4>3
    <3>3. CASE r.kind \notin OneWordKinds \cup ManyWordsKinds
      <4>1. own = {} BY <3>3
      <4> QED BY <4>1
    <3> QED BY <3>1, <3>2, <3>3
  <2> HIDE DEF own, cnt
  <2>4. r.count < needWords[u] BY <1>3 DEF RowClaims
  <2> QED BY <1>5, <2>1, <2>2, <2>3, <2>4
<1>8. \A p \in OwnObjects(r) \cup OwnInto(r) : p[1] = r.at /\ r.kind \in ObjectKinds
  BY <1>6 DEF OwnObjects, OwnInto
<1>9. r.kind \in ObjectKinds => r.at < needObjects[u] BY <1>3 DEF RowClaims
<1> QED BY <1>5, <1>7, <1>8, <1>9

(* So does all a re-selected option starts from, over its tables.          *)
LEMMA ReplayClaimed ==
  ASSUME TypeOK, Claimed, NEW C \in SUBSET Tables,
         \A v \in C : ChildrenOf(v) \subseteq C,
         NEW u \in C, NEW r \in Range(entries[u]),
         NEW W \in Nat, NEW O \in Nat,
         \A v \in C : needWords[v] <= W /\ needObjects[v] <= O
  PROVE  /\ \A p \in ResetWords(T, r) : p[1] \in Int /\ p[1] < W
         /\ \A p \in ResetObjects(T, r) \cup ResetInto(T, r) : p[1] \in Nat /\ p[1] < O
<1>1. DOMAIN T = Tables /\ \A v \in Tables : T[v].which = Which[v] BY DEF T, TableOf
<1>2. \A v \in C : /\ \A q \in RowsOf(T, v) : q \in Range(entries[v])
                   /\ ChildrenIn(RowsOf(T, v)) \subseteq C
  <2> SUFFICES ASSUME NEW v \in C
               PROVE  /\ \A q \in RowsOf(T, v) : q \in Range(entries[v])
                      /\ ChildrenIn(RowsOf(T, v)) \subseteq C
    OBVIOUS
  <2>1. /\ \A q \in RowsOf(T, v) : \E k \in DOMAIN entries[v] : q = entries[v][k]
        /\ ChildrenIn(RowsOf(T, v)) \subseteq ChildrenOf(v)
    BY RowsBound
  <2> QED BY <2>1 DEF Range
<1>3. r.kind = "sequence" => r.child \in C
  BY DEF ChildrenOf, ChildrenIn, Range
<1>4. FreshTables(T, r) \subseteq C
  <2>1. PICK A : A = T OBVIOUS
  <2>2. C \in SUBSET DOMAIN A /\ \A v \in C : ChildrenIn(RowsOf(A, v)) \subseteq C
    BY <1>1, <1>2, <2>1
  <2>3. FreshTables(A, r) \subseteq C BY <1>3, <2>2, FreshBelow
  <2> QED BY <2>1, <2>3
<1>5. \A v \in FreshTables(T, r) : \A q \in FreshRows(T, v) : v \in C /\ q \in Range(entries[v])
  BY <1>2, <1>4, FreshRowsAreRows
<1>6. ASSUME NEW v \in C, NEW q \in Range(entries[v])
      PROVE  /\ \A p \in OwnWords(q) : p[1] \in Int /\ p[1] < W
             /\ \A p \in OwnObjects(q) \cup OwnInto(q) : p[1] \in Nat /\ p[1] < O
  <2>1. /\ \A p \in OwnWords(q) : p[1] \in Int /\ p[1] < needWords[v]
        /\ \A p \in OwnObjects(q) \cup OwnInto(q) : p[1] \in Nat /\ p[1] < needObjects[v]
    BY OwnClaimed
  <2>2. needWords[v] \in Nat /\ needObjects[v] \in Nat /\ needWords[v] <= W /\ needObjects[v] <= O
    BY DEF TypeOK
  <2> QED BY <2>1, <2>2
<1>7. \A v \in FreshTables(T, r) : T[v].which \in Int /\ T[v].which < W
  <2> SUFFICES ASSUME NEW v \in FreshTables(T, r)
               PROVE  T[v].which \in Int /\ T[v].which < W
    OBVIOUS
  <2>1. v \in C /\ v \in Tables /\ T[v].which = Which[v] BY <1>1, <1>4
  <2>2. Which[v] < needWords[v] /\ Which[v] \in Int BY <2>1, TablesAssumption DEF Claimed
  <2>3. needWords[v] \in Nat /\ needWords[v] <= W BY <2>1 DEF TypeOK
  <2> QED BY <2>1, <2>2, <2>3
<1>8. \A p \in ResetWords(T, r) : p[1] \in Int /\ p[1] < W
  BY <1>5, <1>6, <1>7 DEF ResetWords, Replayed
<1>9. \A p \in ResetObjects(T, r) \cup ResetInto(T, r) : p[1] \in Nat /\ p[1] < O
  BY <1>5, <1>6 DEF ResetObjects, ResetInto, Replayed
<1> QED BY <1>8, <1>9

LEMMA CoveredByInv == IInv => Covered
<1> SUFFICES ASSUME IInv, NEW d \in decoders, NEW u \in Reachable(d.table)
             PROVE  /\ \A s \in WordsWritten(u) : s < d.words
                    /\ \A s \in ObjectsWritten(u) : s < d.objects
  BY DEF Covered
<1>1. TypeOK /\ Claimed BY DEF IInv
<1>2. /\ d.table \in frozen /\ d.words \in Int /\ d.objects \in Int
      /\ SizesNow(d.table)[1] <= d.words
      /\ SizesNow(d.table)[2] = 0 \/ SizesNow(d.table)[2] <= d.objects
  BY DEF IInv, Kept
<1>3. d.table \in Tables BY <1>1 DEF TypeOK
<1>4. PICK W, O, C : W = SizesNow(d.table)[1] /\ O = SizesNow(d.table)[2] /\ C = Reachable(d.table)
  OBVIOUS
<1>5. /\ C \in SUBSET Tables /\ u \in C
      /\ \A v \in C : ChildrenOf(v) \subseteq C
  BY <1>1, <1>3, <1>4, ReachableClosed
<1>6. /\ W \in Nat /\ O \in Nat
      /\ \A v \in C : needWords[v] <= W /\ needObjects[v] <= O
  BY <1>1, <1>3, <1>4, SizesBound
<1>7. u \in frozen BY <1>2, <1>4, <1>5, ReachableFrozen DEF IInv
<1>8. plans[u] = PlansOf(u) BY <1>7 DEF IInv, PlanCurrent
<1>9. ASSUME NEW q \in Range(plans[u])
      PROVE  /\ \A p \in q.words : p[1] \in Int /\ p[1] < W
             /\ \A p \in q.objects \cup q.into : p[1] \in Nat /\ p[1] < O
  <2>1. PICK k \in DOMAIN entries[u] : q = Plan(entries[u][k], Which[u])
    <3>1. Which[u] >= 0
      <4>1. DOMAIN plans[u] # {} BY DEF Range
      <4>2. DOMAIN <<>> = {} OBVIOUS
      <4> QED BY <1>5, <1>8, <4>1, <4>2, TablesAssumption DEF PlansOf
    <3> QED BY <1>8, <3>1 DEF PlansOf, Range
  <2>2. PICK r : r = entries[u][k] OBVIOUS
  <2>3. r \in Range(entries[u]) BY <2>1, <2>2 DEF Range
  <2>4. /\ \A p \in ResetWords(T, r) : p[1] \in Int /\ p[1] < W
        /\ \A p \in ResetObjects(T, r) \cup ResetInto(T, r) : p[1] \in Nat /\ p[1] < O
    BY <1>1, <1>5, <1>6, <2>3, ReplayClaimed
  <2> QED BY <2>1, <2>2, <2>4 DEF Plan
<1>10. \A r \in Range(entries[u]) : r \in Rows /\ RowClaims(r, needWords[u], needObjects[u])
  BY <1>1, <1>5 DEF Range, TypeOK, Claimed
<1>11. /\ needWords[u] \in Nat /\ needObjects[u] \in Nat /\ Which[u] < needWords[u] /\ Which[u] \in Int
       /\ needWords[u] <= W /\ needObjects[u] <= O
  BY <1>1, <1>5, <1>6, TablesAssumption DEF TypeOK, Claimed
<1>12. ASSUME NEW s \in WordsWritten(u) PROVE s < d.words
  <2>1. CASE \E q \in Range(plans[u]) : \E p \in q.words : s = p[1]
    <3>1. s < W BY <1>9, <2>1
    <3>2. s \in Int BY <1>9, <2>1
    <3> QED BY <1>2, <1>4, <1>6, <3>1, <3>2
  <2>2. CASE \E r \in Range(entries[u]) : s \in OwnSlots(r) \cup ({r.count, Which[u]} \ {-1})
    <3>1. PICK r \in Range(entries[u]) : s \in OwnSlots(r) \cup ({r.count, Which[u]} \ {-1})
      BY <2>2
    <3>2. r.at \in Nat /\ r.cap \in Nat /\ r.count \in Int BY <1>10 DEF Rows
    <3>3. RowClaims(r, needWords[u], needObjects[u]) BY <1>10
    <3>4. CASE s \in OwnSlots(r)
      <4>1. CASE r.kind \in OneWordKinds
        BY <1>2, <1>4, <1>6, <1>11, <3>2, <3>3, <3>4, <4>1 DEF OwnSlots, RowClaims
      <4>2. CASE r.kind \notin OneWordKinds /\ r.kind \in ManyWordsKinds
        <5>1. s \in r.at .. r.at + r.cap - 1 BY <3>4, <4>2 DEF OwnSlots
        <5>2. r.at + r.cap <= needWords[u] BY <3>3, <4>2 DEF RowClaims
        <5>3. s \in Int /\ s < r.at + r.cap BY <3>2, <5>1
        <5> QED BY <1>2, <1>4, <1>6, <1>11, <3>2, <5>2, <5>3
      <4>3. CASE r.kind \notin OneWordKinds /\ r.kind \notin ManyWordsKinds
        BY <3>4, <4>3 DEF OwnSlots
      <4> QED BY <4>1, <4>2, <4>3
    <3>5. CASE s \in {r.count, Which[u]}
      <4>1. s \in Int /\ s < needWords[u] BY <1>11, <3>2, <3>3, <3>5 DEF RowClaims
      <4> QED BY <1>2, <1>4, <1>6, <1>11, <4>1
    <3> QED BY <3>1, <3>4, <3>5
  <2>3. \/ \E r \in Range(entries[u]) : s \in OwnSlots(r) \cup ({r.count, Which[u]} \ {-1})
        \/ \E q \in Range(plans[u]) : s \in {p[1] : p \in q.words}
    <3> DEFINE A == UNION {OwnSlots(r) \cup ({r.count, Which[u]} \ {-1}) : r \in Range(entries[u])}
               B == UNION {{p[1] : p \in q.words} : q \in Range(plans[u])}
    <3>0. WordsWritten(u) = A \cup B BY DEF WordsWritten
    <3>1. s \in A \/ s \in B
      <4> HIDE DEF A, B
      <4> QED BY <3>0
    <3>2. s \in UNION {{p[1] : p \in q.words} : q \in Range(plans[u])}
          => \E q \in Range(plans[u]) : s \in {p[1] : p \in q.words}
      OBVIOUS
    <3>3. s \in UNION {OwnSlots(r) \cup ({r.count, Which[u]} \ {-1}) : r \in Range(entries[u])}
          => \E r \in Range(entries[u]) : s \in OwnSlots(r) \cup ({r.count, Which[u]} \ {-1})
      OBVIOUS
    <3> QED BY <3>1, <3>2, <3>3
  <2> QED BY <2>1, <2>2, <2>3
<1>13. ASSUME NEW s \in ObjectsWritten(u) PROVE s < d.objects
  <2>1. s \in Nat /\ s < O
    <3>1. CASE \E q \in Range(plans[u]) : \E p \in q.objects \cup q.into : s = p[1]
      BY <1>9, <3>1
    <3>2. CASE \E r \in Range(entries[u]) : r.kind \in ObjectKinds /\ s = r.at
      <4>1. PICK r \in Range(entries[u]) : r.kind \in ObjectKinds /\ s = r.at BY <3>2
      <4>2. r.at \in Nat /\ r.at < needObjects[u] BY <1>10, <4>1 DEF Rows, RowClaims
      <4> QED BY <1>6, <1>11, <4>1, <4>2
    <3> QED BY <3>1, <3>2 DEF ObjectsWritten
  <2>2. O # 0 BY <1>6, <2>1
  <2> QED BY <1>2, <1>4, <1>6, <2>1, <2>2
<1> QED BY <1>12, <1>13

-----------------------------------------------------------------------------
(* The theorems.                                                           *)

LEMMA Invariant == Spec => []IInv
BY InitInv, StepInv, PTL DEF Spec

(* Type correctness.                                                       *)
THEOREM TypeCorrect == Spec => []TypeOK
<1>1. IInv => TypeOK BY DEF IInv
<1> QED BY <1>1, Invariant, PTL

(* freeze and sequence: below a table in use every table is in use.        *)
THEOREM FreezeIsDeep == Spec => []FrozenClosedDown
<1>1. IInv => FrozenClosedDown BY DEF IInv
<1> QED BY <1>1, Invariant, PTL

(* The plans freeze pushed onto the rows never go stale.                   *)
THEOREM PlansStayCurrent == Spec => []PlanCurrent
<1>1. IInv => PlanCurrent BY DEF IInv
<1> QED BY <1>1, Invariant, PTL

(* Nor do the sizes the table and the native engine's copy keep.           *)
THEOREM CachesStayCurrent == Spec => []CacheCurrent
<1>1. IInv => CacheCurrent BY DEF IInv, Kept, CacheCurrent
<1> QED BY <1>1, Invariant, PTL

LEMMA ArrivalsKept ==
  IInv /\ DefaultsAreArrivals /\ [Next]_vars => DefaultsAreArrivals'
<1> SUFFICES ASSUME IInv, DefaultsAreArrivals, [Next]_vars
             PROVE  DefaultsAreArrivals'
  OBVIOUS
<1>1. CASE entries' = entries
  BY <1>1 DEF DefaultsAreArrivals, StartsAsArrival, Arrivals, Undeclared
<1>2. CASE entries' # entries
  <2>1. PICK t \in Tables : Bind(t) \/ Use(t)
    BY <1>2 DEF Next, vars, contents
  <2>2. Bind(t)
    BY <1>2, <2>1, UseKeeps DEF IInv, contents
  <2>3. PICK kind, a : Callable(kind, a) /\ Add(t, kind, a)
    BY <2>2, BindIsAdd
  <2>4. /\ WidthFits(kind, a) /\ DefaultFits(t, kind, a)
        /\ entries' = [entries EXCEPT ![t] = Append(@, Entry(kind, a))]
    BY <1>2, <2>3 DEF Add
  <2>5. entries[t] \in Seq(Rows) /\ DOMAIN entries = Tables
    BY DEF IInv, TypeOK
  <2>6. Range(entries'[t]) = Range(entries[t]) \cup {Entry(kind, a)}
    <3>1. PICK e, s : e = Entry(kind, a) /\ s = entries[t]
      OBVIOUS
    <3>2. entries'[t] = Append(s, e) /\ Len(s) \in Nat /\ DOMAIN s = 1 .. Len(s)
      BY <2>4, <2>5, <3>1
    <3>3. /\ DOMAIN Append(s, e) = 1 .. Len(s) + 1
          /\ \A k \in 1 .. Len(s) + 1 : Append(s, e)[k] = IF k = Len(s) + 1 THEN e ELSE s[k]
      BY <3>2
    <3> QED BY <3>1, <3>2, <3>3 DEF Range
  <2>7. \A u \in Tables \ {t} : entries'[u] = entries[u]
    BY <2>4, <2>5
  <2>8. Entry(kind, a).kind = kind
    BY DEF Entry
  <2>9. kind \notin ObjectKinds \cup {"unsigned"} => StartsAsArrival(Entry(kind, a))
    BY <2>3, <2>4, EntryStarts
  <2> QED BY <2>6, <2>7, <2>8, <2>9
      DEF DefaultsAreArrivals, StartsAsArrival, Arrivals, Undeclared
<1> QED BY <1>1, <1>2

(* _default_bits, _default_elements: what a re-selected option starts from *)
(* is a value that its own arrival could have left, for every kind but a   *)
(* number without sign, and but for the 0 of a number with no default.     *)
THEOREM StartsAreArrivals == Spec => []DefaultsAreArrivals
<1>1. Init => DefaultsAreArrivals
  BY DEF Init, DefaultsAreArrivals, Range
<1> QED BY <1>1, ArrivalsKept, Invariant, PTL DEF Spec

(* No decoder's storage is short of a slot that a table of its tree writes.*)
THEOREM StorageCovers == Spec => []Covered
<1> QED BY CoveredByInv, Invariant, PTL

(* A table in use never changes.                                           *)
THEOREM FrozenStaysFrozen == Spec => FrozenForGood
<1> DEFINE A == \A t \in frozen :
                  /\ t \in frozen'
                  /\ entries'[t] = entries[t] /\ plans'[t] = plans[t]
                  /\ needWords'[t] = needWords[t] /\ needObjects'[t] = needObjects[t]
                  /\ sizes[t] # <<>> => sizes'[t] = sizes[t]
<1>1. IInv /\ [Next]_vars => [A]_vars
  <2> SUFFICES ASSUME IInv, Next PROVE A OBVIOUS
  <2>1. PICK t \in Tables : Bind(t) \/ Use(t) BY DEF Next
  <2>2. CASE Bind(t)
    <3>1. /\ UNCHANGED <<frozen, derived, decoders>>
          /\ \A u \in frozen : /\ entries'[u] = entries[u]
                               /\ needWords'[u] = needWords[u] /\ needObjects'[u] = needObjects[u]
      BY <2>2, BindStays
    <3> QED BY <3>1 DEF derived
  <2>3. CASE Use(t)
    <3>1. /\ UNCHANGED contents
          /\ \/ frozen' = frozen /\ plans' = plans
             \/ frozen' = Frozen(t) /\ plans' = PlansAfter(t)
          /\ sizes' = sizes \/ (t \in frozen' /\ sizes' = [sizes EXCEPT ![t] = SizesNow(t)])
      BY <2>3, UseKeeps
    <3>2. frozen \subseteq Frozen(t) /\ \A u \in frozen : PlansAfter(t)[u] = plans[u]
      BY FreezeCloses
    <3>3. DOMAIN sizes = Tables /\ \A u \in Tables : sizes[u] # <<>> => sizes[u] = SizesNow(u)
      BY DEF IInv, TypeOK, Kept
    <3>4. frozen \subseteq Tables BY DEF IInv, TypeOK
    <3>5. \A u \in frozen : u \in frozen' /\ plans'[u] = plans[u] BY <3>1, <3>2
    <3>6. \A u \in frozen : sizes[u] # <<>> => sizes'[u] = sizes[u]
      <4> HIDE DEF SizesNow
      <4> QED BY <3>1, <3>3, <3>4
    <3>7. entries' = entries /\ needWords' = needWords /\ needObjects' = needObjects
      BY <3>1 DEF contents
    <3> QED BY <3>5, <3>6, <3>7
  <2> QED BY <2>1, <2>2, <2>3
<1> QED BY <1>1, Invariant, PTL DEF Spec, FrozenForGood

-----------------------------------------------------------------------------
(* Sequences laid end to end.                                              *)

(* A set of numbers has a least one.                                       *)
LEMMA LeastOf ==
  ASSUME NEW S, S \subseteq Nat, S # {}
  PROVE  \E n \in S : \A m \in S : n <= m
<1>1. IsWellFoundedOn(OpToRel(<, Nat), Nat)
  BY NatLessThanWellFounded
<1>2. PICK n \in S : \A m \in S : <<m, n>> \notin OpToRel(<, Nat)
  BY <1>1, WFMin, Zenon
<1>3. \A m \in S : ~(m < n)
  BY <1>2 DEF OpToRel
<1> QED BY <1>3

Chain(ss, f, n) == \A i \in 1 .. n : f[i] = IF i = 1 THEN ss[i] ELSE f[i - 1] \o ss[i]

(* The sums of the first n sequences are what those n make them.           *)
LEMMA ChainAgrees ==
  ASSUME NEW ss, NEW f, NEW g, NEW n \in Nat, Chain(ss, f, n), Chain(ss, g, n)
  PROVE  \A i \in 1 .. n : f[i] = g[i]
<1> DEFINE Bad == {i \in 1 .. n : f[i] # g[i]}
<1> SUFFICES ASSUME Bad # {} PROVE FALSE
  OBVIOUS
<1>1. PICK i \in Bad : \A j \in Bad : i <= j
  <2>1. Bad \subseteq Nat
    OBVIOUS
  <2> HIDE DEF Bad
  <2> QED BY <2>1, LeastOf
<1>2. i \in 1 .. n /\ f[i] # g[i]
  OBVIOUS
<1>3. CASE i = 1
  BY <1>2, <1>3 DEF Chain
<1>4. CASE i # 1
  <2>1. i - 1 \in 1 .. n /\ ~(i <= i - 1)
    BY <1>2, <1>4
  <2>2. f[i - 1] = g[i - 1]
    BY <1>1, <2>1
  <2>3. f[i] = f[i - 1] \o ss[i] /\ g[i] = g[i - 1] \o ss[i]
    BY <1>2, <1>4 DEF Chain
  <2> QED BY <1>2, <2>2, <2>3
<1> QED BY <1>3, <1>4

(* FlattenSeq is the last of the sums ...                                  *)
LEMMA ChainExists ==
  ASSUME NEW S, NEW ss \in Seq(Seq(S)), Len(ss) # 0
  PROVE  \E f \in [1 .. Len(ss) -> Seq(S)] : Chain(ss, f, Len(ss)) /\ FlattenSeq(ss) = f[Len(ss)]
<1> DEFINE Sum(f, i) == IF i = 1 THEN ss[i] ELSE f[i - 1] \o ss[i]
           Summed(n) == \E g \in [1 .. n -> Seq(S)] : \A i \in 1 .. n : g[i] = Sum(g, i)
           Bad == {n \in 1 .. Len(ss) : ~Summed(n)}
<1>1. Len(ss) \in Nat /\ \A i \in 1 .. Len(ss) : ss[i] \in Seq(S)
  OBVIOUS
<1>2. Bad = {}
  <2> SUFFICES ASSUME Bad # {} PROVE FALSE
    OBVIOUS
  <2> HIDE DEF Summed
  <2>1. PICK n \in Bad : \A m \in Bad : n <= m
    <3>1. Bad \subseteq Nat
      OBVIOUS
    <3> QED BY <3>1, LeastOf
  <2>2. n \in 1 .. Len(ss) /\ ~Summed(n)
    OBVIOUS
  <2>3. n # 1
    <3> SUFFICES ASSUME n = 1 PROVE Summed(n)
      BY <2>2
    <3>1. [i \in 1 .. 1 |-> ss[1]] \in [1 .. 1 -> Seq(S)]
      BY <1>1
    <3>2. \A i \in 1 .. 1 : [j \in 1 .. 1 |-> ss[1]][i] = Sum([j \in 1 .. 1 |-> ss[1]], i)
      OBVIOUS
    <3> QED BY <3>1, <3>2 DEF Summed
  <2>4. n - 1 \in 1 .. Len(ss) /\ Summed(n - 1)
    <3>1. n - 1 \in 1 .. Len(ss) /\ ~(n <= n - 1)
      BY <1>1, <2>2, <2>3
    <3> QED BY <2>1, <3>1
  <2>5. PICK g \in [1 .. n - 1 -> Seq(S)] : \A i \in 1 .. n - 1 : g[i] = Sum(g, i)
    BY <2>4 DEF Summed
  <2>6. PICK h : h = [i \in 1 .. n |-> IF i = n THEN g[n - 1] \o ss[n] ELSE g[i]]
    OBVIOUS
  <2>7. h \in [1 .. n -> Seq(S)]
    <3>1. g[n - 1] \o ss[n] \in Seq(S)
      BY <1>1, <2>2, <2>3, <2>4, <2>5, ConcatProperties
    <3> QED BY <1>1, <2>2, <2>5, <2>6, <3>1
  <2>8. \A i \in 1 .. n : h[i] = Sum(h, i)
    <3> SUFFICES ASSUME NEW i \in 1 .. n PROVE h[i] = Sum(h, i)
      OBVIOUS
    <3>1. CASE i = n
      <4>1. n - 1 \in 1 .. n /\ n - 1 # n /\ n \in 1 .. n
        BY <2>2, <2>3
      <4>2. h[n] = g[n - 1] \o ss[n]
        BY <2>6, <4>1, Zenon
      <4>3. h[n - 1] = g[n - 1]
        BY <2>2, <2>6, <4>1
      <4>4. h[n] = h[n - 1] \o ss[n]
        BY <4>2, <4>3
      <4>5. Sum(h, n) = h[n - 1] \o ss[n]
        BY <2>3
      <4> HIDE DEF Sum
      <4> QED BY <3>1, <4>4, <4>5
    <3>2. CASE i # n
      <4>1. i \in 1 .. n - 1 /\ (i # 1 => i - 1 \in 1 .. n /\ i - 1 # n)
        BY <2>2, <3>2
      <4>2. h[i] = g[i] /\ (i # 1 => h[i - 1] = g[i - 1])
        BY <2>6, <3>2, <4>1
      <4>3. g[i] = Sum(g, i)
        BY <2>5, <4>1
      <4> QED BY <4>2, <4>3
    <3> QED BY <3>1, <3>2
  <2> QED BY <2>2, <2>7, <2>8 DEF Summed
<1>3. PICK g \in [1 .. Len(ss) -> Seq(S)] : \A i \in 1 .. Len(ss) : g[i] = Sum(g, i)
  <2>1. Len(ss) \in 1 .. Len(ss)
    BY <1>1
  <2> HIDE DEF Summed
  <2>2. Summed(Len(ss))
    BY <1>2, <2>1
  <2> QED BY <2>2 DEF Summed
<1>4. g = [i \in 1 .. Len(ss) |-> IF i = 1 THEN ss[i] ELSE g[i - 1] \o ss[i]]
  BY <1>3
<1> DEFINE F == CHOOSE f : f = [i \in 1 .. Len(ss) |-> IF i = 1 THEN ss[i] ELSE f[i - 1] \o ss[i]]
<1>5. F = [i \in 1 .. Len(ss) |-> IF i = 1 THEN ss[i] ELSE F[i - 1] \o ss[i]]
  BY <1>4, Zenon
<1>6. FlattenSeq(ss) = F[Len(ss)]
  BY Zenon DEF FlattenSeq
<1> HIDE DEF F
<1>7. Chain(ss, F, Len(ss)) /\ Chain(ss, g, Len(ss))
  <2>1. PICK f : f = F
    OBVIOUS
  <2>2. f = [i \in 1 .. Len(ss) |-> IF i = 1 THEN ss[i] ELSE f[i - 1] \o ss[i]]
    BY <1>5, <2>1
  <2>3. Chain(ss, f, Len(ss))
    BY <2>2 DEF Chain
  <2> QED BY <1>3, <2>1, <2>3 DEF Chain
<1>8. Len(ss) \in 1 .. Len(ss) /\ \A i \in 1 .. Len(ss) : F[i] = g[i]
  BY <1>1, <1>7, ChainAgrees
<1> QED BY <1>6, <1>7, <1>8

(* ... so that each sequence is appended to those before it.               *)
Upto(ss, k) == FlattenSeq(SubSeq(ss, 1, k))

LEMMA UptoIs ==
  ASSUME NEW S, NEW ss \in Seq(Seq(S))
  PROVE  /\ Upto(ss, 0) = <<>> /\ Upto(ss, Len(ss)) = FlattenSeq(ss)
         /\ \A k \in 0 .. Len(ss) : Upto(ss, k) \in Seq(S) /\ Len(Upto(ss, k)) \in Nat
         /\ \A k \in 1 .. Len(ss) : Upto(ss, k) = Upto(ss, k - 1) \o ss[k]
<1>1. Len(ss) \in Nat
  OBVIOUS
<1>2. \A k \in 0 .. Len(ss) : /\ SubSeq(ss, 1, k) \in Seq(Seq(S)) /\ Len(SubSeq(ss, 1, k)) = k
                             /\ \A i \in 1 .. k : SubSeq(ss, 1, k)[i] = ss[i]
  OBVIOUS
<1>3. Upto(ss, 0) = <<>>
  <2>1. SubSeq(ss, 1, 0) = <<>> /\ Len(SubSeq(ss, 1, 0)) = 0
    OBVIOUS
  <2> QED BY <2>1 DEF Upto, FlattenSeq
<1>4. Upto(ss, Len(ss)) = FlattenSeq(ss)
  <2>1. SubSeq(ss, 1, Len(ss)) = ss
    BY <1>1
  <2> QED BY <2>1 DEF Upto
<1>5. ASSUME NEW k \in 1 .. Len(ss)
      PROVE  Upto(ss, k) \in Seq(S) /\ \E f : Chain(ss, f, k) /\ Upto(ss, k) = f[k]
  <2>1. PICK tt : tt = SubSeq(ss, 1, k)
    OBVIOUS
  <2>2. tt \in Seq(Seq(S)) /\ Len(tt) = k /\ k # 0 /\ \A i \in 1 .. k : tt[i] = ss[i]
    BY <1>2, <2>1
  <2>3. PICK f \in [1 .. k -> Seq(S)] : Chain(tt, f, k) /\ FlattenSeq(tt) = f[k]
    BY <2>2, ChainExists
  <2>4. Chain(ss, f, k)
    BY <2>2, <2>3 DEF Chain
  <2>5. k \in 1 .. k
    OBVIOUS
  <2>6. f[k] \in Seq(S)
    BY <2>5
  <2> QED BY <2>1, <2>3, <2>4, <2>6, Zenon DEF Upto
<1>6. \A k \in 0 .. Len(ss) : Upto(ss, k) \in Seq(S)
  <2> SUFFICES ASSUME NEW k \in 0 .. Len(ss) PROVE Upto(ss, k) \in Seq(S)
    OBVIOUS
  <2>1. CASE k = 0
    <3>1. <<>> \in Seq(S)
      OBVIOUS
    <3> QED BY <1>3, <2>1, <3>1
  <2>2. CASE k \in 1 .. Len(ss)
    BY <1>5, <2>2
  <2> QED BY <1>1, <2>1, <2>2
<1>7. ASSUME NEW k \in 1 .. Len(ss) PROVE Upto(ss, k) = Upto(ss, k - 1) \o ss[k]
  <2>1. PICK f : Chain(ss, f, k) /\ Upto(ss, k) = f[k]
    BY <1>5
  <2>2. CASE k = 1
    <3>1. f[k] = ss[k]
      BY <2>1, <2>2 DEF Chain
    <3>2. Upto(ss, k - 1) = <<>>
      BY <1>3, <2>2
    <3>3. ss[k] \in Seq(S)
      OBVIOUS
    <3>4. <<>> \o ss[k] = ss[k]
      BY <3>3, ConcatEmptySeq
    <3> QED BY <2>1, <3>1, <3>2, <3>4
  <2>3. CASE k # 1
    <3>1. k - 1 \in 1 .. Len(ss) /\ k - 1 \in 1 .. k /\ k - 1 \in Nat /\ k \in 1 .. k
      BY <1>1, <2>3
    <3>2. PICK g : Chain(ss, g, k - 1) /\ Upto(ss, k - 1) = g[k - 1]
      BY <1>5, <3>1
    <3>3. Chain(ss, f, k - 1)
      <4>1. \A i \in 1 .. k - 1 : i \in 1 .. k
        BY <3>1
      <4> QED BY <2>1, <4>1 DEF Chain
    <3>4. k - 1 \in 1 .. k - 1
      BY <3>1
    <3>5. f[k - 1] = g[k - 1]
      <4>1. PICK n : n = k - 1
        OBVIOUS
      <4>2. n \in Nat /\ Chain(ss, f, n) /\ Chain(ss, g, n)
        BY <3>1, <3>2, <3>3, <4>1
      <4>3. \A i \in 1 .. n : f[i] = g[i]
        BY <4>2, ChainAgrees
      <4> QED BY <3>4, <4>1, <4>3
    <3>6. f[k] = f[k - 1] \o ss[k]
      BY <2>1, <2>3, <3>1 DEF Chain
    <3> QED BY <2>1, <3>2, <3>5, <3>6
  <2> QED BY <2>2, <2>3
<1> QED BY <1>3, <1>4, <1>6, <1>7, LenProperties

(* A sequence stands in the whole behind those before it.                  *)
LEMMA PlaceInFlat ==
  ASSUME NEW S, NEW ss \in Seq(Seq(S)), NEW k \in 1 .. Len(ss)
  PROVE  /\ Len(Upto(ss, k - 1)) \in Nat /\ Len(ss[k]) \in Nat
         /\ Len(Upto(ss, k - 1)) + Len(ss[k]) <= Len(FlattenSeq(ss))
         /\ FlattenSeq(ss) \in Seq(S) /\ Len(FlattenSeq(ss)) \in Nat
         /\ \A j \in 1 .. Len(ss[k]) : FlattenSeq(ss)[Len(Upto(ss, k - 1)) + j] = ss[k][j]
<1> DEFINE Holds(m) == /\ Len(Upto(ss, k)) <= Len(Upto(ss, m))
                       /\ \A i \in 1 .. Len(Upto(ss, k)) : Upto(ss, m)[i] = Upto(ss, k)[i]
           Bad == {m \in k .. Len(ss) : ~Holds(m)}
<1>1. /\ Len(ss) \in Nat /\ k - 1 \in 0 .. Len(ss) /\ k \in 0 .. Len(ss) /\ ss[k] \in Seq(S)
      /\ Len(ss[k]) \in Nat
  OBVIOUS
<1>2. Bad = {}
  <2> HIDE DEF Holds
  <2> SUFFICES ASSUME Bad # {} PROVE FALSE
    OBVIOUS
  <2>1. PICK m \in Bad : \A n \in Bad : m <= n
    <3>1. Bad \subseteq Nat
      OBVIOUS
    <3> HIDE DEF Bad
    <3> QED BY <3>1, LeastOf
  <2>2. m \in k .. Len(ss) /\ ~Holds(m)
    OBVIOUS
  <2>3. CASE m = k
    <3>1. Holds(k)
      BY <1>1, UptoIs DEF Holds
    <3> QED BY <2>2, <2>3, <3>1
  <2>4. CASE m # k
    <3>1. m - 1 \in k .. Len(ss) /\ ~(m <= m - 1) /\ m \in 1 .. Len(ss) /\ m - 1 \in 0 .. Len(ss)
      BY <1>1, <2>2, <2>4
    <3>2. Holds(m - 1)
      BY <2>1, <3>1
    <3>3. PICK a, b, c : a = Upto(ss, m - 1) /\ b = ss[m] /\ c = Upto(ss, k)
      OBVIOUS
    <3>4. a \in Seq(S) /\ b \in Seq(S) /\ c \in Seq(S) /\ Upto(ss, m) = a \o b
      <4>1. a \in Seq(S) /\ c \in Seq(S)
        BY <1>1, <3>1, <3>3, UptoIs
      <4>2. b \in Seq(S)
        BY <3>1, <3>3
      <4>3. Upto(ss, m) = a \o b
        BY <3>1, <3>3, UptoIs
      <4> QED BY <4>1, <4>2, <4>3
    <3>5. Len(c) <= Len(a) /\ \A i \in 1 .. Len(c) : a[i] = c[i]
      BY <3>2, <3>3 DEF Holds
    <3>6. Len(c) <= Len(a \o b) /\ \A i \in 1 .. Len(c) : (a \o b)[i] = c[i]
      BY <3>4, <3>5
    <3>7. Holds(m)
      BY <3>3, <3>4, <3>6 DEF Holds
    <3> QED BY <2>2, <3>7
  <2> QED BY <2>3, <2>4
<1>3. Holds(Len(ss))
  <2> HIDE DEF Holds
  <2>1. Len(ss) \in k .. Len(ss)
    BY <1>1
  <2> QED BY <1>2, <2>1
<1>4. PICK a, b, c : a = Upto(ss, k - 1) /\ b = ss[k] /\ c = FlattenSeq(ss)
  OBVIOUS
<1>5. a \in Seq(S) /\ b \in Seq(S) /\ c \in Seq(S) /\ Upto(ss, k) = a \o b /\ Upto(ss, Len(ss)) = c
  <2>1. Len(ss) \in 0 .. Len(ss)
    BY <1>1
  <2> QED BY <1>1, <1>4, <2>1, UptoIs
<1>6. Len(a \o b) <= Len(c) /\ \A i \in 1 .. Len(a \o b) : c[i] = (a \o b)[i]
  BY <1>3, <1>5
<1>7. Len(a) \in Nat /\ Len(b) \in Nat /\ Len(c) \in Nat /\ Len(a \o b) = Len(a) + Len(b)
  BY <1>5
<1>8. \A j \in 1 .. Len(b) : Len(a) + j \in 1 .. Len(a) + Len(b) /\ (a \o b)[Len(a) + j] = b[j]
  BY <1>5
<1>9. \A j \in 1 .. Len(b) : c[Len(a) + j] = b[j]
  BY <1>6, <1>7, <1>8
<1> QED BY <1>4, <1>5, <1>6, <1>7, <1>9

(* Where it stands is a matter of lengths alone.                           *)
LEMMA SamePlaces ==
  ASSUME NEW S, NEW ss \in Seq(Seq(S)), NEW R, NEW rr \in Seq(Seq(R)), Len(ss) = Len(rr),
         \A k \in 1 .. Len(ss) : Len(ss[k]) = Len(rr[k])
  PROVE  \A k \in 0 .. Len(ss) : Len(Upto(ss, k)) = Len(Upto(rr, k))
<1> DEFINE Bad == {k \in 0 .. Len(ss) : Len(Upto(ss, k)) # Len(Upto(rr, k))}
<1> SUFFICES ASSUME Bad # {} PROVE FALSE
  OBVIOUS
<1>1. PICK k \in Bad : \A j \in Bad : k <= j
  <2>1. Bad \subseteq Nat
    OBVIOUS
  <2> HIDE DEF Bad
  <2> QED BY <2>1, LeastOf
<1>2. k \in 0 .. Len(ss) /\ Len(Upto(ss, k)) # Len(Upto(rr, k)) /\ Len(ss) \in Nat
  OBVIOUS
<1>3. k # 0
  BY <1>2, UptoIs
<1>4. k - 1 \in 0 .. Len(ss) /\ ~(k <= k - 1) /\ k \in 1 .. Len(ss)
  BY <1>2, <1>3
<1>5. Len(Upto(ss, k - 1)) = Len(Upto(rr, k - 1))
  BY <1>1, <1>4
<1>6. PICK a, b, c, d : a = Upto(ss, k - 1) /\ b = ss[k] /\ c = Upto(rr, k - 1) /\ d = rr[k]
  OBVIOUS
<1>7. /\ a \in Seq(S) /\ b \in Seq(S) /\ Upto(ss, k) = a \o b
      /\ c \in Seq(R) /\ d \in Seq(R) /\ Upto(rr, k) = c \o d
      /\ Len(a) = Len(c) /\ Len(b) = Len(d)
  <2>1. b \in Seq(S) /\ d \in Seq(R) /\ Len(b) = Len(d)
    BY <1>4, <1>6
  <2>2. a \in Seq(S) /\ Upto(ss, k) = a \o b
    BY <1>4, <1>6, UptoIs
  <2>3. c \in Seq(R) /\ Upto(rr, k) = c \o d
    BY <1>4, <1>6, UptoIs
  <2> QED BY <1>5, <1>6, <2>1, <2>2, <2>3
<1>8. Len(a \o b) = Len(c \o d)
  <2>1. Len(a \o b) = Len(a) + Len(b)
    BY <1>7, ConcatProperties
  <2>2. Len(c \o d) = Len(c) + Len(d)
    BY <1>7, ConcatProperties
  <2> QED BY <1>7, <2>1, <2>2
<1> QED BY <1>2, <1>7, <1>8

-----------------------------------------------------------------------------
(* What a reset plan is.                                                   *)

(* A finite set's elements, each once.                                     *)
LEMMA AsSeq ==
  ASSUME NEW S, IsFiniteSet(S)
  PROVE  /\ SetToSeq(S) \in Seq(S) /\ Range(SetToSeq(S)) = S
         /\ IsInjective(SetToSeq(S))
<1> DEFINE n == Cardinality(S)
<1>1. n \in Nat /\ ExistsBijection(1 .. n, S)
  BY FS_CardinalityType
<1>2. PICK b : b \in [1 .. n -> S] /\ IsInjective(b)
  <2>1. PICK b \in Bijection(1 .. n, S) : TRUE
    BY <1>1, Zenon DEF ExistsBijection
  <2>2. b \in Injection(1 .. n, S)
    BY <2>1, Zenon DEF Bijection
  <2> QED BY <2>2, Zenon DEF Injection
<1> DEFINE f == SetToSeq(S)
<1>3. f \in [1 .. n -> S] /\ IsInjective(f)
  BY <1>2, Zenon DEF SetToSeq
<1> HIDE DEF f, n
<1>4. f \in Surjection(1 .. n, S)
  <2>1. f \in Injection(1 .. n, S)
    BY <1>3 DEF Injection
  <2>2. Cardinality(1 .. n) = n
    BY <1>1, FS_Interval
  <2> QED BY <2>1, <2>2, FS_Injection DEF n
<1>5. f \in Seq(S)
  BY <1>1, <1>3
<1>6. Range(f) = S
  BY <1>3, <1>4 DEF Range, Surjection
<1> QED BY <1>3, <1>5, <1>6 DEF f

(* The values of a function on a finite set.                               *)
LEMMA ValuesFinite ==
  ASSUME NEW f, IsFiniteSet(DOMAIN f)
  PROVE  IsFiniteSet({f[x] : x \in DOMAIN f})
<1> DEFINE S == {f[x] : x \in DOMAIN f}
           g == [x \in DOMAIN f |-> f[x]]
<1>1. g \in Surjection(DOMAIN f, S)
  BY DEF Surjection
<1> HIDE DEF g, S
<1>2. IsFiniteSet(S)
  BY <1>1, FS_Surjection
<1> QED BY <1>2 DEF S

(* A slice cut out of the whole is the sequence that was put there.        *)
LEMMA CutIs ==
  ASSUME NEW S, NEW ss \in Seq(Seq(S)), NEW k \in 1 .. Len(ss)
  PROVE  Cut(Slices(ss), k) = Range(ss[k])
<1> DEFINE c == Slices(ss)
<1>1. /\ c.flat = FlattenSeq(ss) /\ c.at[k] = Len(Upto(ss, k - 1)) /\ c.n[k] = Len(ss[k])
  BY DEF Slices, Upto
<1>2. PICK a, n, flat, s : a = Len(Upto(ss, k - 1)) /\ n = Len(ss[k]) /\ flat = FlattenSeq(ss) /\ s = ss[k]
  OBVIOUS
<1>3. /\ a \in Nat /\ n \in Nat /\ a + n <= Len(flat) /\ flat \in Seq(S) /\ Len(flat) \in Nat
      /\ \A j \in 1 .. n : flat[a + j] = s[j]
      /\ s \in Seq(S) /\ n = Len(s)
  <2>1. ss[k] \in Seq(S)
    OBVIOUS
  <2>2. /\ Len(Upto(ss, k - 1)) \in Nat /\ Len(ss[k]) \in Nat
        /\ Len(Upto(ss, k - 1)) + Len(ss[k]) <= Len(FlattenSeq(ss))
        /\ FlattenSeq(ss) \in Seq(S) /\ Len(FlattenSeq(ss)) \in Nat
        /\ \A j \in 1 .. Len(ss[k]) : FlattenSeq(ss)[Len(Upto(ss, k - 1)) + j] = ss[k][j]
    BY PlaceInFlat
  <2> QED BY <1>2, <2>1, <2>2
<1>4. Range(SubSeq(flat, a + 1, a + n)) = Range(s)
  <2>1. /\ DOMAIN SubSeq(flat, a + 1, a + n) = 1 .. n
        /\ \A j \in 1 .. n : SubSeq(flat, a + 1, a + n)[j] = flat[a + j]
    BY <1>3
  <2>2. DOMAIN s = 1 .. n
    BY <1>3
  <2>3. \A j \in 1 .. n : SubSeq(flat, a + 1, a + n)[j] = s[j]
    BY <1>3, <2>1
  <2> QED BY <2>1, <2>2, <2>3 DEF Range
<1> QED BY <1>1, <1>2, <1>4 DEF Cut

(* What an option starts from is a finite set of pairs.                    *)
LEMMA OwnFinite ==
  ASSUME NEW r \in Rows
  PROVE  IsFiniteSet(OwnWords(r)) /\ IsFiniteSet(OwnObjects(r)) /\ IsFiniteSet(OwnInto(r))
<1>1. \A x : IsFiniteSet({x}) /\ IsFiniteSet({})
  BY FS_Singleton, FS_EmptySet
<1>2. IsFiniteSet({<<r.at + k - 1, r.default[k]>> : k \in DOMAIN r.default})
  <2> DEFINE f == [k \in DOMAIN r.default |-> <<r.at + k - 1, r.default[k]>>]
  <2>1. Len(r.default) \in Nat /\ DOMAIN r.default = 1 .. Len(r.default)
    BY DEF Rows
  <2>2. IsFiniteSet(DOMAIN f)
    BY <2>1, FS_Interval
  <2>3. {f[k] : k \in DOMAIN f} = {<<r.at + k - 1, r.default[k]>> : k \in DOMAIN r.default}
    OBVIOUS
  <2> HIDE DEF f
  <2>4. IsFiniteSet({f[k] : k \in DOMAIN f})
    BY <2>2, ValuesFinite
  <2> QED BY <2>3, <2>4
<1>3. IsFiniteSet(OwnWords(r))
  <2> DEFINE A == CASE r.kind \in OneWordKinds   -> {<<r.at, r.default[1]>>}
                    [] r.kind \in ManyWordsKinds -> {<<r.at + k - 1, r.default[k]>> :
                                                       k \in DOMAIN r.default}
                    [] OTHER                     -> {}
             B == IF r.count < 0 THEN {}
                  ELSE {<<r.count, IF r.kind \in ManyWordsKinds \cup {"into"}
                                   THEN Len(r.default) ELSE 0>>}
  <2>1. r.kind \in OneWordKinds => r.kind \notin ManyWordsKinds
    BY DEF OneWordKinds, ManyWordsKinds, ScalarKinds, ArrayKinds
  <2>2. IsFiniteSet(A)
    BY <1>1, <1>2, <2>1
  <2>3. IsFiniteSet(B)
    BY <1>1
  <2>4. OwnWords(r) = A \cup B
    BY Zenon DEF OwnWords
  <2> HIDE DEF A, B
  <2> QED BY <2>2, <2>3, <2>4, FS_Union
<1> QED BY <1>1, <1>3 DEF OwnObjects, OwnInto

LEMMA ReplayFinite ==
  ASSUME TypeOK, NEW O, \A q \in Rows : IsFiniteSet(O[q]), NEW r \in Rows
  PROVE  /\ FreshTables(T, r) \subseteq Tables /\ IsFiniteSet(FreshTables(T, r))
         /\ \A t \in FreshTables(T, r) : FreshRows(T, t) \subseteq Rows
         /\ IsFiniteSet(O[r] \cup UNION {UNION {O[q] : q \in FreshRows(T, t)} :
                                           t \in FreshTables(T, r)})
<1>1. FreshTables(T, r) \subseteq Tables
  BY DEF FreshTables, T
<1>2. IsFiniteSet(FreshTables(T, r))
  BY <1>1, TablesAssumption, FS_Subset
<1>3. ASSUME NEW t \in Tables
      PROVE  FreshRows(T, t) \subseteq Rows /\ IsFiniteSet(FreshRows(T, t))
  <2>1. PICK s : s = entries[t]
    OBVIOUS
  <2>2. s \in Seq(Rows)
    BY <2>1 DEF TypeOK
  <2> DEFINE R == {s[k] : k \in DOMAIN s}
  <2>3. R \subseteq Rows /\ IsFiniteSet(DOMAIN s)
    <3> HIDE DEF Rows
    <3> QED BY <2>2, FS_Interval
  <2>4. IsFiniteSet(R)
    BY <2>3, ValuesFinite
  <2>5. FreshRows(T, t) \subseteq R
    BY <2>1, RowsBound, FreshRowsAreRows
  <2> HIDE DEF R
  <2> QED BY <2>3, <2>4, <2>5, FS_Subset
<1>4. ASSUME NEW t \in Tables
      PROVE  IsFiniteSet(UNION {O[q] : q \in FreshRows(T, t)})
  <2>1. FreshRows(T, t) \subseteq Rows /\ IsFiniteSet(FreshRows(T, t))
    BY <1>3
  <2> DEFINE f == [q \in FreshRows(T, t) |-> O[q]]
  <2>2. IsFiniteSet({f[q] : q \in DOMAIN f})
    <3>1. IsFiniteSet(DOMAIN f)
      BY <2>1
    <3> HIDE DEF f
    <3> QED BY <3>1, ValuesFinite
  <2>3. {f[q] : q \in DOMAIN f} = {O[q] : q \in FreshRows(T, t)}
    OBVIOUS
  <2>4. \A X \in {O[q] : q \in FreshRows(T, t)} : IsFiniteSet(X)
    BY <2>1
  <2> HIDE DEF f
  <2>5. PICK U : U = {O[q] : q \in FreshRows(T, t)}
    OBVIOUS
  <2> QED BY <2>2, <2>3, <2>4, <2>5, FS_UNION
<1>5. IsFiniteSet(UNION {UNION {O[q] : q \in FreshRows(T, t)} : t \in FreshTables(T, r)})
  <2> DEFINE f == [t \in FreshTables(T, r) |-> UNION {O[q] : q \in FreshRows(T, t)}]
  <2>1. IsFiniteSet({f[t] : t \in DOMAIN f})
    <3>1. IsFiniteSet(DOMAIN f)
      BY <1>2
    <3> HIDE DEF f
    <3> QED BY <3>1, ValuesFinite
  <2>2. {f[t] : t \in DOMAIN f} = {UNION {O[q] : q \in FreshRows(T, t)} : t \in FreshTables(T, r)}
    OBVIOUS
  <2>3. \A X \in {f[t] : t \in DOMAIN f} : IsFiniteSet(X)
    BY <1>1, <1>4
  <2> HIDE DEF f
  <2>4. PICK U : U = {f[t] : t \in DOMAIN f}
    OBVIOUS
  <2>5. IsFiniteSet(UNION U)
    BY <2>1, <2>3, <2>4, FS_UNION
  <2> QED BY <2>2, <2>4, <2>5
<1>6. IsFiniteSet(O[r])
  OBVIOUS
<1> QED BY <1>1, <1>2, <1>3, <1>5, <1>6, FS_Union

LEMMA ResetFinite ==
  ASSUME TypeOK, NEW r \in Rows
  PROVE  /\ IsFiniteSet(ResetWords(T, r)) /\ IsFiniteSet(ResetObjects(T, r))
         /\ IsFiniteSet(ResetInto(T, r))
<1> DEFINE OW == [q \in Rows |-> OwnWords(q)]
           OO == [q \in Rows |-> OwnObjects(q)]
           OI == [q \in Rows |-> OwnInto(q)]
           All(O) == O[r] \cup UNION {UNION {O[q] : q \in FreshRows(T, t)} :
                                        t \in FreshTables(T, r)}
<1>1. \A q \in Rows : IsFiniteSet(OW[q]) /\ IsFiniteSet(OO[q]) /\ IsFiniteSet(OI[q])
  BY OwnFinite
<1>2. /\ FreshTables(T, r) \subseteq Tables /\ IsFiniteSet(FreshTables(T, r))
      /\ \A t \in FreshTables(T, r) : FreshRows(T, t) \subseteq Rows
      /\ IsFiniteSet(All(OW)) /\ IsFiniteSet(All(OO)) /\ IsFiniteSet(All(OI))
  <2>1. PICK a, b, c : a = OW /\ b = OO /\ c = OI
    OBVIOUS
  <2>2. /\ \A q \in Rows : IsFiniteSet(a[q])
        /\ \A q \in Rows : IsFiniteSet(b[q])
        /\ \A q \in Rows : IsFiniteSet(c[q])
    BY <1>1, <2>1
  <2>3. IsFiniteSet(All(a)) /\ IsFiniteSet(All(b)) /\ IsFiniteSet(All(c))
    BY <2>2, ReplayFinite
  <2>4. /\ FreshTables(T, r) \subseteq Tables /\ IsFiniteSet(FreshTables(T, r))
        /\ \A t \in FreshTables(T, r) : FreshRows(T, t) \subseteq Rows
    BY <2>2, ReplayFinite
  <2> HIDE DEF OW, OO, OI
  <2> QED BY <2>1, <2>3, <2>4
<1>3. /\ Replayed(T, r, OwnWords) = All(OW)
      /\ Replayed(T, r, OwnObjects) = All(OO)
      /\ Replayed(T, r, OwnInto) = All(OI)
  <2>1. \A t \in FreshTables(T, r) :
          /\ {OwnWords(q) : q \in FreshRows(T, t)} = {OW[q] : q \in FreshRows(T, t)}
          /\ {OwnObjects(q) : q \in FreshRows(T, t)} = {OO[q] : q \in FreshRows(T, t)}
          /\ {OwnInto(q) : q \in FreshRows(T, t)} = {OI[q] : q \in FreshRows(T, t)}
    BY <1>2
  <2>2. OW[r] = OwnWords(r) /\ OO[r] = OwnObjects(r) /\ OI[r] = OwnInto(r)
    OBVIOUS
  <2> HIDE DEF OW, OO, OI
  <2> QED BY <2>1, <2>2 DEF Replayed
<1> HIDE DEF All, OW, OO, OI
<1>4. IsFiniteSet({<<T[t].which, T[t].first>> : t \in {u \in FreshTables(T, r) : T[u].which >= 0}})
  <2> DEFINE D == {u \in FreshTables(T, r) : T[u].which >= 0}
             f == [t \in D |-> <<T[t].which, T[t].first>>]
  <2>1. IsFiniteSet(D)
    BY <1>2, FS_Subset
  <2>2. IsFiniteSet({f[t] : t \in DOMAIN f})
    <3>1. IsFiniteSet(DOMAIN f)
      BY <2>1
    <3> HIDE DEF f
    <3> QED BY <3>1, ValuesFinite
  <2>3. {f[t] : t \in DOMAIN f} = {<<T[t].which, T[t].first>> : t \in D}
    OBVIOUS
  <2> HIDE DEF f
  <2> QED BY <2>2, <2>3
<1> QED BY <1>2, <1>3, <1>4, FS_Union DEF ResetWords, ResetObjects, ResetInto

(* The plans of all tables, and what a row has of them.                    *)
AllPlans == UNION {Range(PlansOf(u)) : u \in Tables}
Planned  == {<<>>} \cup {<<x>> : x \in AllPlans}

LEMMA PlansAre ==
  ASSUME TypeOK, NEW u \in Tables
  PROVE  /\ Which[u] < 0 => PlansOf(u) = <<>>
         /\ Which[u] >= 0 =>
              /\ DOMAIN PlansOf(u) = DOMAIN entries[u]
              /\ \A p \in DOMAIN entries[u] :
                   /\ PlansOf(u)[p] = Plan(entries[u][p], Which[u])
                   /\ PlansOf(u)[p] \in AllPlans
<1>1. CASE Which[u] < 0
  BY <1>1, TablesAssumption DEF PlansOf
<1>2. CASE ~(Which[u] < 0)
  <2>1. PlansOf(u) = [p \in DOMAIN entries[u] |-> Plan(entries[u][p], Which[u])]
    BY <1>2 DEF PlansOf
  <2>2. ASSUME NEW p \in DOMAIN entries[u]
        PROVE  PlansOf(u)[p] \in AllPlans
    <3>1. PICK f : f = PlansOf(u)
      OBVIOUS
    <3>2. p \in DOMAIN f
      BY <2>1, <3>1
    <3>3. f[p] \in Range(f)
      BY <3>2 DEF Range
    <3> QED BY <3>1, <3>3 DEF AllPlans
  <2> QED BY <1>2, <2>1, <2>2
<1> QED BY <1>1, <1>2

LEMMA PlansFinite ==
  ASSUME TypeOK, NEW x \in AllPlans, NEW part \in {"words", "objects", "into"}
  PROVE  IsFiniteSet(x[part])
<1>1. PICK u \in Tables : x \in Range(PlansOf(u))
  BY DEF AllPlans
<1>2. CASE Which[u] < 0
  BY <1>1, <1>2 DEF PlansOf, Range
<1>3. CASE ~(Which[u] < 0)
  <2>1. PICK p \in DOMAIN entries[u] : x = Plan(entries[u][p], Which[u])
    BY <1>1, <1>3 DEF PlansOf, Range
  <2>2. PICK r : r = entries[u][p]
    OBVIOUS
  <2>3. r \in Rows
    <3>1. entries[u] \in Seq(Rows)
      BY DEF TypeOK
    <3> HIDE DEF Rows
    <3> QED BY <2>1, <2>2, <3>1
  <2>4. /\ IsFiniteSet(ResetWords(T, r)) /\ IsFiniteSet(ResetObjects(T, r))
        /\ IsFiniteSet(ResetInto(T, r))
    BY <2>3, ResetFinite
  <2>5. /\ x["words"] = ResetWords(T, r) /\ x["objects"] = ResetObjects(T, r)
        /\ x["into"] = ResetInto(T, r)
    BY <2>1, <2>2 DEF Plan
  <2> QED BY <2>4, <2>5
<1> QED BY <1>2, <1>3

LEMMA PartsAre ==
  ASSUME TypeOK, NEW own \in Seq(Planned), NEW part \in {"words", "objects", "into"},
         NEW j \in DOMAIN own, own[j] # <<>>
  PROVE  Cut(Slices([i \in DOMAIN own |-> ResetOf(own[i], part)]), j) = own[j][1][part]
<1> DEFINE ws == [i \in DOMAIN own |-> ResetOf(own[i], part)]
           W == UNION {x[part] : x \in AllPlans}
<1>1. \A i \in DOMAIN own : own[i] \in Planned
  BY DEF Planned
<1>2. ASSUME NEW i \in DOMAIN own
      PROVE  /\ ResetOf(own[i], part) \in Seq(W)
             /\ own[i] # <<>> => Range(ResetOf(own[i], part)) = own[i][1][part]
  <2>1. CASE own[i] = <<>>
    <3>1. <<>> \in Seq(W)
      OBVIOUS
    <3> QED BY <2>1, <3>1 DEF ResetOf
  <2>2. CASE own[i] # <<>>
    <3>1. PICK x \in AllPlans : own[i] = <<x>>
      BY <1>1, <2>2 DEF Planned
    <3>2. own[i][1] = x
      BY <3>1
    <3>3. ResetOf(own[i], part) = SetToSeq(x[part])
      BY <2>2, <3>2 DEF ResetOf
    <3>4. PICK X : X = x[part]
      OBVIOUS
    <3>5. IsFiniteSet(X) /\ X \subseteq W
      BY <3>4, PlansFinite
    <3>6. SetToSeq(X) \in Seq(X) /\ Range(SetToSeq(X)) = X
      BY <3>5, AsSeq
    <3> HIDE DEF W
    <3>7. SetToSeq(X) \in Seq(W)
      BY <3>5, <3>6
    <3> QED BY <3>2, <3>3, <3>4, <3>6, <3>7
  <2> QED BY <2>1, <2>2
<1> HIDE DEF W
<1>3. Len(own) \in Nat /\ DOMAIN own = 1 .. Len(own)
  OBVIOUS
<1>4. ws \in Seq(Seq(W)) /\ Len(ws) = Len(own) /\ ws[j] = ResetOf(own[j], part)
  <2>1. ws \in [1 .. Len(own) -> Seq(W)]
    BY <1>2, <1>3
  <2> HIDE DEF ws
  <2>2. ws \in Seq(Seq(W)) /\ Len(ws) = Len(own)
    BY <1>3, <2>1
  <2>3. ws[j] = ResetOf(own[j], part)
    BY DEF ws
  <2> QED BY <2>2, <2>3
<1> HIDE DEF ws
<1>5. j \in 1 .. Len(ws)
  BY <1>3, <1>4
<1>6. Cut(Slices(ws), j) = Range(ws[j])
  BY <1>4, <1>5, CutIs
<1> QED BY <1>2, <1>4, <1>6 DEF ws

-----------------------------------------------------------------------------
(* One table of the copy.                                                  *)

(* _Compiled.build's index of the n rows from place at on, m the largest   *)
(* id.                                                                     *)
IndexOf(ent, at, n, m) ==
  IF ~(n > 0 /\ m <= IdxMax) THEN <<>>
  ELSE [id \in 0 .. m |-> IF \E j \in 1 .. n : ent[at + j].id = id
                          THEN CHOOSE j \in 1 .. n : ent[at + j].id = id
                          ELSE -1]

(* Table k of a copy is the rows s, from place at on, m their largest id.  *)
CopiedAt(c, k, s, at, m) ==
  /\ s \in Seq(Rows) /\ at \in Nat /\ m \in Nat
  /\ \A p, q \in DOMAIN s : s[p].id = s[q].id => p = q
  /\ \A p \in DOMAIN s : s[p].id <= m /\ c.ent[at + p] = s[p]
  /\ c.tab[k].first = at /\ c.tab[k].n = Len(s) /\ c.tab[k].max = m
  /\ c.tab[k].idx = IndexOf(c.ent, at, Len(s), m)

(* Both of _lookup's searches find the one row of the table that has the   *)
(* id.                                                                     *)
LEMMA LookupFinds ==
  ASSUME NEW c, NEW k, NEW s, NEW at, NEW m, CopiedAt(c, k, s, at, m)
  PROVE  /\ \A p \in DOMAIN s : Lookup(c, k, s[p].id) = at + p
         /\ \A id \in 0 .. IdMax : (\A p \in DOMAIN s : s[p].id # id) => Lookup(c, k, id) = -1
<1> USE DEF CopiedAt
<1>1. /\ Len(s) \in Nat /\ DOMAIN s = 1 .. Len(s)
      /\ \A p \in DOMAIN s : s[p].id \in Nat
  <2>1. \A p \in DOMAIN s : s[p] \in Rows
    <3> HIDE DEF Rows
    <3> QED OBVIOUS
  <2> QED BY <2>1 DEF Rows
<1>2. CASE c.tab[k].idx = <<>>
  <2>1. ~(Len(s) > 0 /\ m <= IdxMax)
    <3> SUFFICES ASSUME Len(s) > 0 /\ m <= IdxMax PROVE FALSE
      OBVIOUS
    <3>1. DOMAIN c.tab[k].idx = 0 .. m
      BY DEF IndexOf
    <3>2. DOMAIN c.tab[k].idx = {}
      BY <1>2
    <3>3. 0 \in 0 .. m
      OBVIOUS
    <3> QED BY <3>1, <3>2, <3>3
  <2> DEFINE Hits(id) == {j \in at + 1 .. at + Len(s) : c.ent[j].id = id}
  <2>2. \A id : Lookup(c, k, id) =
          IF Hits(id) = {} THEN -1 ELSE CHOOSE j \in Hits(id) : \A i \in Hits(id) : j <= i
    BY <1>2 DEF Lookup
  <2>3. ASSUME NEW p \in DOMAIN s
        PROVE  Hits(s[p].id) = {at + p}
    <3>1. at + p \in Hits(s[p].id)
      BY <1>1
    <3>2. ASSUME NEW j \in Hits(s[p].id) PROVE j = at + p
      <4>1. j \in Int /\ j - at \in DOMAIN s /\ at + (j - at) = j
        BY <1>1
      <4>2. c.ent[j] = s[j - at]
        BY <4>1
      <4>3. j - at = p
        BY <4>1, <4>2
      <4> QED BY <1>1, <4>1, <4>3
    <3> HIDE DEF Hits
    <3> QED BY <3>1, <3>2
  <2>4. ASSUME NEW id, \A p \in DOMAIN s : s[p].id # id
        PROVE  Hits(id) = {}
    <3> SUFFICES ASSUME NEW j \in Hits(id) PROVE FALSE
      OBVIOUS
    <3>1. j - at \in DOMAIN s /\ at + (j - at) = j
      BY <1>1
    <3>2. c.ent[j] = s[j - at] /\ c.ent[j].id = id
      BY <3>1
    <3> QED BY <2>4, <3>1, <3>2
  <2> HIDE DEF Hits
  <2>5. ASSUME NEW p \in DOMAIN s
        PROVE  Lookup(c, k, s[p].id) = at + p
    <3>1. PICK H : H = Hits(s[p].id)
      OBVIOUS
    <3>2. at + p \in Int
      BY <1>1
    <3>4. H = {at + p}
      BY <2>3, <3>1, Zenon
    <3>3. (CHOOSE j \in H : \A i \in H : j <= i) = at + p
      BY <3>2, <3>4
    <3> QED BY <2>2, <3>1, <3>3, <3>4
  <2> QED BY <2>2, <2>4, <2>5
<1>3. CASE c.tab[k].idx # <<>>
  <2>1. PICK idx : idx = c.tab[k].idx
    OBVIOUS
  <2>2. idx = [id \in 0 .. m |-> IF \E j \in 1 .. Len(s) : c.ent[at + j].id = id
                                 THEN CHOOSE j \in 1 .. Len(s) : c.ent[at + j].id = id
                                 ELSE -1]
    BY <1>3, <2>1 DEF IndexOf
  <2>3. \A id : Lookup(c, k, id) = IF id > m \/ idx[id] < 0 THEN -1 ELSE at + idx[id]
    BY <1>3, <2>1 DEF Lookup
  <2>4. ASSUME NEW p \in DOMAIN s
        PROVE  Lookup(c, k, s[p].id) = at + p
    <3>1. PICK id : id = s[p].id
      OBVIOUS
    <3>2. id \in 0 .. m /\ ~(id > m) /\ p \in Nat
      BY <1>1, <3>1
    <3>3. \A j \in 1 .. Len(s) : c.ent[at + j].id = id <=> j = p
      BY <1>1, <3>1
    <3>4. (CHOOSE j \in 1 .. Len(s) : c.ent[at + j].id = id) = p
      BY <1>1, <3>3
    <3>5. idx[id] = p
      BY <1>1, <2>2, <3>2, <3>3, <3>4
    <3> QED BY <2>3, <3>1, <3>2, <3>5
  <2>5. ASSUME NEW id \in 0 .. IdMax, \A p \in DOMAIN s : s[p].id # id
        PROVE  Lookup(c, k, id) = -1
    <3>1. CASE id > m
      BY <2>3, <3>1
    <3>2. CASE ~(id > m)
      <4>1. id \in 0 .. m
        BY <3>2, LimitsAssumption
      <4>2. ~ \E j \in 1 .. Len(s) : c.ent[at + j].id = id
        BY <1>1, <2>5
      <4>3. idx[id] = -1
        BY <2>2, <4>1, <4>2
      <4> QED BY <2>3, <4>3
    <3> QED BY <3>1, <3>2
  <2> QED BY <2>4, <2>5
<1> QED BY <1>2, <1>3

-----------------------------------------------------------------------------
(* The whole copy.                                                         *)

(* No two rows of a table have one id.                                     *)
Unique == \A t \in Tables : \A p, q \in DOMAIN entries[t] :
            entries[t][p].id = entries[t][q].id => p = q

(* The largest id, or 0.                                                   *)
TopId(s) == LET ids == {r.id : r \in Range(s)} \cup {0}
            IN CHOOSE n \in ids : \A id \in ids : id <= n

LEMMA TopIdIs ==
  ASSUME NEW s \in Seq(Rows)
  PROVE  TopId(s) \in Nat /\ \A p \in DOMAIN s : s[p].id <= TopId(s)
<1>1. \A p \in DOMAIN s : s[p] \in Rows /\ s[p].id \in Nat
  <2>1. \A p \in DOMAIN s : s[p] \in Rows
    <3> HIDE DEF Rows
    <3> QED OBVIOUS
  <2> QED BY <2>1 DEF Rows
<1> DEFINE I == {s[p].id : p \in DOMAIN s}
           ids == {r.id : r \in Range(s)} \cup {0}
<1>2. ids = I \cup {0}
  BY DEF Range
<1>3. IsFiniteSet(I)
  <2> DEFINE f == [p \in DOMAIN s |-> s[p].id]
  <2>1. {f[p] : p \in DOMAIN f} = I
    OBVIOUS
  <2>2. IsFiniteSet(DOMAIN f)
    BY FS_Interval
  <2> HIDE DEF f
  <2> QED BY <2>1, <2>2, ValuesFinite
<1>4. ids \subseteq Nat /\ ids # {} /\ \A p \in DOMAIN s : s[p].id \in ids
  <2>1. I \subseteq Nat /\ \A p \in DOMAIN s : s[p].id \in I
    BY <1>1
  <2> HIDE DEF I, ids
  <2> QED BY <1>2, <2>1
<1>5. IsFiniteSet(ids)
  <2> HIDE DEF I, ids
  <2>1. IsFiniteSet({0})
    BY FS_Singleton
  <2> QED BY <1>2, <1>3, <2>1, FS_Union
<1>6. \E n \in ids : \A id \in ids : id <= n
  <2> HIDE DEF ids
  <2>1. ids \subseteq Int
    BY <1>4
  <2> QED BY <1>4, <1>5, <2>1, FiniteMax
<1>7. TopId(s) = CHOOSE n \in ids : \A id \in ids : id <= n
  BY DEF TopId
<1> HIDE DEF ids
<1>8. TopId(s) \in ids /\ \A id \in ids : id <= TopId(s)
  BY <1>6, <1>7
<1> QED BY <1>4, <1>8

(* Place j of a copy holds row r, with the child, the which slot and the   *)
(* reset plan of the row.                                                  *)
RowFound(c, j, r, which, plan) ==
  /\ j \in DOMAIN c.ent /\ c.ent[j] = r
  /\ r.kind = "sequence" => c.table[c.child[j]] = r.child
  /\ c.which[j] = which
  /\ which >= 0 =>
       /\ Cut(c.words, j) = plan["words"]
       /\ Cut(c.objects, j) = plan["objects"]
       /\ Cut(c.into, j) = plan["into"]

(* CompiledFaithful, row by row.                                           *)
TableFound(c, k, u) ==
  /\ \A p \in DOMAIN entries[u] :
       RowFound(c, Lookup(c, k, entries[u][p].id), entries[u][p], Which[u], PlansOf(u)[p])
  /\ \A id \in 0 .. IdMax :
       (\A p \in DOMAIN entries[u] : entries[u][p].id # id) => Lookup(c, k, id) = -1

Faithful(c, t) ==
  /\ Range(c.table) = Reachable(t)
  /\ \A k \in DOMAIN c.table : TableFound(c, k, c.table[k])

(* _Compiled.build copies the tree as it is.                               *)
LEMMA BuildFaithful ==
  ASSUME TypeOK, Claimed, Unique, NEW t \in Tables, NEW plan,
         \A u \in Reachable(t) : plan[u] = PlansOf(u)
  PROVE  Faithful(Build(t, plan), t) /\ Build(t, plan) # <<>>
<1> DEFINE order == SetToSeq(Reachable(t))
           ss == [k \in DOMAIN order |-> entries[order[k]]]
           rows == Slices(ss)
           os == [k \in DOMAIN order |->
                    [j \in DOMAIN entries[order[k]] |->
                       IF plan[order[k]] = <<>> THEN <<>> ELSE <<plan[order[k]][j]>>]]
           own == FlattenSeq(os)
           Index(k) == IndexOf(rows.flat, rows.at[k], rows.n[k], TopId(entries[order[k]]))
           c == Build(t, plan)
<1>1. /\ c.ent = rows.flat /\ c.table = order
      /\ c.child = [j \in DOMAIN rows.flat |->
                      IF rows.flat[j].kind # "sequence" THEN 0
                      ELSE CHOOSE k \in DOMAIN order : order[k] = rows.flat[j].child]
      /\ c.words = Slices([j \in DOMAIN own |-> ResetOf(own[j], "words")])
      /\ c.objects = Slices([j \in DOMAIN own |-> ResetOf(own[j], "objects")])
      /\ c.into = Slices([j \in DOMAIN own |-> ResetOf(own[j], "into")])
      /\ c.which = [j \in DOMAIN own |-> IF own[j] = <<>> THEN -1 ELSE own[j][1].which]
  BY Zenon DEF Build
<1>2. \A k \in DOMAIN order :
        /\ c.tab[k].first = rows.at[k] /\ c.tab[k].n = rows.n[k]
        /\ c.tab[k].max = TopId(entries[order[k]]) /\ c.tab[k].idx = Index(k)
  BY DEF Build, TopId, IndexOf
<1>3. c # <<>>
  <2>1. DOMAIN c # {}
    BY DEF Build
  <2> HIDE DEF c
  <2> QED BY <2>1
<1> HIDE DEF c
<1> USE DEF rows
<1>4. /\ Reachable(t) \subseteq Tables
      /\ \A v \in Reachable(t) : ChildrenOf(v) \subseteq Reachable(t)
  BY ReachableClosed
<1>5. /\ order \in Seq(Reachable(t)) /\ Range(order) = Reachable(t)
      /\ IsInjective(order)
  <2>1. IsFiniteSet(Reachable(t))
    BY <1>4, TablesAssumption, FS_Subset
  <2> QED BY <2>1, AsSeq
<1> HIDE DEF order
<1>6. /\ Len(order) \in Nat /\ DOMAIN order = 1 .. Len(order)
      /\ \A k \in 1 .. Len(order) : order[k] \in Reachable(t) /\ order[k] \in Tables
  BY <1>4, <1>5
<1>7. /\ ss \in Seq(Seq(Rows)) /\ Len(ss) = Len(order)
      /\ \A k \in 1 .. Len(order) : ss[k] = entries[order[k]] /\ ss[k] \in Seq(Rows)
  <2>1. \A u \in Tables : entries[u] \in Seq(Rows)
    BY DEF TypeOK
  <2>2. ss \in [1 .. Len(order) -> Seq(Rows)]
    <3> HIDE DEF Rows
    <3> QED BY <1>6, <2>1
  <2>3. \A k \in 1 .. Len(order) : ss[k] = entries[order[k]]
    BY <1>6
  <2> HIDE DEF ss, Rows
  <2> QED BY <1>6, <2>2, <2>3
<1>8. /\ os \in Seq(Seq(Planned)) /\ Len(os) = Len(order)
      /\ \A k \in 1 .. Len(order) :
           /\ Len(os[k]) = Len(ss[k])
           /\ \A j \in 1 .. Len(ss[k]) :
                os[k][j] = IF Which[order[k]] < 0 THEN <<>> ELSE <<PlansOf(order[k])[j]>>
  <2>1. ASSUME NEW k \in 1 .. Len(order)
        PROVE  /\ os[k] \in Seq(Planned) /\ Len(os[k]) = Len(ss[k])
               /\ \A j \in 1 .. Len(ss[k]) :
                    os[k][j] = IF Which[order[k]] < 0 THEN <<>> ELSE <<PlansOf(order[k])[j]>>
    <3>1. PICK u, s, o : u = order[k] /\ s = ss[k] /\ o = os[k]
      OBVIOUS
    <3>2. /\ u \in Tables /\ u \in Reachable(t) /\ plan[u] = PlansOf(u)
          /\ s = entries[u] /\ s \in Seq(Rows)
      BY <1>6, <1>7, <3>1
    <3>3. o = [j \in DOMAIN s |-> IF PlansOf(u) = <<>> THEN <<>> ELSE <<PlansOf(u)[j]>>]
      BY <1>6, <3>1, <3>2
    <3>4. Len(s) \in Nat /\ DOMAIN s = 1 .. Len(s)
      <4> HIDE DEF Rows
      <4> QED BY <3>2
    <3>5. \A j \in 1 .. Len(s) :
            /\ o[j] = IF Which[u] < 0 THEN <<>> ELSE <<PlansOf(u)[j]>>
            /\ o[j] \in Planned
      <4>1. CASE Which[u] < 0
        <5>1. PlansOf(u) = <<>>
          BY <3>2, <4>1, PlansAre
        <5> QED BY <3>3, <3>4, <4>1, <5>1 DEF Planned
      <4>2. CASE ~(Which[u] < 0)
        <5>1. Which[u] >= 0
          BY <3>2, <4>2, TablesAssumption
        <5>2. /\ DOMAIN PlansOf(u) = DOMAIN s
              /\ \A p \in DOMAIN s : PlansOf(u)[p] \in AllPlans
          BY <3>2, <5>1, PlansAre
        <5>3. \A j \in 1 .. Len(s) : PlansOf(u) # <<>>
          <6>1. DOMAIN <<>> = {}
            OBVIOUS
          <6> QED BY <3>4, <5>2, <6>1
        <5> QED BY <3>3, <3>4, <4>2, <5>2, <5>3 DEF Planned
      <4> QED BY <4>1, <4>2
    <3>6. o \in Seq(Planned) /\ Len(o) = Len(s)
      <4>1. o \in [1 .. Len(s) -> Planned]
        BY <3>3, <3>4, <3>5
      <4> QED BY <3>4, <4>1
    <3> QED BY <3>1, <3>5, <3>6
  <2>2. os \in [1 .. Len(order) -> Seq(Planned)]
    <3>1. DOMAIN os = 1 .. Len(order)
      BY <1>6
    <3>2. os = [k \in 1 .. Len(order) |-> os[k]]
      BY <1>6
    <3> HIDE DEF os
    <3> QED BY <2>1, <3>2
  <2> HIDE DEF os
  <2>3. os \in Seq(Seq(Planned)) /\ Len(os) = Len(order)
    BY <1>6, <2>2
  <2> QED BY <2>1, <2>3
<1>9. PICK flat : flat = FlattenSeq(ss)
  OBVIOUS
<1>10. /\ rows.flat = flat
       /\ \A k \in 1 .. Len(order) : rows.at[k] = Len(Upto(ss, k - 1)) /\ rows.n[k] = Len(ss[k])
  <2>1. DOMAIN ss = 1 .. Len(order)
    BY <1>6
  <2> QED BY <1>9, <2>1 DEF Slices, Upto
<1> HIDE DEF rows, ss, os
<1>11. /\ own \in Seq(Planned)
       /\ \A k \in 1 .. Len(order) :
            /\ Len(Upto(ss, k - 1)) \in Nat /\ Len(ss[k]) \in Nat /\ DOMAIN ss[k] = 1 .. Len(ss[k])
            /\ Len(Upto(os, k - 1)) = Len(Upto(ss, k - 1))
            /\ \A j \in 1 .. Len(ss[k]) :
                 /\ Len(Upto(ss, k - 1)) + j \in DOMAIN flat
                 /\ flat[Len(Upto(ss, k - 1)) + j] = ss[k][j]
                 /\ Len(Upto(ss, k - 1)) + j \in DOMAIN own
                 /\ own[Len(Upto(ss, k - 1)) + j] = os[k][j]
  <2>1. own \in Seq(Planned)
    <3>1. CASE Len(os) = 0
      BY <1>8, <3>1 DEF FlattenSeq
    <3>2. CASE Len(os) # 0
      <4>1. Len(os) \in 1 .. Len(os)
        BY <1>6, <1>8, <3>2
      <4> QED BY <1>8, <4>1, PlaceInFlat
    <3> QED BY <3>1, <3>2
  <2>2. ASSUME NEW k \in 1 .. Len(order)
        PROVE  /\ Len(Upto(ss, k - 1)) \in Nat /\ Len(ss[k]) \in Nat /\ DOMAIN ss[k] = 1 .. Len(ss[k])
               /\ Len(Upto(os, k - 1)) = Len(Upto(ss, k - 1))
               /\ \A j \in 1 .. Len(ss[k]) :
                    /\ Len(Upto(ss, k - 1)) + j \in DOMAIN flat
                    /\ flat[Len(Upto(ss, k - 1)) + j] = ss[k][j]
                    /\ Len(Upto(ss, k - 1)) + j \in DOMAIN own
                    /\ own[Len(Upto(ss, k - 1)) + j] = os[k][j]
    <3>1. k \in 1 .. Len(ss) /\ k \in 1 .. Len(os) /\ k - 1 \in 0 .. Len(ss)
      BY <1>6, <1>7, <1>8
    <3>2. /\ Len(Upto(ss, k - 1)) \in Nat /\ Len(ss[k]) \in Nat
          /\ Len(Upto(ss, k - 1)) + Len(ss[k]) <= Len(flat) /\ Len(flat) \in Nat
          /\ flat \in Seq(Rows)
          /\ \A j \in 1 .. Len(ss[k]) : flat[Len(Upto(ss, k - 1)) + j] = ss[k][j]
      <4> HIDE DEF Rows
      <4>1. ss \in Seq(Seq(Rows))
        BY <1>7
      <4>2. /\ Len(Upto(ss, k - 1)) \in Nat /\ Len(ss[k]) \in Nat
            /\ Len(Upto(ss, k - 1)) + Len(ss[k]) <= Len(FlattenSeq(ss))
            /\ FlattenSeq(ss) \in Seq(Rows) /\ Len(FlattenSeq(ss)) \in Nat
            /\ \A j \in 1 .. Len(ss[k]) : FlattenSeq(ss)[Len(Upto(ss, k - 1)) + j] = ss[k][j]
        BY <3>1, <4>1, PlaceInFlat, Zenon
      <4> QED BY <1>9, <4>2
    <3>3. Len(Upto(os, k - 1)) = Len(Upto(ss, k - 1))
      <4> HIDE DEF Rows
      <4>1. ss \in Seq(Seq(Rows)) /\ os \in Seq(Seq(Planned)) /\ Len(ss) = Len(os)
        BY <1>7, <1>8
      <4>2. \A i \in 1 .. Len(ss) : Len(ss[i]) = Len(os[i])
        BY <1>7, <1>8
      <4>3. \A i \in 0 .. Len(ss) : Len(Upto(ss, i)) = Len(Upto(os, i))
        BY <4>1, <4>2, SamePlaces, Zenon
      <4> QED BY <3>1, <4>3
    <3>4. /\ Len(Upto(os, k - 1)) + Len(os[k]) <= Len(own) /\ Len(own) \in Nat
          /\ \A j \in 1 .. Len(os[k]) : own[Len(Upto(os, k - 1)) + j] = os[k][j]
      <4> HIDE DEF own
      <4>1. own = FlattenSeq(os)
        BY DEF own
      <4> QED BY <1>8, <3>1, <4>1, PlaceInFlat
    <3>5. DOMAIN flat = 1 .. Len(flat) /\ DOMAIN own = 1 .. Len(own) /\ DOMAIN ss[k] = 1 .. Len(ss[k])
      <4> HIDE DEF Rows, own
      <4> QED BY <1>7, <2>1, <3>2
    <3>6. PICK a, n, m, o : a = Len(Upto(ss, k - 1)) /\ n = Len(ss[k]) /\ m = Len(flat) /\ o = Len(own)
      OBVIOUS
    <3>7. \A j \in 1 .. n : a + j \in 1 .. m /\ a + j \in 1 .. o
      <4>1. a \in Nat /\ n \in Nat /\ m \in Nat /\ o \in Nat /\ a + n <= m /\ a + n <= o
        BY <1>8, <3>2, <3>3, <3>4, <3>6
      <4> QED BY <4>1
    <3>8. Len(os[k]) = Len(ss[k])
      BY <1>8
    <3> HIDE DEF own
    <3> QED BY <3>2, <3>3, <3>4, <3>5, <3>6, <3>7, <3>8
  <2> QED BY <2>1, <2>2
<1> HIDE DEF own
<1>12. ASSUME NEW k \in 1 .. Len(order)
       PROVE  TableFound(c, k, order[k])
  <2>1. PICK u, s, at : u = order[k] /\ s = ss[k] /\ at = Len(Upto(ss, k - 1))
    OBVIOUS
  <2>2. /\ u \in Tables /\ u \in Reachable(t) /\ s = entries[u] /\ s \in Seq(Rows)
        /\ at \in Nat /\ Len(s) \in Nat /\ DOMAIN s = 1 .. Len(s)
        /\ \A j \in 1 .. Len(s) :
             /\ at + j \in DOMAIN flat /\ flat[at + j] = s[j]
             /\ at + j \in DOMAIN own
             /\ own[at + j] = IF Which[u] < 0 THEN <<>> ELSE <<PlansOf(u)[j]>>
    <3>1. /\ u \in Tables /\ u \in Reachable(t) /\ s = entries[u] /\ s \in Seq(Rows)
      BY <1>6, <1>7, <2>1
    <3>2. at \in Nat /\ Len(s) \in Nat /\ DOMAIN s = 1 .. Len(s)
      BY <1>11, <2>1
    <3>3. \A j \in 1 .. Len(s) :
            /\ at + j \in DOMAIN flat /\ flat[at + j] = s[j]
            /\ at + j \in DOMAIN own /\ own[at + j] = os[k][j]
      BY <1>11, <2>1
    <3>4. \A j \in 1 .. Len(s) : os[k][j] = IF Which[u] < 0 THEN <<>> ELSE <<PlansOf(u)[j]>>
      BY <1>8, <2>1
    <3> HIDE DEF Rows
    <3> QED BY <3>1, <3>2, <3>3, <3>4
  <2>3. /\ c.tab[k].first = at /\ c.tab[k].n = Len(s) /\ c.tab[k].max = TopId(s)
        /\ c.tab[k].idx = Index(k)
        /\ rows.at[k] = at /\ rows.n[k] = Len(s) /\ c.ent = flat /\ rows.flat = flat
    <3>1. k \in DOMAIN order /\ entries[order[k]] = s
      BY <1>6, <1>7, <2>1
    <3> HIDE DEF Index
    <3>2. /\ c.tab[k].first = rows.at[k] /\ c.tab[k].n = rows.n[k]
          /\ c.tab[k].max = TopId(s) /\ c.tab[k].idx = Index(k)
      BY <1>2, <3>1
    <3>3. rows.at[k] = at /\ rows.n[k] = Len(s) /\ rows.flat = flat
      BY <1>10, <2>1
    <3> QED BY <1>1, <3>2, <3>3
  <2>4. c.tab[k].idx = IndexOf(c.ent, at, Len(s), TopId(s))
    <3>1. entries[order[k]] = s
      BY <2>1, <2>2
    <3> QED BY <2>3, <3>1
  <2> HIDE DEF Index
  <2>5. TopId(s) \in Nat /\ \A p \in DOMAIN s : s[p].id <= TopId(s) /\ c.ent[at + p] = s[p]
    BY <2>2, <2>3, TopIdIs
  <2>6. \A p, q \in DOMAIN s : s[p].id = s[q].id => p = q
    BY <2>2 DEF Unique
  <2>7. /\ \A p \in DOMAIN s : Lookup(c, k, s[p].id) = at + p
        /\ \A id \in 0 .. IdMax : (\A p \in DOMAIN s : s[p].id # id) => Lookup(c, k, id) = -1
    <3>1. PICK m : m = TopId(s)
      OBVIOUS
    <3> HIDE DEF Rows
    <3>2. /\ m \in Nat /\ c.tab[k].first = at /\ c.tab[k].n = Len(s) /\ c.tab[k].max = m
          /\ \A p \in DOMAIN s : s[p].id <= m /\ c.ent[at + p] = s[p]
      BY <2>3, <2>5, <3>1
    <3>3. c.tab[k].idx = IndexOf(c.ent, at, Len(s), m)
      BY <2>4, <3>1
    <3>4. s \in Seq(Rows) /\ at \in Nat
      BY <2>2
    <3>5. CopiedAt(c, k, s, at, m)
      BY <2>6, <3>2, <3>3, <3>4 DEF CopiedAt
    <3> QED BY <3>5, LookupFinds
  <2>8. ASSUME NEW p \in DOMAIN s
        PROVE  RowFound(c, at + p, s[p], Which[u], PlansOf(u)[p])
    <3>1. at + p \in DOMAIN c.ent /\ c.ent[at + p] = s[p]
      BY <2>2, <2>3
    <3>2. ASSUME s[p].kind = "sequence"
          PROVE  c.table[c.child[at + p]] = s[p].child
      <4>1. c.child[at + p] = CHOOSE i \in DOMAIN order : order[i] = s[p].child
        <5>1. at + p \in DOMAIN rows.flat /\ rows.flat[at + p] = s[p]
          BY <2>2, <2>3
        <5> QED BY <1>1, <3>2, <5>1
      <4>2. s[p].child \in Reachable(t)
        <5>1. s[p].child \in ChildrenOf(u)
          BY <2>2, <3>2 DEF ChildrenOf, ChildrenIn
        <5> QED BY <1>4, <2>2, <5>1
      <4>3. \E i \in DOMAIN order : order[i] = s[p].child
        BY <1>5, <4>2 DEF Range
      <4> QED BY <1>1, <4>1, <4>3
    <3>3. c.which[at + p] = Which[u]
      <4>1. c.which[at + p] = IF own[at + p] = <<>> THEN -1 ELSE own[at + p][1].which
        BY <1>1, <2>2
      <4>2. CASE Which[u] < 0
        BY <2>2, <4>1, <4>2, TablesAssumption
      <4>3. CASE ~(Which[u] < 0)
        <5>1. own[at + p] = <<PlansOf(u)[p]>>
          BY <2>2, <4>3
        <5>2. own[at + p] # <<>> /\ own[at + p][1] = PlansOf(u)[p]
          BY <5>1
        <5>3. PlansOf(u)[p] = Plan(s[p], Which[u])
          <6>1. Which[u] \in Int /\ p \in DOMAIN entries[u]
            BY <2>2, TablesAssumption
          <6>2. Which[u] >= 0
            BY <4>3, <6>1
          <6>3. PlansOf(u)[p] = Plan(entries[u][p], Which[u])
            BY <2>2, <6>1, <6>2, PlansAre, Zenon
          <6> QED BY <2>2, <6>3
        <5>4. PlansOf(u)[p].which = Which[u]
          BY <5>3 DEF Plan
        <5> QED BY <4>1, <5>2, <5>4
      <4> QED BY <4>2, <4>3
    <3>4. ASSUME Which[u] >= 0
          PROVE  /\ Cut(c.words, at + p) = PlansOf(u)[p]["words"]
                 /\ Cut(c.objects, at + p) = PlansOf(u)[p]["objects"]
                 /\ Cut(c.into, at + p) = PlansOf(u)[p]["into"]
      <4>1. own[at + p] = <<PlansOf(u)[p]>>
        <5>1. Which[u] \in Int
          BY <2>2, TablesAssumption
        <5>2. ~(Which[u] < 0)
          BY <3>4, <5>1
        <5> QED BY <2>2, <5>2
      <4>2. own[at + p] # <<>> /\ own[at + p][1] = PlansOf(u)[p] /\ at + p \in DOMAIN own
        <5>1. at + p \in DOMAIN own
          BY <2>2
        <5>2. PICK x : x = PlansOf(u)[p]
          OBVIOUS
        <5>3. own[at + p] = <<x>>
          BY <4>1, <5>2
        <5>4. own[at + p] # <<>> /\ own[at + p][1] = x
          BY <5>3
        <5> QED BY <5>1, <5>2, <5>4
      <4>3. PICK j : j = at + p
        OBVIOUS
      <4>4. \A part \in {"words", "objects", "into"} :
              Cut(Slices([i \in DOMAIN own |-> ResetOf(own[i], part)]), j) = own[j][1][part]
        <5>1. j \in DOMAIN own /\ own[j] # <<>>
          BY <4>2, <4>3
        <5> QED BY <1>11, <5>1, PartsAre
      <4> QED BY <1>1, <4>2, <4>3, <4>4
    <3> QED BY <3>1, <3>2, <3>3, <3>4 DEF RowFound
  <2>9. TableFound(c, k, u)
    <3>1. s = entries[u]
      BY <2>2
    <3>2. \A p \in DOMAIN entries[u] :
            RowFound(c, Lookup(c, k, entries[u][p].id), entries[u][p], Which[u], PlansOf(u)[p])
      BY <2>7, <2>8, <3>1, Zenon
    <3> QED BY <2>7, <3>1, <3>2, Zenon DEF TableFound
  <2> QED BY <2>1, <2>9
<1>13. c.table = order /\ Range(order) = Reachable(t) /\ DOMAIN order = 1 .. Len(order)
  BY <1>1, <1>5, <1>6
<1>14. Faithful(c, t)
  BY <1>12, <1>13 DEF Faithful
<1> QED BY <1>3, <1>14 DEF c

-----------------------------------------------------------------------------
(* Its staying true.                                                       *)

(* What is to be kept of every copy there is.                              *)
CopiesFaithful == \A t \in Tables : compiled[t] # <<>> => Faithful(compiled[t], t)

(* A copy stays true while its tree stays as it is, which it does once it  *)
(* is frozen.                                                              *)
LEMMA FaithfulStays ==
  ASSUME NEW c, NEW t, Faithful(c, t), Reachable(t)' = Reachable(t),
         \A u \in Reachable(t) : entries'[u] = entries[u] /\ PlansOf(u)' = PlansOf(u)
  PROVE  Faithful(c, t)'
<1>1. ASSUME NEW k \in DOMAIN c.table
      PROVE  TableFound(c, k, c.table[k])'
  <2>1. PICK u : u = c.table[k]
    OBVIOUS
  <2>2. TableFound(c, k, u) /\ u \in Reachable(t)
    BY <2>1 DEF Faithful, Range
  <2>3. entries'[u] = entries[u] /\ PlansOf(u)' = PlansOf(u)
    BY <2>2
  <2>4. TableFound(c, k, u)'
    <3> HIDE DEF PlansOf
    <3> QED BY <2>2, <2>3 DEF TableFound
  <2> QED BY <2>1, <2>4
<1> QED BY <1>1 DEF Faithful

LEMMA CompiledIs ==
  ASSUME NEW t \in Tables, Use(t)
  PROVE  \/ compiled' = compiled
         \/ compiled' = [compiled EXCEPT ![t] = Build(t, PlansAfter(t))]
BY DEF Use, Freeze, AskSizes, BuildDecoder, BuildNative, derived

LEMMA CopiesKept ==
  ASSUME IInv, Unique, CopiesFaithful, [Next]_vars
  PROVE  Unique' /\ CopiesFaithful'
<1>1. CASE entries' = entries /\ compiled' = compiled
  <2>1. \A u : PlansOf(u)' = PlansOf(u) /\ Reachable(u)' = Reachable(u)
    <3>1. \A u : Reachable(u)' = Reachable(u)
      BY <1>1 DEF Reachable, ChildrenOf
    <3>2. T' = T
      BY <1>1 DEF T, TableOf
    <3> QED BY <1>1, <3>1, <3>2 DEF PlansOf, Plan
  <2>2. ASSUME NEW u \in Tables, compiled'[u] # <<>>
        PROVE  Faithful(compiled[u], u)'
    <3>1. PICK c : c = compiled[u]
      OBVIOUS
    <3>2. Faithful(c, u)
      BY <1>1, <2>2, <3>1 DEF CopiesFaithful
    <3>3. Faithful(c, u)'
      BY <1>1, <2>1, <3>2, FaithfulStays
    <3> QED BY <1>1, <3>1, <3>3
  <2> QED BY <1>1, <2>2 DEF Unique, CopiesFaithful
<1>2. CASE ~(entries' = entries /\ compiled' = compiled)
  <2>1. PICK t \in Tables : Bind(t) \/ Use(t)
    BY <1>2 DEF Next, vars, contents, derived
  <2>2. CASE Bind(t)
    <3>1. /\ UNCHANGED <<frozen, derived, decoders>>
          /\ \A u \in frozen : /\ entries'[u] = entries[u]
                               /\ needWords'[u] = needWords[u] /\ needObjects'[u] = needObjects[u]
      BY <2>2, BindStays
    <3>2. \A u \in frozen : PlansOf(u)' = PlansOf(u) /\ Reachable(u)' = Reachable(u)
      BY <3>1, FrozenStays DEF IInv
    <3>3. CopiesFaithful'
      <4>1. ASSUME NEW u \in Tables, compiled'[u] # <<>>
            PROVE  Faithful(compiled[u], u)'
        <5>1. PICK c : c = compiled[u]
          OBVIOUS
        <5>2. compiled' = compiled
          BY <3>1 DEF derived
        <5>3. Faithful(c, u) /\ u \in frozen
          BY <4>1, <5>1, <5>2 DEF CopiesFaithful, IInv, Kept
        <5>4. Reachable(u) \subseteq frozen
          BY <5>3, ReachableFrozen DEF IInv
        <5>5. Faithful(c, u)'
          BY <3>1, <3>2, <5>3, <5>4, FaithfulStays
        <5> QED BY <5>1, <5>2, <5>5
      <4> QED BY <4>1 DEF CopiesFaithful
    <3>4. Unique'
      <4>1. PICK kind, a : Callable(kind, a) /\ Add(t, kind, a)
        BY <2>2, BindIsAdd
      <4>2. CASE entries' = entries
        BY <4>2 DEF Unique
      <4>3. CASE entries' = [entries EXCEPT ![t] = Append(@, Entry(kind, a))]
        <5>1. PICK s, e : s = entries[t] /\ e = Entry(kind, a)
          OBVIOUS
        <5>2. s \in Seq(Rows) /\ DOMAIN entries = Tables
          BY <5>1 DEF IInv, TypeOK
        <5>3. e.id = a.id /\ \A p \in DOMAIN s : s[p].id # e.id
          BY <4>1, <5>1 DEF Add, InRange, Entry
        <5>4. /\ DOMAIN s = 1 .. Len(s) /\ Len(s) \in Nat
              /\ DOMAIN Append(s, e) = 1 .. Len(s) + 1
              /\ \A p \in 1 .. Len(s) + 1 : Append(s, e)[p] = IF p = Len(s) + 1 THEN e ELSE s[p]
          <6> HIDE DEF Rows
          <6> QED BY <5>2
        <5>5. \A p, q \in DOMAIN s : s[p].id = s[q].id => p = q
          BY <5>1 DEF Unique
        <5>6. \A p, q \in DOMAIN Append(s, e) : Append(s, e)[p].id = Append(s, e)[q].id => p = q
          BY <5>3, <5>4, <5>5
        <5>7. entries'[t] = Append(s, e) /\ \A u \in Tables \ {t} : entries'[u] = entries[u]
          BY <4>3, <5>1, <5>2
        <5> QED BY <5>6, <5>7 DEF Unique
      <4> QED BY <4>1, <4>2, <4>3 DEF Add
    <3> QED BY <3>3, <3>4
  <2>3. CASE Use(t)
    <3>1. entries' = entries
      BY <2>3, UseKeeps DEF contents
    <3>2. \A u : PlansOf(u)' = PlansOf(u) /\ Reachable(u)' = Reachable(u)
      <4>1. \A u : Reachable(u)' = Reachable(u)
        BY <3>1 DEF Reachable, ChildrenOf
      <4>2. T' = T
        BY <3>1 DEF T, TableOf
      <4> QED BY <3>1, <4>1, <4>2 DEF PlansOf, Plan
    <3>3. compiled' = [compiled EXCEPT ![t] = Build(t, PlansAfter(t))] /\ DOMAIN compiled = Tables
      BY <1>2, <2>3, <3>1, CompiledIs DEF IInv, TypeOK
    <3>4. Faithful(Build(t, PlansAfter(t)), t)
      <4>1. \A u \in Reachable(t) : PlansAfter(t)[u] = PlansOf(u)
        BY FreezeCloses DEF Frozen
      <4> QED BY <4>1, BuildFaithful DEF IInv
    <3>5. ASSUME NEW u \in Tables, compiled'[u] # <<>>
          PROVE  Faithful(compiled[u], u)'
      <4>1. PICK c : c = compiled'[u]
        OBVIOUS
      <4>2. Faithful(c, u)
        <5>1. CASE u = t
          BY <3>3, <3>4, <4>1, <5>1
        <5>2. CASE u # t
          BY <3>3, <3>5, <4>1, <5>2 DEF CopiesFaithful
        <5> QED BY <5>1, <5>2
      <4>3. Faithful(c, u)'
        BY <3>1, <3>2, <4>2, FaithfulStays
      <4> QED BY <4>1, <4>3
    <3> QED BY <3>1, <3>5 DEF Unique, CopiesFaithful
  <2> QED BY <2>1, <2>2, <2>3
<1> QED BY <1>1, <1>2

(* What CompiledFaithful asks under one id of table u, at place j.         *)
FoundUnder(c, id, u, j) ==
  IF id \notin DOMAIN ById(entries[u]) THEN j = -1
  ELSE /\ j \in DOMAIN c.ent /\ c.ent[j] = ById(entries[u])[id]
       /\ c.ent[j].kind = "sequence" => c.table[c.child[j]] = c.ent[j].child
       /\ c.which[j] = Which[u]
       /\ Which[u] >= 0 =>
            /\ Cut(c.words, j) = ResetWords(T, c.ent[j])
            /\ Cut(c.objects, j) = ResetObjects(T, c.ent[j])
            /\ Cut(c.into, j) = ResetInto(T, c.ent[j])

LEMMA CopiesFound == IInv /\ CopiesFaithful => CompiledFaithful
<1> SUFFICES ASSUME IInv, CopiesFaithful, NEW t \in Tables, compiled[t] # <<>>
             PROVE  /\ Range(compiled[t].table) = Reachable(t)
                    /\ \A k \in DOMAIN compiled[t].table, id \in 0 .. IdMax :
                         FoundUnder(compiled[t], id, compiled[t].table[k],
                                    Lookup(compiled[t], k, id))
  BY Zenon DEF CompiledFaithful, FoundUnder
<1> DEFINE c == compiled[t]
<1>1. Faithful(c, t) /\ Reachable(t) \subseteq Tables
  BY ReachableClosed DEF CopiesFaithful, IInv
<1>2. ASSUME NEW k \in DOMAIN c.table, NEW id \in 0 .. IdMax, NEW u, u = c.table[k],
             NEW j, j = Lookup(c, k, id)
      PROVE  FoundUnder(c, id, u, j)
  <2> HIDE DEF c
  <2>1. TableFound(c, k, u) /\ u \in Tables
    BY <1>1, <1>2 DEF Faithful, Range
  <2>2. DOMAIN ById(entries[u]) = {entries[u][p].id : p \in DOMAIN entries[u]}
    BY DEF ById
  <2>3. CASE id \notin DOMAIN ById(entries[u])
    <3>1. \A p \in DOMAIN entries[u] : entries[u][p].id # id
      BY <2>2, <2>3
    <3> QED BY <1>2, <2>1, <2>3, <3>1 DEF TableFound, FoundUnder
  <2>4. CASE id \in DOMAIN ById(entries[u])
    <3> DEFINE p == CHOOSE q \in DOMAIN entries[u] : entries[u][q].id = id
    <3>1. p \in DOMAIN entries[u] /\ entries[u][p].id = id
      BY <2>2, <2>4
    <3>2. ById(entries[u])[id] = entries[u][p]
      BY <2>2, <2>4 DEF ById
    <3> HIDE DEF p
    <3>3. RowFound(c, j, entries[u][p], Which[u], PlansOf(u)[p])
      BY <1>2, <2>1, <3>1 DEF TableFound
    <3>4. ASSUME Which[u] >= 0
          PROVE  /\ PlansOf(u)[p]["words"] = ResetWords(T, entries[u][p])
                 /\ PlansOf(u)[p]["objects"] = ResetObjects(T, entries[u][p])
                 /\ PlansOf(u)[p]["into"] = ResetInto(T, entries[u][p])
      <4>1. PlansOf(u)[p] = Plan(entries[u][p], Which[u])
        BY <2>1, <3>1, <3>4, PlansAre DEF IInv
      <4> QED BY <4>1 DEF Plan
    <3> QED BY <2>4, <3>2, <3>3, <3>4 DEF RowFound, FoundUnder
  <2> QED BY <2>3, <2>4
<1> QED BY <1>1, <1>2, Zenon DEF Faithful

(* _Compiled.build, _lookup: what the native engine finds is what the pure *)
(* engine finds, in every table of every tree that was compiled.           *)
THEOREM CopyIsFaithful == Spec => []CompiledFaithful
<1>1. Init => Unique /\ CopiesFaithful
  BY DEF Init, Unique, CopiesFaithful
<1>2. IInv /\ Unique /\ CopiesFaithful /\ [Next]_vars => (Unique /\ CopiesFaithful)'
  BY CopiesKept
<1> QED BY <1>1, <1>2, Invariant, CopiesFound, PTL DEF Spec
=============================================================================
