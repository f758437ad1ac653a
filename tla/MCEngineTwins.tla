---------------------------- MODULE MCEngineTwins ----------------------------
(* Bytes of two bits, so a word has 19 and the widths end where groups do. *)
EXTENDS EngineTwins

I(n) == [int |-> TRUE, n |-> n]
NoInt == [int |-> FALSE, n |-> 0]

Good == {I(1)}
MCIds == {I(1), I(-1), I(6), NoInt}

Unsigneds == {NoInt} \cup {I(n) : n \in {-1, 3, 15, 16, UnsignedMax, UnsignedMax + 1}}
Signeds   == {NoInt} \cup {I(n) : n \in {SignedMin - 1, SignedMin, -8, -9, 7, 8, SignedMax + 1}}
Groupwise == {I(n) : n \in {Base, Power[4], Power[8] - 1, Power[8], Power[9] - 1, Power[9]}}
Bounds    == {<<>>, <<I(-1)>>, <<I(1)>>, <<I(UnsignedMax + 5)>>, <<NoInt>>}

Scalar(k, width, ids, vs) ==
  {[op |-> "scalar", kind |-> k, width |-> width, id |-> id, v |-> v] : id \in ids, v \in vs}
Array(k, width, ids, es, bs) ==
  {[op |-> "array", kind |-> k, width |-> width, id |-> id, elems |-> e, bound |-> b] :
     id \in ids, e \in es, b \in bs}
Other(op, ids, payloads, oks, bs) ==
  {[op |-> op, id |-> id, payload |-> p, ok |-> ok, inRange |-> ok, bound |-> b, count |-> <<>>] :
     id \in ids, p \in payloads, ok \in oks, b \in bs}
Two == <<0, 1>>

MCCalls ==
  UNION {
    Scalar("unsigned", "narrow", Good, Unsigneds), Scalar("unsigned", "wide", MCIds, {I(16)}),
    Scalar("unsigned", "wide", Good, Groupwise \cup {I(UnsignedMax), I(UnsignedMax + 1)}),
    Scalar("signed", "narrow", Good, {I(-8), I(-9), I(8), NoInt}),
    Scalar("signed", "wide", Good, {I(n) : n \in {SignedMin - 1, SignedMin, SignedMax + 1}}),
    {[op |-> "bool", id |-> id, v |-> TRUE] : id \in {I(1), NoInt}},
    Array("unsigned", "narrow", Good, {<<I(3), I(16)>>, <<I(15), NoInt>>}, {<<I(1)>>, <<I(-1)>>}),
    Array("unsigned", "wide", {I(1), I(6)}, {<<I(16), I(UnsignedMax)>>}, {<<>>, <<I(1)>>, <<NoInt>>}),
    Array("signed", "wide", Good, {<<I(-9), NoInt>>, <<I(SignedMin)>>, <<>>}, {<<>>}),
    Array("signed", "wide", Good, {<<I(7)>>}, {<<I(SizeMax + 1)>>}),
    {[op |-> "bools", id |-> I(1), elems |-> <<TRUE, FALSE>>, bound |-> b] : b \in Bounds},
    {[op |-> "floats", id |-> I(1), elems |-> <<Two, Two>>, ok |-> TRUE, bound |-> b] : b \in Bounds},
    {[op |-> "floats", id |-> I(6), elems |-> <<>>, ok |-> ok, bound |-> <<>>] : ok \in BOOLEAN},
    Other("floatsBits", Good, {<<>>, <<0>>, <<0, 1, 2, 3>>}, {TRUE}, {<<>>}),
    {[op |-> "floatsBits", id |-> I(1), payload |-> Two, ok |-> ok, count |-> <<n>>] :
       ok \in BOOLEAN, n \in {2, -1}},
    Other("float", {I(1), NoInt}, {Two}, BOOLEAN, {<<>>}), Other("bits", Good, {Two}, BOOLEAN, {<<>>}),
    Other("text", Good, {<<0, 1>>}, {TRUE}, Bounds),
    Other("text", Good, {<<>>, <<0, 1, 2, 3>>}, BOOLEAN, {<<>>}),
    Other("blob", Good, {<<0, 1>>}, {TRUE}, Bounds),
    Other("blob", {I(6)}, {<<1>>, <<0, 1, 2, 3>>}, BOOLEAN, {<<I(-1)>>}),
    {[op |-> "begin", id |-> id] : id \in {I(1), I(2), I(6)}},
    {[op |-> "end", keep |-> k] : k \in BOOLEAN} }

MCCaps  == {-1, 0, 2}
(* The conditions of the theorems are met by these.                        *)
ASSUME ArgumentsConvert == CountsConvert /\ CapsConvert

MCRcaps == {[int |-> FALSE, n |-> 5], I(-1), I(0), I(2), I(1000), I(-1000)}

Float(d, eq) == [type |-> "float", eq |-> eq, sign |-> SignOf(d), bits |-> d]
Elems ==
  {Float("+0", Zeros), Float("-0", Zeros), Float("1.5", {"1.5"}), Float("2^60", {"2^60"}),
   Float("nan", {}), Float("snan", {}),
   [type |-> "int", eq |-> Zeros, sign |-> 1, bits |-> "+0"],
   [type |-> "long", eq |-> {}, sign |-> 1, bits |-> "2^60"],
   [type |-> "long", eq |-> {"2^60"}, sign |-> 1, bits |-> "2^60"],
   [type |-> "like", eq |-> Zeros \cup {"1.5"}, sign |-> 0, bits |-> ""],
   [type |-> "decimal", eq |-> Zeros, sign |-> -1, bits |-> "-0"]}
Seqs2(S) == {<<>>} \cup {<<x>> : x \in S} \cup {<<x, y>> : x \in S, y \in S}
MCArrays   == [elems : Seqs2(Elems), list : BOOLEAN]
MCDefaults == Seqs2({"+0", "-0", "1.5", "2^60", "nan"})
=============================================================================
