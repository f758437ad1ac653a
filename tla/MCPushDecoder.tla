--------------------------- MODULE MCPushDecoder ---------------------------
(***************************************************************************)
(* The messages PushDecoder is checked over: every sequence of at most two *)
(* of the constructs below, at top level, inside a sequence the handler    *)
(* enters and inside one it declines, followed by one more scalar.         *)
(***************************************************************************)
EXTENDS PushDecoder

(* fault: <<item, what>>, <<0, "">> for none.                              *)
Spec1(kind, hdr, items, want, over, raises, fault) ==
  [f |-> [kind |-> kind, hdr |-> hdr, items |-> items,
          want |-> want, over |-> over, raises |-> raises],
   fault |-> fault]

Sound == <<0, "">>
Val(kind, items, want)  == Spec1(kind, 1, items, want, FALSE, FALSE, Sound)
Bad(kind, items, want, fault) == Spec1(kind, 1, items, want, FALSE, FALSE, fault)
Frame(kind, hdr, want)  == Spec1(kind, hdr, <<>>, want, FALSE, FALSE, Sound)

Taken == <<Val("scalar", <<2>>, TRUE), Val("payload", <<0>>, TRUE),
           Spec1("payload", 2, <<2>>, TRUE, FALSE, FALSE, Sound),
           Val("varints", <<>>, TRUE), Val("varints", <<2, 1>>, TRUE)>>
Passed == <<Val("scalar", <<2>>, FALSE), Val("payload", <<3>>, FALSE),
            Val("varints", <<2, 2>>, FALSE),
            Spec1("payload", 2, <<2>>, FALSE, TRUE, FALSE, Sound)>>
Faulty == <<Bad("scalar", <<2>>, FALSE, <<1, "overlong">>),
            Bad("scalar", <<1>>, TRUE, <<1, "contrary">>),
            Bad("payload", <<2>>, TRUE, <<1, "contrary">>),
            Bad("payload", <<2>>, FALSE, <<1, "contrary">>),
            Bad("varints", <<1, 2, 1>>, TRUE, <<2, "overlong">>),
            Bad("varints", <<1, 2, 1>>, FALSE, <<2, "overlong">>),
            Bad("varints", <<2, 1>>, TRUE, <<1, "contrary">>),
            Spec1("payload", 1, <<2>>, TRUE, TRUE, FALSE, Sound),
            Frame("bad", 2, FALSE)>>
Framing == <<Frame("start", 2, TRUE), Frame("start", 1, FALSE), Frame("end", 1, FALSE)>>
Raising == <<Spec1("scalar", 1, <<1>>, TRUE, FALSE, TRUE, Sound),
             Spec1("payload", 1, <<2>>, TRUE, FALSE, TRUE, Sound)>>

Trailer == Val("scalar", <<1>>, TRUE)
Nested(enter, m) == <<Frame("start", 1, enter)>> \o m \o <<Frame("end", 1, FALSE)>>

(* Message number i: two picks from the pool (0 picks nothing), and how    *)
(* they are framed.                                                        *)
Pick(pool, i) == IF i = 0 THEN <<>> ELSE <<pool[i]>>
Ids(pool) == 1 .. 3 * (Len(pool) + 1) * (Len(pool) + 1)
Message(pool, id) ==
  LET n == Len(pool) + 1
      m == Pick(pool, (id - 1) % n) \o Pick(pool, ((id - 1) \div n) % n)
      w == (id - 1) \div (n * n)
  IN (CASE w = 0 -> m [] w = 1 -> Nested(TRUE, m) [] w = 2 -> Nested(FALSE, m))
       \o <<Trailer>>

WholePool == Taken \o Passed \o Faulty \o Framing \o Raising
(* With an array whose tail a buffer of two bytes does not hold.           *)
ShortPool == Taken \o <<Val("varints", <<1, 2, 1>>, TRUE)>> \o Passed \o Raising
               \o <<Framing[2], Framing[3]>>

(* The encoding of one construct, and of a message.                        *)
ItemBytes(s, c, k) ==
  LET n == s.f.items[k]
      varint == s.f.kind # "payload"
      faulty(what) == s.fault = <<k, what>>
  IN [i \in 1 .. n |->
        [c |-> c, k |-> k, cont |-> varint /\ i < n,
         big |-> varint /\ (i < n \/ faulty("overlong")),
         bad |-> faulty("contrary") /\ i = n]]
HeaderBytes(s, c) ==
  [i \in 1 .. s.f.hdr |->
     [c |-> c, k |-> 0, cont |-> i < s.f.hdr, big |-> i < s.f.hdr, bad |-> FALSE]]
Concatenated(n, Part(_)) ==
  LET upto[i \in 0 .. n] == IF i = 0 THEN <<>> ELSE upto[i - 1] \o Part(i)
  IN  upto[n]
Encode(m) ==
  Concatenated(Len(m), LAMBDA c :
    HeaderBytes(m[c], c)
      \o Concatenated(Len(m[c].f.items), LAMBDA k : ItemBytes(m[c], c, k)))

(* Tuples, not functions: TLC evaluates a tuple once and for all.          *)
Tuple(f) == <<>> \o f
FieldsOf(pool) ==
  Tuple([i \in Ids(pool) |->
    Tuple([c \in 1 .. Len(Message(pool, i)) |-> Message(pool, i)[c].f])])
BytesOf(pool) == Tuple([i \in Ids(pool) |-> Tuple(Encode(Message(pool, i)))])

WholeFieldTable == FieldsOf(WholePool)
WholeByteTable  == BytesOf(WholePool)
ShortFieldTable == FieldsOf(ShortPool)
ShortByteTable  == BytesOf(ShortPool)

(* For the .cfg files.  TLC evaluates a definition substituted for a       *)
(* constant at each use, and one it finds in that definition only once.    *)
Resent      == 1 .. 3
WholeIds    == Ids(WholePool)
WholeFields == WholeFieldTable
WholeBytes  == WholeByteTable
ShortIds    == Ids(ShortPool)
ShortFields == ShortFieldTable
ShortBytes  == ShortByteTable
=============================================================================
