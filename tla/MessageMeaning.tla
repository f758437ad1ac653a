--------------------------- MODULE MessageMeaning ---------------------------
(***************************************************************************)
(* What a message means to one receiver, read off the whole message and    *)
(* never off a decoder's progress: which constructs are heard, and at      *)
(* which byte, if any, the decode ends with a verdict.  Constructs and     *)
(* bytes are those of PushDecoder.                                         *)
(***************************************************************************)
EXTENDS Integers, Sequences, FiniteSets

CONSTANTS Messages, Fields, Bytes, VarintMax, MaxDepth

Index(m) == 1 .. Len(Fields[m])

(* The positions of the bytes of construct c, of its header, of an item.   *)
Of(m, c)       == {i \in 1 .. Len(Bytes[m]) : Bytes[m][i].c = c}
OfItem(m, c, k) == {i \in Of(m, c) : Bytes[m][i].k = k}
Highest(S)     == CHOOSE i \in S : \A j \in S : j <= i
Lowest(S)      == CHOOSE i \in S : \A j \in S : i <= j
LastByte(m, c) == Highest(Of(m, c))
LastHeaderByte(m, c) == Highest(OfItem(m, c, 0))

(* How many sequences are open after the first c constructs.               *)
OpenAfter(m, c) ==
    Cardinality({d \in 1 .. c : Fields[m][d].kind = "start"})
  - Cardinality({d \in 1 .. c : Fields[m][d].kind = "end"})

(* Construct c lies in a sequence the handler declined (its end included). *)
Skipped(m, c) ==
  \E s \in 1 .. c - 1 :
    /\ Fields[m][s].kind = "start" /\ ~Fields[m][s].want
    /\ \A e \in s .. c - 1 : OpenAfter(m, e) > OpenAfter(m, s - 1)

IsValue(m, c) == Fields[m][c].kind \in {"scalar", "payload", "varints"}

(* Construct c reaches the handler: a value, or a sequence's begin or end. *)
Heard(m, c) ==
  /\ ~Skipped(m, c)
  /\ Fields[m][c].kind = "end" \/ Fields[m][c].want

(* The bytes at which construct c can earn a verdict.                      *)
BadHeader(m, c) ==
  LET f == Fields[m][c] IN
  \/ f.kind = "bad"
  \/ f.kind = "end" /\ OpenAfter(m, c - 1) = 0
  \/ f.kind = "start" /\ OpenAfter(m, c - 1) >= MaxDepth

OverlongBytes(m, c) ==
  {i \in Of(m, c) :
     /\ Fields[m][c].kind \in {"scalar", "varints"}
     /\ Bytes[m][i].k > 0
     /\ Cardinality({j \in OfItem(m, c, Bytes[m][i].k) : j <= i}) = VarintMax
     /\ Bytes[m][i].big}

ContraryBytes(m, c) ==
  {i \in Of(m, c) : IsValue(m, c) /\ Heard(m, c) /\ Bytes[m][i].bad}

RejectBytes(m, c) ==
  IF BadHeader(m, c) \/ (IsValue(m, c) /\ Heard(m, c) /\ Fields[m][c].over)
  THEN {LastHeaderByte(m, c)}
  ELSE OverlongBytes(m, c) \cup
       (IF Fields[m][c].kind = "payload" /\ ContraryBytes(m, c) # {}
        THEN {LastByte(m, c)} ELSE ContraryBytes(m, c))

(* The first construct the message is rejected at; 0 when it is not.       *)
Offender(m) ==
  LET bad == {c \in Index(m) : RejectBytes(m, c) # {}}
  IN  IF bad = {} THEN 0 ELSE Lowest(bad)

(* A receiver limit is the only verdict that is not INVALID.               *)
Verdict(m) ==
  LET c == Offender(m) IN
  IF ~BadHeader(m, c) /\ IsValue(m, c) /\ Heard(m, c) /\ Fields[m][c].over
  THEN "LIMIT" ELSE "INVALID"

Rejected(m, n) == Offender(m) # 0 /\ Lowest(RejectBytes(m, Offender(m))) <= n

(* The constructs heard by the time n bytes have arrived ...               *)
HeardBy(m, n) ==
  {c \in Index(m) : /\ Heard(m, c) /\ LastByte(m, c) <= n
                    /\ Offender(m) # 0 => c < Offender(m)}

(* ... and hearing them in order: s lists S, each member once, ascending.  *)
Listing(s, S) ==
  /\ {s[i] : i \in 1 .. Len(s)} = S
  /\ \A i, j \in 1 .. Len(s) : i < j => s[i] < s[j]

(* What the receiver may say after n bytes.                                *)
Outcome(m, n) ==
  IF Rejected(m, n) THEN Verdict(m)
  ELSE IF n = 0 \/ \E c \in Index(m) : LastByte(m, c) = n /\ OpenAfter(m, c) = 0
       THEN "COMPLETE" ELSE "INCOMPLETE"
=============================================================================
