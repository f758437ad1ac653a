------------------------- MODULE PushDecoder_proofs -------------------------
(***************************************************************************)
(* Theorems about PushDecoder, for every message, reassembly buffer and    *)
(* cutting into chunks: the reassembly buffer keeps the stream in order    *)
(* (InOrder), the skip level survives every suspension (SkipLevel), every  *)
(* variable keeps its type, no field is made up of another's bytes, and    *)
(* the handler hears what was sent.  The inductive invariant is split by   *)
(* what the actions do to it: Buffered speaks of the bytes and is          *)
(* preserved by Advance, Retain, Reject and the feeds, whatever the        *)
(* construct; Framed speaks of where in the message the decoder stands.    *)
(* The second half follows the verdicts too: chunk invariance in full, and *)
(* the refinement of DecodePromise.                                        *)
(***************************************************************************)
EXTENDS PushDecoder, TLAPS, SequenceTheorems, FiniteSetTheorems, FunctionTheorems,
        WellFoundedInduction

(* The bytes: what TypeOK and InOrder say of them, strengthened by the     *)
(* shape of the buffer.  An append in place makes view and rbuf one        *)
(* array, which is why _retain may leave the tail where it lies.           *)
BytesTyped ==
  /\ fed \in Nat
  /\ rbuf \in [1 .. Reassembly -> Nat] /\ rstart \in Nat /\ rend \in Nat
  /\ view \in Seq(Nat) /\ pos \in Nat /\ keep \in Nat /\ inPlace \in BOOLEAN
  /\ lost \in BOOLEAN

Shaped ==
  /\ rstart <= rend /\ rend <= Reassembly
  /\ pos <= Len(view) /\ keep = pos
  /\ pc = "idle" => view = <<>> /\ pos = 0 /\ inPlace = FALSE
  /\ inPlace => Len(view) = rend /\ \A i \in 1 .. rend : view[i] = rbuf[i]

Buffered == BytesTyped /\ Shaped /\ InOrder

(* Where in the message the decoder stands.                                *)
FrameTyped ==
  /\ msg \in Messages /\ fed <= Len(wire)
  /\ pending \in Pending
  /\ depth \in Nat /\ skipDepth \in Nat \cup {-1}
  /\ resume \in {"none", "skip", "visit"}
  /\ events \in Seq(Event)

OutcomeTyped ==
  /\ status \in {"COMPLETE", "INCOMPLETE", "INVALID"} /\ limit \in BOOLEAN
  /\ pc \in {"idle", "walk", "skip", "value"}
  /\ ret \in {"none", "COMPLETE", "INCOMPLETE", "INVALID", "LIMIT",
              "RAISED", "REFUSED"}
  /\ broken \in BOOLEAN

(* What a suspension left to resume is taken up when the next feed begins; *)
(* only a payload still short of bytes waits on.  No feed runs after a     *)
(* verdict.                                                                *)
Resumed ==
  /\ pc # "idle" => status # "INVALID"
  /\ pc \in {"walk", "skip"} => resume = "none"
  /\ pc = "value" => resume # "skip"

Framed == FrameTyped /\ OutcomeTyped /\ SkipLevel /\ Resumed

IInv == Buffered /\ Framed

-----------------------------------------------------------------------------
(* Advance moves the cursor forward and touches nothing else.              *)
LEMMA AdvanceBuffered ==
  ASSUME Buffered, NEW p \in pos .. Len(view), Advance(p),
         pc # "idle", pc' # "idle"
  PROVE  Buffered'
<1>1. /\ pos' = p /\ keep' = p
      /\ UNCHANGED <<view, inPlace, rbuf, rstart, rend, fed, lost>>
  BY DEF Advance, buffer
<1>2. Len(view) \in Nat /\ p \in Nat
  BY LenProperties DEF Buffered, BytesTyped
<1>3. BytesTyped'
  BY <1>1, <1>2 DEF Buffered, BytesTyped
<1>4. Shaped'
  BY <1>1, <1>2 DEF Buffered, Shaped
<1>5. InOrder'
  BY <1>1, <1>2 DEF Buffered, BytesTyped, InOrder
<1> QED BY <1>3, <1>4, <1>5 DEF Buffered

(* When feed returns, only what is held matters.                           *)
LEMMA ReturnBuffered ==
  ASSUME CloseWindow, pc' = "idle", fed' \in Nat, lost' \in BOOLEAN,
         rbuf' \in [1 .. Reassembly -> Nat], rstart' \in Nat, rend' \in Nat,
         rstart' <= rend', rend' <= Reassembly,
         ~lost' => \A i \in rstart' + 1 .. rend' : rbuf'[i] = fed' - rend' + i
  PROVE  Buffered'
<1>1. view' = <<>> /\ pos' = 0 /\ keep' = 0 /\ inPlace' = FALSE
  BY DEF CloseWindow
<1>2. view' \in Seq(Nat) /\ Len(view') = 0
  BY <1>1, EmptySeq
<1>3. BytesTyped'
  BY <1>1, <1>2 DEF BytesTyped
<1>4. Shaped'
  BY <1>1, <1>2 DEF Shaped
<1>5. \A i \in pos' + 1 .. Len(view') : view'[i] = fed' - Len(view') + i
  BY <1>1, <1>2
<1>6. InOrder'
  BY <1>5 DEF InOrder
<1> QED BY <1>3, <1>4, <1>6 DEF Buffered

(* Reject empties the buffer.                                              *)
LEMMA RejectBuffered ==
  ASSUME Buffered, NEW verdict, Reject(verdict)
  PROVE  Buffered'
<1>1. /\ rstart' = 0 /\ rend' = 0 /\ CloseWindow /\ pc' = "idle"
      /\ UNCHANGED <<rbuf, fed, lost>>
  BY DEF Reject
<1>2. \A i \in rstart' + 1 .. rend' : rbuf'[i] = fed' - rend' + i
  BY <1>1
<1>3. /\ fed' \in Nat /\ lost' \in BOOLEAN /\ rbuf' \in [1 .. Reassembly -> Nat]
      /\ rstart' \in Nat /\ rend' \in Nat /\ rstart' <= rend' /\ rend' <= Reassembly
  BY <1>1, ReassemblyAssumption DEF Buffered, BytesTyped
<1> QED BY <1>1, <1>2, <1>3, ReturnBuffered

(* Retain carries the tail from p in order, or records that it was lost.   *)
LEMMA RetainBuffered ==
  ASSUME Buffered, NEW p \in pos .. Len(view), NEW r, Retain(p, r), fed' = fed
  PROVE  Buffered'
<1> DEFINE carry == Len(view) - p
<1>1. /\ Len(view) \in Nat /\ p \in Nat /\ pos \in Nat /\ p <= Len(view)
      /\ fed \in Nat /\ carry \in Nat
  BY LenProperties DEF Buffered, BytesTyped
<1>2. CloseWindow /\ pc' = "idle" /\ fed' \in Nat
  BY <1>1 DEF Retain
<1>3. ~lost => \A i \in p + 1 .. Len(view) : view[i] = fed - Len(view) + i
  BY <1>1 DEF Buffered, InOrder
<1>4. /\ rbuf \in [1 .. Reassembly -> Nat] /\ lost \in BOOLEAN
      /\ rstart \in Nat /\ rend \in Nat /\ rstart <= rend /\ rend <= Reassembly
  BY DEF Buffered, BytesTyped, Shaped
<1>5. CASE carry = 0
  <2>1. rstart' = 0 /\ rend' = 0 /\ UNCHANGED <<rbuf, lost>>
    BY <1>1, <1>5 DEF Retain
  <2>2. \A i \in rstart' + 1 .. rend' : rbuf'[i] = fed' - rend' + i
    BY <2>1
  <2>3. rstart' \in Nat /\ rend' \in Nat /\ rstart' <= rend' /\ rend' <= Reassembly
    BY <2>1, ReassemblyAssumption
  <2> QED BY <1>2, <1>4, <2>1, <2>2, <2>3, ReturnBuffered
<1>6. CASE carry > 0 /\ inPlace
  <2>1. rstart' = p /\ UNCHANGED <<rbuf, rend, lost>>
    BY <1>1, <1>6 DEF Retain
  <2>2. rend = Len(view) /\ \A i \in 1 .. rend : view[i] = rbuf[i]
    BY <1>6 DEF Buffered, Shaped
  <2>3. ~lost => \A i \in p + 1 .. rend : rbuf[i] = fed - rend + i
    BY <1>1, <1>3, <2>2
  <2>4. ~lost' => \A i \in rstart' + 1 .. rend' : rbuf'[i] = fed' - rend' + i
    BY <2>1, <2>3
  <2>5. rstart' \in Nat /\ rend' \in Nat /\ rstart' <= rend' /\ rend' <= Reassembly
    BY <1>1, <1>4, <2>1, <2>2
  <2> QED BY <1>2, <1>4, <2>1, <2>4, <2>5, ReturnBuffered
<1>7. CASE carry > Reassembly /\ ~inPlace
  <2>1. lost' = TRUE /\ UNCHANGED <<rbuf, rstart, rend>>
    BY <1>1, <1>7, ReassemblyAssumption DEF Retain, buffer
  <2> QED BY <1>2, <1>4, <2>1, ReturnBuffered
<1>8. CASE carry > 0 /\ carry <= Reassembly /\ ~inPlace
  <2>1. /\ rbuf' = [i \in 1 .. Reassembly |->
                      IF i <= carry THEN view[p + i] ELSE rbuf[i]]
        /\ rstart' = 0 /\ rend' = carry /\ UNCHANGED lost
    BY <1>1, <1>8, ReassemblyAssumption DEF Retain
  <2>2. \A i \in 1 .. carry : p + i \in 1 .. Len(view) /\ p + i \in p + 1 .. Len(view)
    BY <1>1
  <2>3. \A i \in 1 .. carry : view[p + i] \in Nat
    BY <2>2, ElementOfSeq DEF Buffered, BytesTyped
  <2>4. rbuf' \in [1 .. Reassembly -> Nat]
    <3> SUFFICES ASSUME NEW i \in 1 .. Reassembly
                 PROVE  (IF i <= carry THEN view[p + i] ELSE rbuf[i]) \in Nat
      BY <2>1
    <3>1. CASE i <= carry
      BY <1>1, <2>3, <3>1, ReassemblyAssumption
    <3>2. CASE ~(i <= carry)
      BY <1>4, <3>2
    <3> QED BY <3>1, <3>2
  <2>5. ~lost' => \A i \in rstart' + 1 .. rend' : rbuf'[i] = fed' - rend' + i
    <3> SUFFICES ASSUME ~lost', NEW i \in 1 .. carry
                 PROVE  rbuf'[i] = fed - carry + i
      BY <2>1
    <3>1. view[p + i] = fed - Len(view) + (p + i)
      BY <1>3, <2>1, <2>2
    <3>2. rbuf'[i] = view[p + i]
      BY <1>1, <1>8, <2>1, ReassemblyAssumption
    <3> QED BY <1>1, <3>1, <3>2
  <2>6. rstart' \in Nat /\ rend' \in Nat /\ rstart' <= rend' /\ rend' <= Reassembly
    BY <1>1, <1>8, <2>1
  <2> QED BY <1>2, <1>4, <2>1, <2>4, <2>5, <2>6, ReturnBuffered
<1> QED BY <1>1, <1>5, <1>6, <1>7, <1>8, ReassemblyAssumption

-----------------------------------------------------------------------------
(* The feeds.  What is held between feeds is in order.                     *)
LEMMA HeldInOrder ==
  ASSUME Buffered
  PROVE  /\ held \in Nat /\ rstart + held = rend
         /\ fed \in Nat /\ rstart \in Nat /\ rend \in Nat /\ rend <= Reassembly
         /\ rbuf \in [1 .. Reassembly -> Nat] /\ lost \in BOOLEAN
         /\ ~lost /\ pc = "idle" =>
              \A i \in 1 .. held : rbuf[rstart + i] = fed - held + i
<1>1. /\ fed \in Nat /\ rstart \in Nat /\ rend \in Nat /\ rstart <= rend
      /\ rend <= Reassembly /\ rbuf \in [1 .. Reassembly -> Nat] /\ lost \in BOOLEAN
  BY DEF Buffered, BytesTyped, Shaped
<1>2. held \in Nat /\ held = rend - rstart /\ rstart + held = rend
  BY <1>1 DEF held
<1>3. ASSUME ~lost, pc = "idle", NEW i \in 1 .. held
      PROVE  rbuf[rstart + i] = fed - held + i
  <2>1. \A j \in rstart + 1 .. rend : rbuf[j] = fed - rend + j
    BY <1>3 DEF Buffered, InOrder
  <2>2. rstart + i \in rstart + 1 .. rend
    BY <1>1, <1>2
  <2>3. rbuf[rstart + i] = fed - rend + (rstart + i)
    BY <2>1, <2>2
  <2> QED BY <1>1, <1>2, <2>3
<1> QED BY <1>1, <1>2, <1>3

(* The slide keeps it.                                                     *)
LEMMA SlideKeeps ==
  ASSUME Buffered, NEW n \in Nat
  PROVE  /\ Slid(n) \in [1 .. Reassembly -> Nat]
         /\ HeldFrom(n) \in Nat /\ HeldFrom(n) + held <= rend
         /\ \A i \in 1 .. held : Slid(n)[HeldFrom(n) + i] = rbuf[rstart + i]
<1>1. /\ held \in Nat /\ rstart + held = rend /\ rstart \in Nat /\ rend \in Nat
      /\ rend <= Reassembly /\ rbuf \in [1 .. Reassembly -> Nat]
  BY HeldInOrder
<1>2. CASE Slides(n)
  <2>1. /\ Slid(n) = [i \in 1 .. Reassembly |->
                        IF i <= held THEN rbuf[rstart + i] ELSE rbuf[i]]
        /\ HeldFrom(n) = 0
    BY <1>2 DEF Slid, HeldFrom
  <2>2. \A i \in 1 .. held : rstart + i \in 1 .. Reassembly /\ i \in 1 .. Reassembly
    BY <1>1, ReassemblyAssumption
  <2>3. Slid(n) \in [1 .. Reassembly -> Nat]
    <3> SUFFICES ASSUME NEW i \in 1 .. Reassembly
                 PROVE  (IF i <= held THEN rbuf[rstart + i] ELSE rbuf[i]) \in Nat
      BY <2>1
    <3> QED BY <1>1, <2>2, ReassemblyAssumption
  <2>4. \A i \in 1 .. held : Slid(n)[i] = rbuf[rstart + i]
    BY <1>1, <2>1, <2>2
  <2> QED BY <1>1, <2>1, <2>3, <2>4
<1>3. CASE ~Slides(n)
  <2>1. Slid(n) = rbuf /\ HeldFrom(n) = rstart
    BY <1>3 DEF Slid, HeldFrom
  <2> QED BY <1>1, <2>1
<1> QED BY <1>2, <1>3

LEMMA AdoptBuffered ==
  ASSUME Buffered, Framed, NEW n \in 0 .. MaxChunk, FeedAdopt(n)
  PROVE  Buffered'
<1>1. n \in Nat /\ fed \in Nat
  BY BoundsAssumption DEF Buffered, BytesTyped
<1>2. /\ view' = [i \in 1 .. n |-> fed + i] /\ pos' = 0 /\ keep' = 0
      /\ fed' = fed + n /\ rstart' = 0 /\ rend' = 0 /\ UNCHANGED <<rbuf, lost>>
      /\ inPlace' = FALSE
  BY DEF FeedAdopt, Enter, Chunk
<1>3. pc' # "idle"
  BY DEF FeedAdopt, Enter, Framed, FrameTyped
<1>4. view' \in Seq(Nat) /\ Len(view') = n
  <2>1. view' \in [1 .. n -> Nat]
    BY <1>1, <1>2
  <2>2. view' \in Seq(Nat) /\ DOMAIN view' = 1 .. n
    BY <1>1, <2>1, SeqDef
  <2> QED BY <1>1, <2>2, LenProperties
<1>5. BytesTyped'
  <2>1. lost' \in BOOLEAN /\ rbuf' \in [1 .. Reassembly -> Nat]
    BY <1>2, HeldInOrder
  <2>2. fed' \in Nat /\ rstart' \in Nat /\ rend' \in Nat /\ pos' \in Nat /\ keep' \in Nat
    BY <1>1, <1>2
  <2>3. inPlace' \in BOOLEAN
    BY <1>2
  <2> QED BY <1>4, <2>1, <2>2, <2>3 DEF BytesTyped
<1>6. Shaped'
  BY <1>1, <1>2, <1>3, <1>4, ReassemblyAssumption DEF Shaped
<1>7. \A i \in pos' + 1 .. Len(view') : view'[i] = fed' - Len(view') + i
  BY <1>1, <1>2, <1>4
<1> QED BY <1>3, <1>5, <1>6, <1>7 DEF Buffered, InOrder

LEMMA AppendBuffered ==
  ASSUME Buffered, Framed, NEW n \in 0 .. MaxChunk, FeedAppend(n)
  PROVE  Buffered'
<1> DEFINE h == HeldFrom(n)
           stop == h + held + n
<1>1. /\ n \in Nat /\ fed \in Nat /\ held \in Nat /\ h \in Nat /\ lost \in BOOLEAN
      /\ Slid(n) \in [1 .. Reassembly -> Nat]
  BY SlideKeeps, HeldInOrder, BoundsAssumption
<1>2. /\ fed' = fed + n /\ rstart' = h /\ rend' = stop /\ stop <= Reassembly
      /\ rbuf' = [i \in 1 .. Reassembly |->
                    IF i \in h + held + 1 .. stop THEN fed + (i - h - held)
                    ELSE Slid(n)[i]]
      /\ pos' = h /\ keep' = h /\ inPlace' = TRUE /\ lost' = lost
      /\ view' = SubSeq(rbuf', 1, stop) /\ pc = "idle"
  BY DEF FeedAppend, Enter, Feedable
<1>3. pc' # "idle"
  BY DEF FeedAppend, Enter, Framed, FrameTyped
<1>4. stop \in Nat /\ \A i \in 1 .. stop : i \in 1 .. Reassembly
  BY <1>1, <1>2, ReassemblyAssumption
<1>5. rbuf' \in [1 .. Reassembly -> Nat]
  <2> SUFFICES ASSUME NEW i \in 1 .. Reassembly
               PROVE  (IF i \in h + held + 1 .. stop THEN fed + (i - h - held)
                       ELSE Slid(n)[i]) \in Nat
    BY <1>2
  <2>1. CASE i \in h + held + 1 .. stop
    BY <1>1, <1>4, <2>1
  <2>2. CASE i \notin h + held + 1 .. stop
    BY <1>1, <2>2
  <2> QED BY <2>1, <2>2
<1>6. /\ view' \in Seq(Nat) /\ Len(view') = stop
      /\ \A i \in 1 .. stop : view'[i] = rbuf'[i]
  <2>1. \A i \in 1 .. stop : rbuf'[i] \in Nat
    BY <1>4, <1>5
  <2>2. /\ SubSeq(rbuf', 1, stop) \in Seq(Nat)
        /\ Len(SubSeq(rbuf', 1, stop)) = IF 1 <= stop THEN stop - 1 + 1 ELSE 0
        /\ \A i \in 1 .. stop - 1 + 1 : SubSeq(rbuf', 1, stop)[i] = rbuf'[1 + i - 1]
    BY <1>4, <2>1, SubSeqProperties
  <2>3. Len(view') = stop
    BY <1>2, <1>4, <2>2
  <2>4. \A i \in 1 .. stop : i \in 1 .. stop - 1 + 1 /\ 1 + i - 1 = i
    BY <1>4
  <2>5. \A i \in 1 .. stop : view'[i] = rbuf'[i]
    BY <1>2, <2>2, <2>4
  <2> QED BY <1>2, <2>2, <2>3, <2>5
<1>7. ~lost => \A i \in h + 1 .. stop : rbuf'[i] = fed' - stop + i
  <2> SUFFICES ASSUME ~lost, NEW i \in h + 1 .. stop
               PROVE  rbuf'[i] = fed' - stop + i
    OBVIOUS
  <2>1. i \in 1 .. stop /\ i \in 1 .. Reassembly /\ i \in Nat
    BY <1>1, <1>4
  <2>2. CASE i > h + held
    <3>1. rbuf'[i] = fed + (i - h - held)
      <4>1. i \in h + held + 1 .. stop
        BY <1>1, <1>4, <2>2
      <4> QED BY <1>2, <2>1, <4>1
    <3>2. fed + (i - h - held) = fed' - stop + i
      <4>1. \A a, b, c, d, e \in Int : a + (e - b - c) = (a + d) - (b + c + d) + e
        OBVIOUS
      <4>2. fed \in Int /\ held \in Int /\ i \in Int /\ n \in Int /\ h \in Int
        BY <1>1, <2>1
      <4>3. fed + (i - h - held) = (fed + n) - (h + held + n) + i
        BY <4>1, <4>2
      <4> QED BY <1>2, <4>3
    <3> QED BY <3>1, <3>2
  <2>3. CASE i <= h + held
    <3> DEFINE j == i - h
    <3>1. j \in 1 .. held /\ i = h + j
      BY <1>1, <1>4, <2>1, <2>3
    <3> HIDE DEF j
    <3>2. rbuf'[i] = Slid(n)[h + j]
      <4>1. i \notin h + held + 1 .. stop
        BY <1>1, <2>1, <2>3
      <4> QED BY <1>2, <2>1, <3>1, <4>1
    <3>3. Slid(n)[h + j] = rbuf[rstart + j]
      BY <1>1, <3>1, SlideKeeps
    <3>4. rbuf[rstart + j] = fed - held + j
      BY <1>2, <3>1, HeldInOrder
    <3>5. fed - held + j = fed' - stop + i
      <4>1. \A a, b, c, d, e \in Int : a - b + c = (a + d) - (e + b + d) + (e + c)
        OBVIOUS
      <4>2. fed \in Int /\ held \in Int /\ j \in Int /\ n \in Int /\ h \in Int
        BY <1>1, <3>1
      <4>3. fed - held + j = (fed + n) - (h + held + n) + (h + j)
        BY <4>1, <4>2
      <4> QED BY <1>2, <3>1, <4>3
    <3> QED BY <3>2, <3>3, <3>4, <3>5
  <2> QED BY <1>1, <2>1, <2>2, <2>3
<1>8. ~lost' => \A i \in pos' + 1 .. Len(view') : view'[i] = fed' - Len(view') + i
  <2> SUFFICES ASSUME ~lost, NEW i \in h + 1 .. stop
               PROVE  view'[i] = fed' - stop + i
    BY <1>2, <1>6
  <2>1. i \in 1 .. stop
    BY <1>1, <1>4
  <2> QED BY <1>6, <1>7, <2>1
<1>9. InOrder'
  BY <1>3, <1>8 DEF InOrder
<1>10. BytesTyped'
  <2>1. fed' \in Nat /\ rstart' \in Nat /\ rend' \in Nat /\ pos' \in Nat /\ keep' \in Nat
    BY <1>1, <1>2, <1>4
  <2>2. inPlace' \in BOOLEAN /\ lost' \in BOOLEAN
    BY <1>1, <1>2
  <2> QED BY <1>5, <1>6, <2>1, <2>2 DEF BytesTyped
<1>11. Shaped'
  BY <1>1, <1>2, <1>3, <1>4, <1>6 DEF Shaped
<1> QED BY <1>9, <1>10, <1>11 DEF Buffered

LEMMA RefuseBuffered ==
  ASSUME Buffered, Framed, NEW n \in 0 .. MaxChunk, FeedRefuse(n)
  PROVE  Buffered'
<1> DEFINE h == HeldFrom(n)
<1>1. /\ n \in Nat /\ fed \in Nat /\ held \in Nat /\ h \in Nat /\ lost \in BOOLEAN
      /\ rend \in Nat /\ h + held <= rend /\ rend <= Reassembly
      /\ Slid(n) \in [1 .. Reassembly -> Nat]
  BY SlideKeeps, HeldInOrder, BoundsAssumption
<1>2. /\ fed' = fed /\ rstart' = h /\ rend' = h + held /\ rbuf' = Slid(n)
      /\ UNCHANGED <<view, pos, keep, inPlace, pc, lost>> /\ pc = "idle"
  BY DEF FeedRefuse, Feedable, window
<1>3. view' = <<>> /\ pos' = 0 /\ keep' = 0 /\ inPlace' = FALSE /\ pc' = "idle"
  BY <1>2 DEF Buffered, Shaped
<1>4. ~lost => \A i \in h + 1 .. h + held : rbuf'[i] = fed - (h + held) + i
  <2> SUFFICES ASSUME ~lost, NEW i \in h + 1 .. h + held
               PROVE  rbuf'[i] = fed - (h + held) + i
    OBVIOUS
  <2> DEFINE j == i - h
  <2>1. j \in 1 .. held /\ i = h + j
    BY <1>1
  <2> HIDE DEF j
  <2>2. Slid(n)[h + j] = rbuf[rstart + j]
    BY <1>1, <2>1, SlideKeeps
  <2>3. rbuf[rstart + j] = fed - held + j
    BY <1>2, <2>1, HeldInOrder
  <2>4. fed - held + j = fed - (h + held) + i
    BY <1>1, <2>1
  <2> QED BY <1>2, <2>1, <2>2, <2>3, <2>4
<1>5. CloseWindow
  BY <1>3 DEF CloseWindow
<1>6. /\ rstart' \in Nat /\ rend' \in Nat /\ rstart' <= rend' /\ rend' <= Reassembly
      /\ fed' \in Nat /\ lost' \in BOOLEAN /\ rbuf' \in [1 .. Reassembly -> Nat]
  BY <1>1, <1>2, ReassemblyAssumption
<1>7. ~lost' => \A i \in rstart' + 1 .. rend' : rbuf'[i] = fed' - rend' + i
  BY <1>2, <1>4
<1> QED BY <1>3, <1>5, <1>6, <1>7, ReturnBuffered
-----------------------------------------------------------------------------
(* Every step keeps the bytes in order.                                    *)

LEMMA WalkBuffered ==
  ASSUME Buffered, Framed, Walk
  PROVE  Buffered'
<1>1. /\ Len(view) \in Nat /\ pos \in Nat /\ keep = pos /\ pos <= Len(view)
      /\ pos \in pos .. Len(view) /\ Len(view) \in pos .. Len(view)
  BY LenProperties DEF Buffered, BytesTyped, Shaped
<1>2. CASE StillShort
  BY <1>1, <1>2, RetainBuffered DEF StillShort, RunOut
<1>3. CASE SkipScalar
  <2>1. CASE Reject("INVALID")
    BY <2>1, RejectBuffered
  <2>2. ASSUME NEW q \in pos + 1 .. Len(view), Advance(q), UNCHANGED pc
        PROVE  Buffered'
    BY <1>1, <1>3, <2>2, AdvanceBuffered DEF SkipScalar, Walking
  <2>3. CASE Suspend /\ fed' = fed
    BY <1>1, <2>3, RetainBuffered DEF Suspend, RunOut
  <2> QED BY <1>3, <2>1, <2>2, <2>3 DEF SkipScalar
<1>4. CASE Discard
  BY <1>4 DEF Discard, buffer, window, Buffered, BytesTyped, Shaped, InOrder
<1>5. CASE DrainBytes
  <2>1. ASSUME pos + pending.bytes <= Len(view), pending.bytes > 0,
               Advance(pos + pending.bytes), UNCHANGED pc
        PROVE  Buffered'
    <3>1. pos + pending.bytes \in pos .. Len(view)
      BY <1>1, <2>1 DEF Framed, FrameTyped, Pending
    <3> QED BY <1>5, <2>1, <3>1, AdvanceBuffered DEF DrainBytes, Undrained, Walking
  <2>2. CASE RunOut(Len(view)) /\ fed' = fed
    BY <1>1, <2>2, RetainBuffered DEF RunOut
  <2> QED BY <1>5, <2>1, <2>2 DEF DrainBytes, Undrained
<1>6. CASE DrainVarints
  <2>1. CASE Reject("INVALID")
    BY <2>1, RejectBuffered
  <2>2. ASSUME NEW q \in pos .. Len(view), Advance(q), UNCHANGED pc
        PROVE  Buffered'
    BY <1>6, <2>2, AdvanceBuffered DEF DrainVarints, Walking
  <2>3. CASE RunOut(Len(view)) /\ fed' = fed
    BY <1>1, <2>3, RetainBuffered DEF RunOut
  <2> QED BY <1>6, <2>1, <2>2, <2>3 DEF DrainVarints
<1>7. CASE CleanEnd
  BY <1>1, <1>7, RetainBuffered DEF CleanEnd
<1>8. CASE HeaderShort
  BY <1>1, <1>8, RetainBuffered DEF HeaderShort, Suspend, RunOut
<1>9. CASE HeaderInvalid
  BY <1>9, RejectBuffered DEF HeaderInvalid
<1>10. ASSUME NEW q \in pos + 1 .. Len(view), NEW c, NEW kinds, Header(q, c, kinds),
              pc' # "idle"
       PROVE  Buffered'
  <2>1. q \in pos .. Len(view) /\ Advance(q) /\ pc # "idle"
    BY <1>1, <1>10 DEF Header, AtHeader, Walking
  <2> QED BY <1>10, <2>1, AdvanceBuffered
<1>11. CASE SequenceStart
  <2>1. PICK q \in pos + 1 .. Len(view), c \in 1 .. Len(Fields[msg]) :
          Header(q, c, {"start"}) /\ (pc' = "skip" \/ pc' = pc)
    BY <1>11 DEF SequenceStart
  <2>2. pc' # "idle"
    BY <2>1 DEF Header, AtHeader, Walking
  <2> QED BY <2>1, <2>2, <1>10
<1>12. CASE SequenceEnd
  <2>1. PICK q \in pos + 1 .. Len(view), c \in 1 .. Len(Fields[msg]) :
          Header(q, c, {"end"}) /\ (pc' = "walk" \/ pc' = pc)
    BY <1>12 DEF SequenceEnd
  <2>2. pc' # "idle"
    BY <2>1 DEF Header, AtHeader, Walking
  <2> QED BY <2>1, <2>2, <1>10
<1>13. CASE ValueHeader
  <2>1. PICK q \in pos + 1 .. Len(view), c \in 1 .. Len(Fields[msg]) :
          Header(q, c, Values) /\ (pc' = "value" \/ pc' = pc)
    BY <1>13 DEF ValueHeader
  <2>2. pc' # "idle"
    BY <2>1 DEF Header, AtHeader, Walking
  <2> QED BY <2>1, <2>2, <1>10
<1>14. CASE OverCap
  BY <1>14, RejectBuffered DEF OverCap
<1>15. CASE ValueInvalid
  BY <1>15, RejectBuffered DEF ValueInvalid
<1>16. CASE TakeValue
  <2>1. PICK q \in pos .. Len(view) :
          \/ Advance(q) /\ pc' = "walk"
          \/ Retain(q, "RAISED") /\ fed' = fed
    BY <1>16 DEF TakeValue
  <2>2. pc # "idle"
    BY <1>16 DEF TakeValue, Reading
  <2> QED BY <2>1, <2>2, AdvanceBuffered, RetainBuffered
<1>17. CASE ValueShort
  BY <1>1, <1>17, RetainBuffered DEF ValueShort, Suspend, RunOut
<1> QED BY <1>2, <1>3, <1>4, <1>5, <1>6, <1>7, <1>8, <1>9, <1>11, <1>12, <1>13,
           <1>14, <1>15, <1>16, <1>17 DEF Walk

LEMMA ResetBuffered ==
  ASSUME Buffered, Reset
  PROVE  Buffered'
<1>1. /\ rbuf' = [i \in 1 .. Reassembly |-> 0] /\ rstart' = 0 /\ rend' = 0
      /\ fed' = 0 /\ lost' = FALSE
      /\ UNCHANGED <<view, pos, keep, inPlace, pc>> /\ pc = "idle"
  BY DEF Reset, window
<1>2. CloseWindow /\ pc' = "idle"
  BY <1>1 DEF CloseWindow, Buffered, Shaped
<1>3. \A i \in rstart' + 1 .. rend' : rbuf'[i] = fed' - rend' + i
  BY <1>1
<1>4. /\ rstart' \in Nat /\ rend' \in Nat /\ rstart' <= rend' /\ rend' <= Reassembly
      /\ fed' \in Nat /\ rbuf' \in [1 .. Reassembly -> Nat]
  BY <1>1, ReassemblyAssumption
<1> QED BY <1>1, <1>2, <1>3, <1>4, ReturnBuffered

LEMMA NextBuffered ==
  ASSUME Buffered, Framed, [Next]_vars
  PROVE  Buffered'
<1>1. CASE Feed
  BY <1>1, AdoptBuffered, AppendBuffered, RefuseBuffered DEF Feed
<1>2. CASE Walk
  BY <1>2, WalkBuffered
<1>3. CASE Reset
  BY <1>3, ResetBuffered
<1>4. CASE UNCHANGED vars
  <2>1. UNCHANGED <<fed, rbuf, rstart, rend, view, pos, keep, inPlace, pc, lost>>
    BY <1>4 DEF vars, buffer, window
  <2>2. BytesTyped'
    BY <2>1 DEF Buffered, BytesTyped
  <2>3. Shaped'
    BY <2>1 DEF Buffered, Shaped
  <2>4. InOrder'
    BY <2>1 DEF Buffered, InOrder
  <2> QED BY <2>2, <2>3, <2>4 DEF Buffered
<1> QED BY <1>1, <1>2, <1>3, <1>4 DEF Next
-----------------------------------------------------------------------------
(* Every step keeps the decoder's place in the message consistent.         *)

LEMMA FieldTyped ==
  ASSUME Framed, NEW c \in 1 .. Len(Fields[msg])
  PROVE  /\ field(c) \in Construct /\ c \in Nat
         /\ field(c).kind = "payload" => Len(field(c).items) = 1
<1>1. Fields[msg] \in Seq(Construct)
  BY MessagesAssumption DEF Framed, FrameTyped
<1>2. Fields[msg][c] \in Construct /\ c \in Nat
  BY <1>1, ElementOfSeq, LenProperties
<1>3. Fields[msg][c].kind = "payload" => Len(Fields[msg][c].items) = 1
  BY MessagesAssumption DEF Framed, FrameTyped
<1> QED BY <1>2, <1>3 DEF field

LEMMA ParkTyped ==
  ASSUME Framed, NEW c \in 1 .. Len(Fields[msg]), field(c).kind \in Values
  PROVE  Park(c) \in Pending /\ Park(c).tag \in Values
<1>1. /\ field(c).kind \in Values /\ field(c).over \in BOOLEAN /\ c \in Nat
      /\ field(c).items \in Seq(Nat)
      /\ field(c).kind = "payload" => Len(field(c).items) = 1
  BY FieldTyped DEF Construct
<1>2. Len(field(c).items) \in Nat
  BY <1>1, LenProperties
<1>3. field(c).kind = "payload" => field(c).items[1] \in Nat
  BY <1>1, ElementOfSeq
<1> QED BY <1>1, <1>2, <1>3 DEF Park, Pending, Values

LEMMA HeardTyped ==
  ASSUME Framed, NEW c \in Nat, NEW what \in {"open", "close", "value"},
         NEW bytes \in Seq(Nat), Heard(c, what, bytes)
  PROVE  events' \in Seq(Event)
<1>1. [c |-> c, what |-> what, bytes |-> bytes] \in Event
  BY DEF Event
<1>2. events \in Seq(Event)
  BY DEF Framed, FrameTyped
<1> QED BY <1>1, <1>2 DEF Heard

LEMMA FiniteEnds ==
  ASSUME Buffered
  PROVE  /\ Cardinality(Ends(pos)) \in Nat
         /\ Cardinality({r \in pos + 1 .. Len(view) : \A e \in Ends(pos) : e < r}) \in Nat
<1>1. IsFiniteSet(pos + 1 .. Len(view))
  BY FS_Interval, LenProperties DEF Buffered, BytesTyped
<1>2. IsFiniteSet(Ends(pos))
  BY <1>1, FS_Subset DEF Ends
<1>3. IsFiniteSet({r \in pos + 1 .. Len(view) : \A e \in Ends(pos) : e < r})
  BY <1>1, FS_Subset
<1> QED BY <1>2, <1>3, FS_CardinalityType

(* A feed that ends in Retain: resume says what to take up next.           *)
LEMMA SuspendFramed ==
  ASSUME Framed, pc # "idle", status # "INVALID",
         NEW p, NEW r \in {"COMPLETE", "INCOMPLETE", "RAISED"}, Retain(p, r),
         UNCHANGED <<msg, fed, depth, skipDepth, limit>>,
         pending' \in Pending, events' \in Seq(Event), broken' \in BOOLEAN,
         status' \in {"COMPLETE", "INCOMPLETE"},
         \/ pc = "skip" /\ resume' = "skip"
         \/ pc # "skip" /\ resume' = "none"
         \/ pc = "value" /\ resume' = "visit" /\ pending'.tag \in Values
  PROVE  Framed'
<1>1. pc' = "idle" /\ ret' \in {r, "REFUSED"}
  BY DEF Retain
<1>2. FrameTyped'
  BY DEF Framed, FrameTyped, wire
<1>3. OutcomeTyped'
  BY <1>1 DEF Framed, OutcomeTyped
<1>4. SkipLevel'
  BY <1>1 DEF Framed, FrameTyped, OutcomeTyped, SkipLevel, Skipping, Resumed
<1>5. Resumed'
  BY <1>1 DEF Resumed
<1> QED BY <1>2, <1>3, <1>4, <1>5 DEF Framed

LEMMA RejectFramed ==
  ASSUME Framed, NEW verdict, Reject(verdict),
         verdict \in {"INVALID", "LIMIT"}, verdict = "LIMIT" => pc = "value"
  PROVE  Framed'
<1>1. /\ pc' = "idle" /\ ret' = verdict
      /\ UNCHANGED <<msg, fed, pending, depth, skipDepth, resume, events, broken>>
  BY DEF Reject, framing
<1>2. FrameTyped'
  BY <1>1 DEF Framed, FrameTyped, wire
<1>3. OutcomeTyped'
  BY <1>1 DEF Framed, OutcomeTyped, Reject
<1>4. SkipLevel'
  BY <1>1 DEF Framed, FrameTyped, SkipLevel, Skipping, Resumed, Reject
<1>5. Resumed'
  BY <1>1 DEF Resumed
<1> QED BY <1>2, <1>3, <1>4, <1>5 DEF Framed

LEMMA InvalidFramed ==
  ASSUME Framed, Reject("INVALID")
  PROVE  Framed'
<1>1. "INVALID" \in {"INVALID", "LIMIT"} /\ ("INVALID" = "LIMIT" => pc = "value")
  OBVIOUS
<1> QED BY <1>1, RejectFramed

(* The walk goes on: it is skipping exactly when the level says so.        *)
LEMMA AdvanceFramed ==
  ASSUME Framed, NEW p, Advance(p), pc # "idle",
         UNCHANGED resume, resume = "none",
         pending' \in Pending, events' \in Seq(Event),
         depth' \in 0 .. MaxDepth, skipDepth' \in Nat \cup {-1}, skipDepth' < depth',
         pc' \in {"walk", "skip", "value"},
         status # "INVALID" => (pc' = "skip" <=> skipDepth' >= 0),
         pc' = "value" => pending'.tag \in Values /\ skipDepth' = -1
  PROVE  Framed'
<1>1. UNCHANGED <<msg, fed, status, limit, ret, broken>>
  BY DEF Advance, outcome
<1>2. FrameTyped'
  BY <1>1 DEF Framed, FrameTyped, wire
<1>3. OutcomeTyped'
  BY <1>1 DEF Framed, OutcomeTyped
<1>4. SkipLevel'
  BY <1>1, BoundsAssumption DEF SkipLevel, Skipping
<1>5. Resumed'
  BY <1>1 DEF Framed, Resumed
<1> QED BY <1>2, <1>3, <1>4, <1>5 DEF Framed

LEMMA EnterFramed ==
  ASSUME Framed, NEW v, Enter(v), Feedable, fed' <= Len(wire)
  PROVE  Framed'
<1>1. /\ UNCHANGED <<msg, pending, depth, skipDepth, status, limit, events>>
      /\ ret' = "none" /\ broken' = FALSE
  BY DEF Enter
<1>2. /\ resume = "none" => pc' = "walk"
      /\ resume = "skip" => pc' = "skip"
      /\ resume = "visit" => pc' = "value"
  <2>1. pc' = CASE resume = "none"  -> "walk"
                [] resume = "skip"  -> "skip"
                [] resume = "visit" -> "value"
    BY Zenon DEF Enter
  <2> QED BY <2>1
<1>3. resume' = "none" \/ (resume = "visit" /\ resume' = "visit")
  BY DEF Enter
<1>4. FrameTyped'
  BY <1>1, <1>3 DEF Framed, FrameTyped, wire
<1>5. OutcomeTyped'
  BY <1>1, <1>2 DEF Framed, FrameTyped, OutcomeTyped
<1>6. SkipLevel'
  BY <1>1, <1>2, <1>3 DEF Framed, FrameTyped, SkipLevel, Skipping, Feedable
<1>7. Resumed'
  BY <1>1, <1>2, <1>3 DEF Feedable, Framed, FrameTyped, Resumed
<1> QED BY <1>4, <1>5, <1>6, <1>7 DEF Framed

LEMMA FeedFramed ==
  ASSUME Buffered, Framed, Feed
  PROVE  Framed'
<1>1. PICK n \in 0 .. MaxChunk : FeedAdopt(n) \/ FeedAppend(n) \/ FeedRefuse(n)
  BY DEF Feed
<1>2. CASE FeedAdopt(n)
  BY <1>2, EnterFramed DEF FeedAdopt
<1>3. CASE FeedAppend(n)
  BY <1>3, EnterFramed DEF FeedAppend
<1>4. CASE FeedRefuse(n)
  <2>1. /\ UNCHANGED <<msg, fed, pending, depth, skipDepth, resume, status, limit,
                       pc, events, broken>>
        /\ ret' = "REFUSED"
    BY <1>4 DEF FeedRefuse, framing
  <2>2. FrameTyped'
    BY <2>1 DEF Framed, FrameTyped, wire
  <2>3. OutcomeTyped'
    BY <2>1 DEF Framed, OutcomeTyped
  <2>4. SkipLevel' /\ Resumed'
    BY <2>1 DEF Framed, SkipLevel, Skipping, Resumed
  <2> QED BY <2>2, <2>3, <2>4 DEF Framed
<1> QED BY <1>1, <1>2, <1>3, <1>4

LEMMA ResetFramed ==
  ASSUME Framed, Reset
  PROVE  Framed'
<1>1. /\ msg' \in Messages /\ fed' = 0 /\ pending' = NoPending
      /\ depth' = 0 /\ skipDepth' = -1 /\ resume' = "none"
      /\ status' = "COMPLETE" /\ limit' = FALSE /\ ret' = "none" /\ broken' = FALSE
      /\ events' = <<>> /\ pc' = "idle"
  BY MessagesAssumption DEF Reset
<1>2. NoPending \in Pending
  BY DEF NoPending, Pending
<1>3. fed' <= Len(wire') /\ Len(wire') \in Nat
  BY <1>1, MessagesAssumption, LenProperties DEF wire
<1>4. FrameTyped'
  BY <1>1, <1>2, <1>3, EmptySeq DEF FrameTyped
<1>5. OutcomeTyped'
  BY <1>1 DEF OutcomeTyped
<1>6. SkipLevel' /\ Resumed'
  BY <1>1, BoundsAssumption DEF SkipLevel, Skipping, Resumed
<1> QED BY <1>4, <1>5, <1>6 DEF Framed

(* What the steps of a running feed may take for granted.                  *)
LEMMA Running ==
  ASSUME Framed, pc # "idle"
  PROVE  /\ pending \in Pending /\ events \in Seq(Event) /\ NoPending \in Pending
         /\ depth \in 0 .. MaxDepth /\ skipDepth \in Nat \cup {-1} /\ skipDepth < depth
         /\ pc \in {"walk", "skip", "value"}
         /\ status # "INVALID" /\ (pc = "skip" <=> skipDepth >= 0)
         /\ Walking => resume = "none"
         /\ pc = "value" => pending.tag \in Values /\ skipDepth = -1
         /\ status \in {"COMPLETE", "INCOMPLETE"} /\ broken \in BOOLEAN
<1>1. NoPending \in Pending
  BY DEF NoPending, Pending
<1>2. depth \in 0 .. MaxDepth
  BY BoundsAssumption DEF Framed, FrameTyped, SkipLevel
<1> QED BY <1>1, <1>2 DEF Framed, FrameTyped, OutcomeTyped, SkipLevel, Skipping, Resumed,
                       Walking

LEMMA WalkFramed ==
  ASSUME Buffered, Framed, Walk
  PROVE  Framed'
<1>1. /\ Len(view) \in Nat /\ pos \in Nat /\ pos <= Len(view) /\ view \in Seq(Nat)
  BY LenProperties DEF Buffered, BytesTyped, Shaped
<1> DEFINE Short(p) ==
      Retain(p, "INCOMPLETE") /\ status' = "INCOMPLETE" /\ UNCHANGED <<limit, broken>>
<1>2. ASSUME Walking, NEW p, Short(p), SkipInFlight,
             UNCHANGED <<msg, fed, depth, skipDepth, events>>, pending' \in Pending
      PROVE  Framed'
  <2>1. pc # "idle" /\ pc # "value"
    BY <1>2 DEF Walking
  <2>2. \/ pc = "skip" /\ resume' = "skip"
        \/ pc # "skip" /\ resume' = "none"
    BY <1>2 DEF SkipInFlight
  <2>3. UNCHANGED <<msg, fed, depth, skipDepth, limit>> /\ status' \in {"COMPLETE", "INCOMPLETE"}
    BY <1>2
  <2>4. events' \in Seq(Event) /\ broken' \in BOOLEAN /\ status # "INVALID"
    BY <1>2, <2>1, Running
  <2> QED BY <1>2, <2>1, <2>2, <2>3, <2>4, SuspendFramed
<1>3. ASSUME Walking, NEW p, Advance(p), pending' \in Pending,
             UNCHANGED <<depth, skipDepth, resume, pc, events>>
      PROVE  Framed'
  <2>1. pc # "idle" /\ pc' # "value"
    BY <1>3 DEF Walking
  <2> QED BY <1>3, <2>1, Running, AdvanceFramed
<1>4. CASE StillShort
  <2>1. /\ pc = "value" /\ resume = "visit" /\ Retain(pos, "INCOMPLETE")
        /\ status' = "INCOMPLETE" /\ resume' = "visit"
        /\ UNCHANGED <<msg, fed, pending, depth, skipDepth, limit, broken, events>>
    BY <1>4 DEF StillShort, RunOut, framing
  <2>2. /\ pending' \in Pending /\ pending'.tag \in Values /\ events' \in Seq(Event)
        /\ broken' \in BOOLEAN /\ status # "INVALID"
    BY <2>1, Running
  <2> QED BY <2>1, <2>2, SuspendFramed
<1>5. CASE SkipScalar
  <2>1. Walking /\ NoPending \in Pending /\ pending \in Pending
    BY <1>5, Running DEF SkipScalar, Walking
  <2>2. CASE Reject("INVALID")
    BY <2>2, InvalidFramed
  <2>3. ASSUME NEW q, Advance(q), pending' = NoPending,
               UNCHANGED <<depth, skipDepth, resume, pc, events>>
        PROVE  Framed'
    BY <1>3, <2>1, <2>3
  <2>4. CASE Suspend /\ SkipInFlight /\ UNCHANGED <<msg, fed, pending, depth, skipDepth, events>>
    BY <1>2, <2>1, <2>4 DEF Suspend, RunOut
  <2> QED BY <1>5, <2>2, <2>3, <2>4 DEF SkipScalar
<1>6. CASE Discard
  <2>1. /\ Walking /\ pending' = [pending EXCEPT !.tag = "discard", !.capped = FALSE]
        /\ UNCHANGED <<msg, fed, depth, skipDepth, resume, status, limit, ret, broken, pc, events>>
    BY <1>6 DEF Discard, outcome
  <2>2. pc # "idle" /\ pc # "value" /\ resume = "none"
    BY <2>1, Running DEF Walking
  <2>3. pending' \in Pending
    BY <2>1, <2>2, Running DEF Pending
  <2>4. FrameTyped'
    BY <2>1, <2>3 DEF Framed, FrameTyped, wire
  <2>5. OutcomeTyped'
    BY <2>1 DEF Framed, OutcomeTyped
  <2>6. SkipLevel' /\ Resumed'
    BY <2>1, <2>2 DEF Framed, SkipLevel, Skipping, Resumed
  <2> QED BY <2>4, <2>5, <2>6 DEF Framed
<1>7. CASE DrainBytes
  <2>1. Walking /\ NoPending \in Pending /\ pending \in Pending
    BY <1>7, Running DEF DrainBytes, Undrained, Walking
  <2>2. ASSUME Advance(pos + pending.bytes), pending' = NoPending,
               UNCHANGED <<depth, skipDepth, resume, pc, events>>
        PROVE  Framed'
    BY <1>3, <2>1, <2>2
  <2>3. ASSUME pos + pending.bytes > Len(view), RunOut(Len(view)),
               pending' = [pending EXCEPT !.bytes = @ - (Len(view) - pos)],
               SkipInFlight, UNCHANGED <<msg, fed, depth, skipDepth, events>>
        PROVE  Framed'
    <3>1. pending.bytes - (Len(view) - pos) \in Nat
      BY <1>1, <2>1, <2>3 DEF Pending
    <3>2. pending' \in Pending
      BY <2>1, <2>3, <3>1 DEF Pending
    <3> QED BY <1>2, <2>1, <2>3, <3>2 DEF RunOut
  <2> QED BY <1>7, <2>2, <2>3 DEF DrainBytes, Undrained
<1>8. CASE DrainVarints
  <2>1. Walking /\ NoPending \in Pending /\ pending \in Pending
    BY <1>8, Running DEF DrainVarints, Walking
  <2>2. CASE Reject("INVALID")
    BY <2>2, InvalidFramed
  <2>3. ASSUME NEW q, Advance(q), pending' = NoPending,
               UNCHANGED <<depth, skipDepth, resume, pc, events>>
        PROVE  Framed'
    BY <1>3, <2>1, <2>3
  <2>4. ASSUME Cardinality(Ends(pos)) < pending.vars, RunOut(Len(view)),
               pending' = [pending EXCEPT !.vars = @ - Cardinality(Ends(pos)),
                                          !.vb = InFlight],
               SkipInFlight, UNCHANGED <<msg, fed, depth, skipDepth, events>>
        PROVE  Framed'
    <3>1. InFlight \in Nat
      BY <2>1, FiniteEnds DEF InFlight, Pending
    <3>2. pending.vars - Cardinality(Ends(pos)) \in Nat
      BY <2>1, <2>4, FiniteEnds DEF Pending
    <3>3. pending' \in Pending
      BY <2>1, <2>4, <3>1, <3>2 DEF Pending
    <3> QED BY <1>2, <2>1, <2>4, <3>3 DEF RunOut
  <2> QED BY <1>8, <2>2, <2>3, <2>4 DEF DrainVarints
<1>9. CASE CleanEnd
  <2>1. /\ Walking /\ depth = 0 /\ Retain(pos, "COMPLETE") /\ status' = "COMPLETE"
        /\ UNCHANGED <<msg, fed, pending, depth, skipDepth, resume, limit, broken, events>>
    BY <1>9 DEF CleanEnd, AtHeader, framing
  <2>2. /\ pc # "idle" /\ pc # "skip" /\ resume' = "none" /\ status # "INVALID"
        /\ pending' \in Pending /\ events' \in Seq(Event) /\ broken' \in BOOLEAN
    BY <2>1, Running DEF Walking
  <2> QED BY <2>1, <2>2, SuspendFramed
<1>10. CASE HeaderShort
  <2>1. Walking /\ pending \in Pending
    BY <1>10, Running DEF HeaderShort, AtHeader, Walking
  <2> QED BY <1>2, <1>10, <2>1 DEF HeaderShort, Suspend, RunOut
<1>11. CASE HeaderInvalid
  BY <1>11, InvalidFramed DEF HeaderInvalid
<1>12. CASE SequenceStart
  <2>1. PICK q \in pos + 1 .. Len(view), c \in 1 .. Len(Fields[msg]) :
          /\ Header(q, c, {"start"}) /\ depth < MaxDepth /\ depth' = depth + 1
          /\ UNCHANGED <<pending, resume>>
          /\ \/ pc = "walk" /\ Heard(c, "open", <<>>) /\ UNCHANGED <<skipDepth, pc>>
             \/ pc = "walk" /\ pc' = "skip" /\ skipDepth' = depth /\ UNCHANGED events
             \/ pc = "skip" /\ UNCHANGED <<skipDepth, pc, events>>
    BY <1>12 DEF SequenceStart
  <2>2. Walking /\ Advance(q) /\ pc # "idle" /\ pc # "value"
    BY <2>1 DEF Header, AtHeader, Walking
  <2>3. events' \in Seq(Event)
    <3>1. c \in Nat /\ <<>> \in Seq(Nat)
      BY EmptySeq
    <3>2. events \in Seq(Event)
      BY <2>2, Running
    <3> QED BY <2>1, <3>1, <3>2, HeardTyped
  <2>4. depth' \in 0 .. MaxDepth
    BY <2>1, <2>2, Running, BoundsAssumption
  <2>5. /\ skipDepth' \in Nat \cup {-1} /\ skipDepth' < depth'
        /\ pc' \in {"walk", "skip"} /\ (pc' = "skip" <=> skipDepth' >= 0)
    BY <2>1, <2>2, Running
  <2>6. pending' \in Pending /\ resume = "none" /\ UNCHANGED resume
    BY <2>1, <2>2, Running
  <2> QED BY <2>2, <2>3, <2>4, <2>5, <2>6, AdvanceFramed
<1>13. CASE SequenceEnd
  <2>1. PICK q \in pos + 1 .. Len(view), c \in 1 .. Len(Fields[msg]) :
          /\ Header(q, c, {"end"}) /\ depth > 0 /\ depth' = depth - 1
          /\ UNCHANGED <<pending, resume>>
          /\ \/ pc = "walk" /\ Heard(c, "close", <<>>) /\ UNCHANGED <<skipDepth, pc>>
             \/ pc = "skip" /\ depth - 1 > skipDepth /\ UNCHANGED <<skipDepth, pc, events>>
             \/ /\ pc = "skip" /\ depth - 1 <= skipDepth
                /\ pc' = "walk" /\ skipDepth' = -1 /\ UNCHANGED events
    BY <1>13 DEF SequenceEnd
  <2>2. Walking /\ Advance(q) /\ pc # "idle" /\ pc # "value"
    BY <2>1 DEF Header, AtHeader, Walking
  <2>3. events' \in Seq(Event)
    <3>1. c \in Nat /\ <<>> \in Seq(Nat)
      BY EmptySeq
    <3>2. events \in Seq(Event)
      BY <2>2, Running
    <3> QED BY <2>1, <3>1, <3>2, HeardTyped
  <2>4. depth' \in 0 .. MaxDepth
    BY <2>1, <2>2, Running, BoundsAssumption
  <2>5. /\ skipDepth' \in Nat \cup {-1} /\ skipDepth' < depth'
        /\ pc' \in {"walk", "skip"} /\ (pc' = "skip" <=> skipDepth' >= 0)
    BY <2>1, <2>2, Running
  <2>6. pending' \in Pending /\ resume = "none" /\ UNCHANGED resume
    BY <2>1, <2>2, Running
  <2> QED BY <2>2, <2>3, <2>4, <2>5, <2>6, AdvanceFramed
<1>14. CASE ValueHeader
  <2>1. PICK q \in pos + 1 .. Len(view), c \in 1 .. Len(Fields[msg]) :
          /\ Header(q, c, Values) /\ pending' = Park(c)
          /\ pc' = IF pc = "walk" /\ field(c).want THEN "value" ELSE pc
          /\ UNCHANGED <<depth, skipDepth, resume, events>>
    BY <1>14 DEF ValueHeader
  <2>2. Walking /\ Advance(q) /\ pc # "idle" /\ pc # "value" /\ field(c).kind \in Values
    BY <2>1 DEF Header, AtHeader, Walking
  <2>3. pending' \in Pending /\ pending'.tag \in Values
    BY <2>1, <2>2, ParkTyped
  <2>4. /\ events' \in Seq(Event) /\ resume = "none" /\ UNCHANGED resume
        /\ depth' \in 0 .. MaxDepth /\ skipDepth' \in Nat \cup {-1} /\ skipDepth' < depth'
    BY <2>1, <2>2, Running
  <2>5. /\ pc' \in {"walk", "skip", "value"} /\ (pc' = "skip" <=> skipDepth' >= 0)
        /\ pc' = "value" => skipDepth' = -1
    BY <2>1, <2>2, Running
  <2> QED BY <2>2, <2>3, <2>4, <2>5, AdvanceFramed
<1>15. CASE OverCap
  BY <1>15, RejectFramed DEF OverCap, Reading
<1>16. CASE ValueInvalid
  BY <1>16, InvalidFramed DEF ValueInvalid
<1>17. CASE TakeValue
  <2>1. PICK q \in pos .. Len(view) :
          /\ Heard(pending.c, "value", SubSeq(view, pos + 1, q))
          /\ \/ Advance(q) /\ pc' = "walk"
             \/ /\ Retain(q, "RAISED") /\ broken' = TRUE
                /\ UNCHANGED <<msg, fed, status, limit>>
    BY <1>17 DEF TakeValue
  <2>2. /\ pc = "value" /\ resume = "none" /\ pending' = NoPending
        /\ UNCHANGED <<depth, skipDepth, resume>>
    BY <1>17 DEF TakeValue, Reading
  <2>3. \A i \in pos + 1 .. q : view[i] \in Nat
    BY <1>1, ElementOfSeq
  <2>4. SubSeq(view, pos + 1, q) \in Seq(Nat)
    BY <1>1, <2>3, SubSeqProperties
  <2>5. events' \in Seq(Event)
    BY <2>1, <2>2, <2>4, HeardTyped, Running DEF Pending
  <2>6. /\ pending' \in Pending /\ depth' \in 0 .. MaxDepth
        /\ skipDepth' \in Nat \cup {-1} /\ skipDepth' < depth' /\ skipDepth' = -1
        /\ status # "INVALID" /\ status \in {"COMPLETE", "INCOMPLETE"}
    BY <2>2, Running
  <2>7. CASE Advance(q) /\ pc' = "walk"
    BY <2>2, <2>5, <2>6, <2>7, AdvanceFramed
  <2>8. CASE Retain(q, "RAISED") /\ broken' = TRUE /\ UNCHANGED <<msg, fed, status, limit>>
    BY <2>2, <2>5, <2>6, <2>8, SuspendFramed
  <2> QED BY <2>1, <2>7, <2>8
<1>18. CASE ValueShort
  <2>1. /\ pc = "value" /\ Retain(pos, "INCOMPLETE") /\ status' = "INCOMPLETE"
        /\ resume' = "visit" /\ keep = pos
        /\ UNCHANGED <<msg, fed, pending, depth, skipDepth, limit, broken, events>>
    BY <1>18 DEF ValueShort, Reading, Suspend, RunOut, Buffered, Shaped
  <2>2. /\ pending' \in Pending /\ pending'.tag \in Values /\ events' \in Seq(Event)
        /\ broken' \in BOOLEAN /\ status # "INVALID"
    BY <2>1, Running
  <2> QED BY <2>1, <2>2, SuspendFramed
<1> QED BY <1>4, <1>5, <1>6, <1>7, <1>8, <1>9, <1>10, <1>11, <1>12, <1>13, <1>14,
           <1>15, <1>16, <1>17, <1>18 DEF Walk

-----------------------------------------------------------------------------
(* The theorems.                                                           *)

LEMMA InitIInv == Init => IInv
<1> SUFFICES ASSUME Init PROVE IInv
  OBVIOUS
<1>1. /\ msg \in Messages /\ fed = 0 /\ lost = FALSE /\ pc = "idle"
      /\ rbuf = [i \in 1 .. Reassembly |-> 0] /\ rstart = 0 /\ rend = 0
      /\ view = <<>> /\ pos = 0 /\ keep = 0 /\ inPlace = FALSE
      /\ pending = NoPending /\ depth = 0 /\ skipDepth = -1 /\ resume = "none"
      /\ status = "COMPLETE" /\ limit = FALSE /\ ret = "none" /\ broken = FALSE
      /\ events = <<>>
  BY DEF Init
<1>2. view \in Seq(Nat) /\ Len(view) = 0 /\ events \in Seq(Event)
  BY <1>1, EmptySeq
<1>3. BytesTyped
  BY <1>1, <1>2 DEF BytesTyped
<1>4. Shaped
  BY <1>1, <1>2, ReassemblyAssumption DEF Shaped
<1>5. \A i \in pos + 1 .. Len(view) : view[i] = fed - Len(view) + i
  BY <1>1, <1>2
<1>6. \A i \in rstart + 1 .. rend : rbuf[i] = fed - rend + i
  BY <1>1
<1>7. InOrder
  BY <1>5, <1>6 DEF InOrder
<1>8. NoPending \in Pending
  BY DEF NoPending, Pending
<1>9. fed <= Len(wire)
  BY <1>1, MessagesAssumption, LenProperties DEF wire
<1>10. FrameTyped
  BY <1>1, <1>2, <1>8, <1>9 DEF FrameTyped
<1>11. OutcomeTyped
  BY <1>1 DEF OutcomeTyped
<1>12. SkipLevel /\ Resumed
  BY <1>1, BoundsAssumption DEF SkipLevel, Skipping, Resumed
<1> QED BY <1>3, <1>4, <1>7, <1>10, <1>11, <1>12 DEF IInv, Buffered, Framed

LEMMA NextIInv == IInv /\ [Next]_vars => IInv'
<1> SUFFICES ASSUME Buffered, Framed, [Next]_vars PROVE IInv'
  BY DEF IInv
<1>1. Buffered'
  BY NextBuffered
<1>2. Framed'
  <2>1. CASE Feed
    BY <2>1, FeedFramed
  <2>2. CASE Walk
    BY <2>2, WalkFramed
  <2>3. CASE Reset
    BY <2>3, ResetFramed
  <2>4. CASE UNCHANGED vars
    <3>1. UNCHANGED <<msg, fed, pending, depth, skipDepth, resume, status, limit, ret,
                      broken, pc, events>>
      BY <2>4 DEF vars, framing, outcome
    <3>2. FrameTyped'
      BY <3>1 DEF Framed, FrameTyped, wire
    <3>3. OutcomeTyped'
      BY <3>1 DEF Framed, OutcomeTyped
    <3>4. SkipLevel' /\ Resumed'
      BY <3>1 DEF Framed, SkipLevel, Skipping, Resumed
    <3> QED BY <3>2, <3>3, <3>4 DEF Framed
  <2> QED BY <2>1, <2>2, <2>3, <2>4 DEF Next
<1> QED BY <1>1, <1>2 DEF IInv

THEOREM Invariance == Spec => []IInv
  BY InitIInv, NextIInv, PTL DEF Spec

(* Type correctness: the variables of feed, _retain, _next_wire and reset  *)
(* hold what the code means them to hold, for any chunks and any message.  *)
THEOREM TypeCorrect == Spec => []TypeOK
<1>1. IInv => TypeOK
  <2> SUFFICES ASSUME IInv PROVE TypeOK
    OBVIOUS
  <2>1. fed \in 0 .. Len(wire)
    BY MessagesAssumption, LenProperties DEF IInv, Buffered, BytesTyped, Framed, FrameTyped, wire
  <2> QED BY <2>1 DEF IInv, Buffered, BytesTyped, Framed, FrameTyped, OutcomeTyped, TypeOK
<1> QED BY <1>1, Invariance, PTL

(* The bytes the walk reads are the next bytes of the stream, in order and *)
(* without a gap, through every copy into, append to and slide of the      *)
(* reassembly buffer, for any size of the buffer and any chunks, unless a  *)
(* carry was refused.                                                      *)
THEOREM StreamInOrder == Spec => []InOrder
<1>1. IInv => InOrder
  BY DEF IInv, Buffered
<1> QED BY <1>1, Invariance, PTL

(* Never more than MaxDepth sequences are open, and the level at which a   *)
(* skip ends is known across every suspension.                             *)
THEOREM SkipLevelKept == Spec => []SkipLevel
<1>1. IInv => SkipLevel
  BY DEF IInv, Framed
<1> QED BY <1>1, Invariance, PTL

-----------------------------------------------------------------------------
(***************************************************************************)
(* No value is ever built from bytes of another.  The invariant follows    *)
(* the cursor, as a position in the stream: between feeds and inside them  *)
(* it stands where the pending value says it does.                         *)
(***************************************************************************)

(* How much of the stream the walk is done with.                           *)
Consumed == IF pc = "idle" THEN fed - held ELSE fed - Len(view) + pos

(* Between two constructs.                                                 *)
Boundary(a) == a \in 0 .. Len(wire) /\ (a \in 1 .. Len(wire) - 1 => wire[a].c < wire[a + 1].c)

(* n varints of construct c are left after a.                              *)
EndsIn(a, b) == {i \in a + 1 .. b : ~wire[i].cont}
Left(a, c, n) ==
  \E e \in 1 .. Len(wire) :
    /\ Final(ConstructOf(msg, c), e) /\ a <= e
    /\ Cardinality(EndsIn(a, e)) = n
    /\ a < e => ~wire[e].cont

(* Position a is where the pending value says: between constructs, behind  *)
(* the header of the value that is to be read, or where a discard has come *)
(* to.                                                                     *)
Placed(a) ==
  \/ pending.tag = "none" /\ Boundary(a)
  \/ /\ pending.tag # "none" /\ pending.c \in 1 .. Len(Fields[msg])
     /\ \/ /\ pending.tag \in Values /\ field(pending.c).kind \in Values
           /\ pending = Park(pending.c)
           /\ Final(HeaderOf(msg, pending.c), a)
        \/ /\ pending.tag = "discard" /\ a \in 1 .. Len(wire)
           /\ \/ pending.bytes > 0 /\ Final(ConstructOf(msg, pending.c), a + pending.bytes)
              \/ pending.bytes = 0 /\ Left(a, pending.c, pending.vars)

(* What is held after a feed that no hook broke off.                       *)
CarriedPlace ==
  pc = "idle" /\ ~broken /\ held > 0 =>
    /\ status = "INCOMPLETE" /\ ~limit
    /\ \E c \in 1 .. Len(Fields[msg]) :
         \/ fed - held + 1 .. fed \subseteq HeaderOf(msg, c)
         \/ /\ fed - held + 1 .. fed \subseteq ValueOf(msg, c)
            /\ resume = "visit" \/ pending.tag = "scalar"

(* A payload that was short of bytes is still short, or would be resumed.  *)
StillAwaited ==
  pc = "value" /\ resume = "visit" =>
    pending.tag = "payload" /\ Len(view) - pos < pending.bytes

Located ==
  /\ pc # "idle" => ~limit
  /\ StillAwaited
  /\ ~lost => /\ AllGenuine /\ CarriedPlace
              /\ ~limit /\ status # "INVALID" => \A a \in {Consumed} : Placed(a)

-----------------------------------------------------------------------------
(* The encoding.                                                           *)

LEMMA WireTyped ==
  ASSUME msg \in Messages
  PROVE  /\ Len(wire) \in Nat /\ Len(Fields[msg]) \in Nat
         /\ \A i \in 1 .. Len(wire) :
              /\ wire[i].c \in 1 .. Len(Fields[msg]) /\ wire[i].k \in Nat
              /\ wire[i].cont \in BOOLEAN
         /\ \A i, j \in 1 .. Len(wire) :
              i < j => /\ wire[i].c <= wire[j].c
                       /\ wire[i].c = wire[j].c /\ wire[i].k > 0 => wire[j].k > 0
<1>1. wire \in Seq(Byte) /\ Fields[msg] \in Seq(Construct)
  BY MessagesAssumption DEF wire
<1>2. Len(wire) \in Nat /\ Len(Fields[msg]) \in Nat
  BY <1>1, LenProperties
<1>3. \A i \in 1 .. Len(wire) : wire[i] \in Byte
  BY <1>1, ElementOfSeq
<1>4. \A i \in 1 .. Len(wire) : wire[i].c \in 1 .. Len(Fields[msg])
  BY MessagesAssumption DEF wire
<1>5. \A i, j \in 1 .. Len(wire) :
        i < j => /\ wire[i].c <= wire[j].c
                 /\ wire[i].c = wire[j].c /\ wire[i].k > 0 => wire[j].k > 0
  BY EncodingAssumption DEF wire
<1> QED BY <1>2, <1>3, <1>4, <1>5 DEF Byte

(* A construct begins with its header, and that ends at its first byte     *)
(* without a continuation bit.                                             *)
LEMMA HeaderFrom ==
  ASSUME msg \in Messages, NEW a, Boundary(a), a < Len(wire)
  PROVE  \E h \in a + 1 .. Len(wire) :
           /\ Final(HeaderOf(msg, wire[a + 1].c), h)
           /\ \A i \in a + 1 .. h : /\ i \in HeaderOf(msg, wire[a + 1].c)
                                    /\ wire[i].cont <=> i # h
<1> DEFINE c == wire[a + 1].c
<1>1. /\ a \in Nat /\ a <= Len(wire) /\ a + 1 \in 1 .. Len(wire) /\ Len(wire) \in Nat
      /\ a > 0 => wire[a].c < wire[a + 1].c
  BY WireTyped DEF Boundary
<1>2. c \in 1 .. Len(Fields[msg]) /\ c \in Nat
  BY <1>1, WireTyped
<1>3. PICK h \in HeaderOf(msg, c) :
        /\ Final(HeaderOf(msg, c), h)
        /\ \A i \in HeaderOf(msg, c) : wire[i].cont <=> i # h
  BY <1>2, EncodingAssumption DEF wire
<1>4. h \in 1 .. Len(wire) /\ wire[h].c = c /\ wire[h].k = 0
  BY <1>3 DEF HeaderOf, ConstructOf, wire
<1>5. h > a
  <2>1. SUFFICES ASSUME h <= a PROVE FALSE
    BY <1>1, <1>4
  <2>2. a \in 1 .. Len(wire) /\ wire[h].c <= wire[a].c
    BY <1>1, <1>4, <2>1, WireTyped
  <2>3. wire[a].c \in Nat
    BY <2>2, WireTyped
  <2> QED BY <1>1, <1>2, <1>4, <2>2, <2>3
<1>6. ASSUME NEW i \in a + 1 .. h
      PROVE  i \in HeaderOf(msg, c)
  <2>1. i \in 1 .. Len(wire) /\ wire[i].c \in Nat /\ wire[i].k \in Nat
    BY <1>1, <1>4, WireTyped
  <2>2. wire[a + 1].c <= wire[i].c /\ wire[i].c <= wire[h].c
    BY <1>1, <1>2, <1>4, <2>1, WireTyped
  <2>3. wire[i].c = c
    BY <1>2, <1>4, <2>1, <2>2
  <2>4. wire[i].k = 0
    BY <1>1, <1>4, <2>1, <2>3, WireTyped
  <2> QED BY <2>1, <2>3, <2>4 DEF HeaderOf, ConstructOf, wire
<1> QED BY <1>1, <1>3, <1>4, <1>5, <1>6

(* The end of a construct is the boundary before the next.                 *)
LEMMA EndIsBoundary ==
  ASSUME msg \in Messages, NEW c, NEW e, Final(ConstructOf(msg, c), e)
  PROVE  Boundary(e) /\ e \in 1 .. Len(wire)
<1>1. e \in 1 .. Len(wire) /\ wire[e].c = c
  BY DEF Final, ConstructOf, wire
<1>2. ASSUME e \in 1 .. Len(wire) - 1 PROVE wire[e].c < wire[e + 1].c
  <2>1. e + 1 \in 1 .. Len(wire) /\ e < e + 1
    BY <1>1, <1>2, WireTyped
  <2>2. wire[e].c <= wire[e + 1].c /\ wire[e].c \in Nat /\ wire[e + 1].c \in Nat
    BY <1>1, <2>1, WireTyped
  <2>3. wire[e + 1].c # c
    <3>1. e + 1 \notin ConstructOf(msg, c)
      BY <1>1, <2>1 DEF Final
    <3> QED BY <2>1, <3>1 DEF ConstructOf, wire
  <2> QED BY <1>1, <2>2, <2>3
<1> QED BY <1>1, <1>2, WireTyped DEF Boundary

(* The value is what lies between the end of the header and the end of the *)
(* construct.                                                              *)
LEMMA ValueSpan ==
  ASSUME msg \in Messages, NEW c \in 1 .. Len(Fields[msg]), NEW h,
         Final(HeaderOf(msg, c), h)
  PROVE  \E e \in 1 .. Len(wire) :
           /\ Final(ConstructOf(msg, c), e) /\ h <= e
           /\ ValueOf(msg, c) = h + 1 .. e
           /\ field(c).kind # "payload" => ~wire[e].cont
<1>1. PICK e \in ConstructOf(msg, c) :
        /\ Final(ConstructOf(msg, c), e)
        /\ field(c).kind # "payload" => ~wire[e].cont
  BY EncodingAssumption DEF wire, field
<1>2. e \in 1 .. Len(wire) /\ wire[e].c = c
  BY <1>1 DEF ConstructOf, wire
<1>3. /\ h \in 1 .. Len(wire) /\ wire[h].c = c /\ wire[h].k = 0
      /\ \A i \in HeaderOf(msg, c) : i <= h
  BY DEF Final, HeaderOf, ConstructOf, wire
<1>4. h <= e
  BY <1>1, <1>3 DEF Final, ConstructOf, wire
<1>5. Len(wire) \in Nat /\ c \in Nat
  BY WireTyped
<1>6. ASSUME NEW i \in ValueOf(msg, c) PROVE i \in h + 1 .. e
  <2>1. i \in 1 .. Len(wire) /\ wire[i].c = c /\ wire[i].k > 0 /\ i <= e
    BY <1>1 DEF ValueOf, Final, ConstructOf, wire
  <2>2. ~(i <= h)
    <3>1. wire[i].c = wire[h].c /\ wire[i].k # wire[h].k
      BY <1>3, <2>1
    <3> QED BY <1>3, <1>5, <2>1, <3>1, WireTyped
  <2> QED BY <1>2, <1>3, <1>5, <2>1, <2>2
<1>7. ASSUME NEW i \in h + 1 .. e PROVE i \in ValueOf(msg, c)
  <2>1. i \in 1 .. Len(wire) /\ h < i /\ i <= e
    BY <1>2, <1>3, <1>5
  <2>2. wire[h].c <= wire[i].c /\ wire[i].c <= wire[e].c
    BY <1>2, <1>3, <1>5, <2>1, WireTyped
  <2>3. wire[i].c = c /\ wire[i].k \in Nat
    BY <1>2, <1>3, <1>5, <2>1, <2>2, WireTyped
  <2>4. i \in ConstructOf(msg, c)
    BY <2>1, <2>3 DEF ConstructOf, wire
  <2>5. wire[i].k # 0
    <3>1. i \notin HeaderOf(msg, c)
      BY <1>3, <2>1
    <3> QED BY <2>4, <3>1 DEF HeaderOf, wire
  <2> QED BY <2>3, <2>4, <2>5 DEF ValueOf, wire
<1> QED BY <1>1, <1>2, <1>4, <1>6, <1>7

(* What a header announces is what follows it.                             *)
LEMMA Announced ==
  ASSUME msg \in Messages, NEW c \in 1 .. Len(Fields[msg]), NEW h,
         Final(HeaderOf(msg, c), h), field(c) \in Construct
  PROVE  /\ field(c).kind = "payload" => Final(ConstructOf(msg, c), h + field(c).items[1])
         /\ field(c).kind = "scalar"  => Left(h, c, 1)
         /\ field(c).kind = "varints" => Left(h, c, Len(field(c).items))
         /\ field(c).kind \notin Values => Final(ConstructOf(msg, c), h)
<1>1. PICK e \in 1 .. Len(wire) :
        /\ Final(ConstructOf(msg, c), e) /\ h <= e
        /\ ValueOf(msg, c) = h + 1 .. e
        /\ field(c).kind # "payload" => ~wire[e].cont
  BY ValueSpan
<1>2. h \in 1 .. Len(wire) /\ e \in Int /\ h \in Int
  BY <1>1, WireTyped DEF Final, HeaderOf, ConstructOf, wire
<1>3. CASE field(c).kind = "payload"
  <2>1. Cardinality(h + 1 .. e) = field(c).items[1]
    BY <1>1, <1>3, EncodingAssumption DEF field
  <2>2. Cardinality(h + 1 .. e) = IF h + 1 > e THEN 0 ELSE e - (h + 1) + 1
    <3>1. h + 1 \in Int
      BY <1>2
    <3> QED BY <1>2, <3>1, FS_Interval
  <2>3. h + field(c).items[1] = e
    BY <1>1, <1>2, <2>1, <2>2
  <2> QED BY <1>1, <1>3, <2>3 DEF Values
<1>4. CASE field(c).kind \in {"scalar", "varints"}
  <2>1. Cardinality(EndsIn(h, e))
          = IF field(c).kind = "scalar" THEN 1 ELSE Len(field(c).items)
    BY <1>1, <1>4, EncodingAssumption DEF field, wire, EndsIn
  <2> QED BY <1>1, <1>4, <2>1 DEF Left, Values
<1>5. CASE field(c).kind \notin Values
  <2>1. ValueOf(msg, c) = {}
    BY <1>5, EncodingAssumption DEF field, Values
  <2>2. h + 1 \notin h + 1 .. e
    BY <1>1, <2>1
  <2>3. h = e
    BY <1>1, <1>2, <2>2
  <2> QED BY <1>1, <1>5, <2>3 DEF Values
<1> QED BY <1>3, <1>4, <1>5 DEF Values

-----------------------------------------------------------------------------
(* What the walk sees of it.  Positions of the window lie Base behind      *)
(* those of the stream.                                                    *)

Base == fed - Len(view)

LEMMA Window ==
  ASSUME IInv
  PROVE  /\ msg \in Messages /\ Base \in Int /\ fed \in Nat /\ fed <= Len(wire)
         /\ Len(wire) \in Nat /\ view \in Seq(Nat) /\ Len(view) \in Nat
         /\ pos \in Nat /\ pos <= Len(view) /\ keep = pos
         /\ Base + Len(view) = fed
         /\ pc # "idle" => Consumed = Base + pos
<1>1. /\ fed \in Nat /\ view \in Seq(Nat) /\ pos \in Nat /\ msg \in Messages
      /\ fed <= Len(wire) /\ pos <= Len(view) /\ keep = pos
  BY DEF IInv, Buffered, BytesTyped, Shaped, Framed, FrameTyped
<1>2. Len(view) \in Nat /\ Len(wire) \in Nat
  BY <1>1, LenProperties, WireTyped
<1> QED BY <1>1, <1>2 DEF Base, Consumed

LEMMA Seen ==
  ASSUME IInv, ~lost, Base + pos >= 0, NEW i \in pos + 1 .. Len(view)
  PROVE  /\ view[i] = Base + i /\ at(i) = wire[Base + i]
         /\ Base + i \in 1 .. Len(wire) /\ Base + i > Base + pos /\ Base + i <= fed
         /\ i \in Int
<1>1. view[i] = fed - Len(view) + i
  BY DEF IInv, Buffered, InOrder
<1>2. /\ pos \in Nat /\ Len(view) \in Nat /\ fed \in Nat
      /\ fed <= Len(wire) /\ Len(wire) \in Nat /\ Base = fed - Len(view)
  BY Window DEF Base
<1>3. i \in Int /\ view[i] = Base + i
  BY <1>1, <1>2
<1>4. Base + i > Base + pos /\ Base + i <= fed
  BY <1>2, <1>3
<1>5. Base + i \in 1 .. Len(wire)
  BY <1>2, <1>3, <1>4
<1> QED BY <1>3, <1>4, <1>5 DEF at

-----------------------------------------------------------------------------
(* Counting varints: those the window shows are those of the stream.       *)

LEMMA CountShift ==
  ASSUME NEW S \in SUBSET Int, IsFiniteSet(S), NEW b \in Int,
         NEW T \in SUBSET Int, \A x \in Int : x \in S <=> b + x \in T
  PROVE  IsFiniteSet(T) /\ Cardinality(T) = Cardinality(S)
<1> DEFINE f == [x \in S |-> b + x]
<1>1. f \in [S -> T]
  OBVIOUS
<1>2. \A x, y \in S : f[x] = f[y] => x = y
  OBVIOUS
<1>3. ASSUME NEW t \in T PROVE \E x \in S : f[x] = t
  <2>1. t - b \in Int /\ b + (t - b) = t
    BY <1>3
  <2> QED BY <1>3, <2>1
<1>4. f \in Bijection(S, T)
  BY <1>1, <1>2, <1>3, Fun_IsBij
<1>5. ExistsBijection(S, T)
  BY <1>4 DEF ExistsBijection
<1> QED BY <1>5, FS_Bijection

LEMMA FiniteEndsIn ==
  ASSUME NEW a \in Int, NEW b \in Int
  PROVE  /\ IsFiniteSet(EndsIn(a, b)) /\ Cardinality(EndsIn(a, b)) \in Nat
         /\ \A d \in Int : d <= b => EndsIn(a, d) \subseteq EndsIn(a, b)
<1>1. IsFiniteSet(a + 1 .. b)
  BY FS_Interval
<1>2. EndsIn(a, b) \in SUBSET (a + 1 .. b)
  BY DEF EndsIn
<1>3. IsFiniteSet(EndsIn(a, b))
  BY <1>1, <1>2, FS_Subset
<1> QED BY <1>3, FS_CardinalityType DEF EndsIn

LEMMA EndsSeen ==
  ASSUME IInv, ~lost, Base + pos >= 0, NEW q \in pos .. Len(view)
  PROVE  Cardinality({e \in Ends(pos) : e <= q}) = Cardinality(EndsIn(Base + pos, Base + q))
<1> DEFINE S == {e \in Ends(pos) : e <= q}
           T == EndsIn(Base + pos, Base + q)
<1>1. Base \in Int /\ pos \in Nat /\ Len(view) \in Nat /\ q \in Int
  BY Window
<1>2. S \in SUBSET (pos + 1 .. q) /\ S \in SUBSET Int
  BY <1>1 DEF Ends
<1>3. IsFiniteSet(S)
  <2>1. IsFiniteSet(pos + 1 .. q)
    BY <1>1, FS_Interval
  <2> HIDE DEF S
  <2> QED BY <1>2, <2>1, FS_Subset
<1>4. T \in SUBSET Int
  BY <1>1 DEF EndsIn
<1>5. ASSUME NEW x \in Int
      PROVE  x \in S <=> Base + x \in T
  <2>1. x \in pos + 1 .. q <=> Base + x \in Base + pos + 1 .. Base + q
    BY <1>1
  <2>2. x \in pos + 1 .. q => x \in pos + 1 .. Len(view) /\ at(x) = wire[Base + x]
    BY <1>1, Seen
  <2> QED BY <1>1, <2>1, <2>2 DEF Ends, EndsIn
<1> HIDE DEF S, T
<1>6. Cardinality(T) = Cardinality(S)
  BY <1>1, <1>2, <1>3, <1>4, <1>5, CountShift
<1> QED BY <1>6 DEF S, T

(* The last of the varints that are left ends the construct.               *)
LEMMA LeftEnds ==
  ASSUME IInv, ~lost, Base + pos >= 0, NEW c, NEW n \in Nat, Left(Base + pos, c, n),
         NEW q \in pos .. Len(view), EndsAt(pos, n, q)
  PROVE  Final(ConstructOf(msg, c), Base + q)
<1>1. PICK e \in 1 .. Len(wire) :
        /\ Final(ConstructOf(msg, c), e) /\ Base + pos <= e
        /\ Cardinality(EndsIn(Base + pos, e)) = n
        /\ Base + pos < e => ~wire[e].cont
  BY DEF Left
<1>2. /\ Base \in Int /\ pos \in Nat /\ Len(view) \in Nat /\ q \in Int /\ e \in Int
      /\ Base + pos \in Int /\ Base + q \in Int
  BY Window
<1> DEFINE A == EndsIn(Base + pos, e)
           B == EndsIn(Base + pos, Base + q)
<1>3. /\ IsFiniteSet(A) /\ IsFiniteSet(B) /\ Cardinality(A) = n
      /\ Base + q <= e => B \in SUBSET A
      /\ e <= Base + q => A \in SUBSET B
  BY <1>1, <1>2, FiniteEndsIn
<1>4. Base + pos < e => e \in A
  BY <1>1, <1>2 DEF EndsIn
<1>5. e > Base + q => e \notin B
  BY <1>2 DEF EndsIn
<1>6. CASE n = 0
  <2>1. A = {}
    BY <1>3, <1>6, FS_EmptySet
  <2>2. q = pos /\ e = Base + pos
    BY <1>1, <1>2, <1>4, <1>6, <2>1 DEF EndsAt
  <2> QED BY <1>1, <2>2
<1>7. CASE n > 0
  <2>1. q \in Ends(pos) /\ Cardinality({x \in Ends(pos) : x <= q}) = n
    BY <1>7 DEF EndsAt
  <2>2. Cardinality(B) = n
    BY <2>1, EndsSeen
  <2>3. Base + q \in B
    <3>1. q \in pos + 1 .. Len(view) /\ ~at(q).cont
      BY <2>1 DEF Ends
    <3> QED BY <1>2, <3>1, Seen DEF EndsIn
  <2>4. CASE Base + q < e
    <3>1. A = B
      BY <1>2, <1>3, <2>2, <2>4, FS_Subset
    <3> QED BY <1>2, <1>4, <1>5, <2>4, <3>1, Window
  <2>5. CASE e < Base + q
    <3>1. A = B
      BY <1>2, <1>3, <2>2, <2>5, FS_Subset
    <3>2. Base + q \notin A
      BY <1>2, <2>5 DEF EndsIn
    <3> QED BY <2>3, <3>1, <3>2
  <2>6. CASE Base + q = e
    BY <1>1, <2>6
  <2> QED BY <1>2, <2>4, <2>5, <2>6
<1> QED BY <1>6, <1>7

(* When the window does not show the last of them, it ends in the middle   *)
(* of the construct.                                                       *)
LEMMA LeftShort ==
  ASSUME IInv, ~lost, Base + pos >= 0, NEW c, NEW n \in Nat, Left(Base + pos, c, n),
         \A q \in pos .. Len(view) : ~EndsAt(pos, n, q)
  PROVE  \E e \in 1 .. Len(wire) : Final(ConstructOf(msg, c), e) /\ fed < e
<1>1. PICK e \in 1 .. Len(wire) :
        /\ Final(ConstructOf(msg, c), e) /\ Base + pos <= e
        /\ Cardinality(EndsIn(Base + pos, e)) = n
        /\ Base + pos < e => ~wire[e].cont
  BY DEF Left
<1>2. /\ Base \in Int /\ pos \in Nat /\ Len(view) \in Nat /\ pos <= Len(view)
      /\ e \in Int /\ fed = Base + Len(view) /\ fed \in Int /\ Base + pos \in Int
  BY Window
<1>3. SUFFICES ASSUME e <= fed PROVE FALSE
  BY <1>1, <1>2
<1> DEFINE q == e - Base
<1>4. q \in pos .. Len(view) /\ q \in Int /\ Base + q = e
  BY <1>1, <1>2, <1>3
<1>5. Cardinality({x \in Ends(pos) : x <= q}) = n
  BY <1>1, <1>4, EndsSeen
<1>6. ~EndsAt(pos, n, q)
  BY <1>4
<1>7. CASE n = 0
  <2>1. EndsIn(Base + pos, e) = {}
    BY <1>1, <1>2, <1>7, FiniteEndsIn, FS_EmptySet
  <2>2. Base + pos < e => e \in EndsIn(Base + pos, e)
    BY <1>1, <1>2 DEF EndsIn
  <2>3. q = pos
    BY <1>1, <1>2, <2>1, <2>2
  <2> QED BY <1>6, <1>7, <2>3 DEF EndsAt
<1>8. CASE n > 0
  <2>1. q # pos
    <3>1. ASSUME q = pos PROVE EndsIn(Base + pos, e) = {}
      BY <1>2, <1>4, <3>1 DEF EndsIn
    <3> QED BY <1>1, <1>8, <3>1, FS_EmptySet
  <2>2. q \in pos + 1 .. Len(view) /\ ~wire[e].cont
    BY <1>1, <1>2, <1>4, <2>1
  <2>3. q \in Ends(pos)
    BY <1>4, <2>2, Seen DEF Ends
  <2> QED BY <1>5, <1>6, <1>8, <2>3 DEF EndsAt
<1> QED BY <1>7, <1>8

(* What a discard has dropped is no longer left.                           *)
LEMMA LeftDropped ==
  ASSUME IInv, ~lost, Base + pos >= 0, NEW c, NEW n \in Nat, Left(Base + pos, c, n),
         Cardinality(Ends(pos)) < n
  PROVE  Left(fed, c, n - Cardinality(Ends(pos)))
<1>1. PICK e \in 1 .. Len(wire) :
        /\ Final(ConstructOf(msg, c), e) /\ Base + pos <= e
        /\ Cardinality(EndsIn(Base + pos, e)) = n
        /\ Base + pos < e => ~wire[e].cont
  BY DEF Left
<1>2. /\ Base \in Int /\ pos \in Nat /\ Len(view) \in Nat /\ pos <= Len(view)
      /\ e \in Int /\ fed = Base + Len(view) /\ fed \in Int /\ Base + pos \in Int
      /\ Base + pos <= fed
  BY Window
<1> DEFINE A == EndsIn(Base + pos, e)
           B == EndsIn(Base + pos, fed)
           C == EndsIn(fed, e)
<1>3. /\ IsFiniteSet(A) /\ IsFiniteSet(B) /\ IsFiniteSet(C)
      /\ Cardinality(A) = n /\ Cardinality(C) \in Nat /\ Cardinality(B) \in Nat
  BY <1>1, <1>2, FiniteEndsIn
<1>4. Cardinality(B) = Cardinality(Ends(pos))
  <2>1. Len(view) \in pos .. Len(view)
    BY <1>2
  <2>2. {x \in Ends(pos) : x <= Len(view)} = Ends(pos)
    BY <1>2 DEF Ends
  <2> QED BY <1>2, <2>1, <2>2, EndsSeen
<1>5. fed < e
  <2>1. SUFFICES ASSUME e <= fed PROVE FALSE
    BY <1>2
  <2>2. A \in SUBSET B
    BY <1>2, <2>1, FiniteEndsIn
  <2>3. Cardinality(A) <= Cardinality(B)
    BY <1>3, <2>2, FS_Subset
  <2> QED BY <1>3, <1>4, <2>3
<1>6. A = B \cup C /\ B \cap C = {}
  BY <1>2, <1>5 DEF EndsIn
<1>7. Cardinality(A) = Cardinality(B) + Cardinality(C)
  <2>1. Cardinality(B \cup C) = Cardinality(B) + Cardinality(C) - Cardinality(B \cap C)
    BY <1>3, FS_Union
  <2>2. Cardinality(B \cap C) = 0
    BY <1>6, FS_EmptySet
  <2> HIDE DEF A, B, C
  <2>3. Cardinality(A) = Cardinality(B \cup C)
    BY <1>6
  <2> QED BY <1>3, <2>1, <2>2, <2>3
<1>8. Cardinality(C) = n - Cardinality(Ends(pos))
  BY <1>3, <1>4, <1>7
<1> QED BY <1>1, <1>2, <1>5, <1>8 DEF Left

-----------------------------------------------------------------------------
(* Where the walk stands.                                                  *)

LEMMA PlaceNow ==
  ASSUME IInv, Located, ~lost, pc # "idle"
  PROVE  /\ Placed(Base + pos) /\ AllGenuine /\ ~limit /\ status # "INVALID"
         /\ Base + pos \in Nat /\ Base + pos <= fed
<1>1. ~limit /\ status # "INVALID" /\ AllGenuine /\ \A a \in {Consumed} : Placed(a)
  BY DEF Located, IInv, Framed, Resumed
<1>2. Consumed = Base + pos /\ Base + pos \in Int /\ Base + pos <= fed /\ Len(wire) \in Nat
  BY Window
<1>3. Placed(Base + pos)
  BY <1>1, <1>2
<1>4. Base + pos >= 0
  <2>1. \A c : HeaderOf(msg, c) \subseteq 1 .. Len(wire)
    BY DEF HeaderOf, ConstructOf, wire
  <2> QED BY <1>2, <1>3, <2>1 DEF Placed, Boundary, Final
<1> QED BY <1>1, <1>2, <1>3, <1>4

(* The next header ends where the walk finds it ends ...                   *)
LEMMA HeaderSeen ==
  ASSUME IInv, Located, ~lost, AtHeader, NEW q \in pos + 1 .. Len(view), HeaderEnd(q)
  PROVE  /\ at(q).c \in 1 .. Len(Fields[msg]) /\ at(q).c = wire[Base + pos + 1].c
         /\ Final(HeaderOf(msg, at(q).c), Base + q)
<1> DEFINE a == Base + pos
<1>1. pc # "idle" /\ pending.tag = "none"
  BY DEF AtHeader, Walking
<1>2. a \in Nat /\ Boundary(a) /\ Base + pos >= 0
  BY <1>1, PlaceNow DEF Placed
<1>3. /\ msg \in Messages /\ Base \in Int /\ pos \in Nat /\ Len(view) \in Nat /\ q \in Int
      /\ Len(wire) \in Nat
  BY Window
<1>4. at(q) = wire[Base + q] /\ Base + q \in 1 .. Len(wire) /\ a < Base + q
  BY <1>2, Seen
<1>5. a < Len(wire)
  BY <1>2, <1>3, <1>4
<1>6. PICK h \in a + 1 .. Len(wire) :
        /\ Final(HeaderOf(msg, wire[a + 1].c), h)
        /\ \A i \in a + 1 .. h : /\ i \in HeaderOf(msg, wire[a + 1].c)
                                 /\ wire[i].cont <=> i # h
  BY <1>2, <1>3, <1>5, HeaderFrom
<1>7. ~wire[Base + q].cont /\ \A e \in Ends(pos) : q <= e
  BY <1>4 DEF HeaderEnd, Ends
<1>8. ~(Base + q < h)
  BY <1>2, <1>3, <1>4, <1>6, <1>7
<1>9. ~(h < Base + q)
  <2>1. SUFFICES ASSUME h < Base + q PROVE FALSE
    OBVIOUS
  <2>2. h - Base \in pos + 1 .. Len(view) /\ Base + (h - Base) = h /\ ~(q <= h - Base)
    BY <1>2, <1>3, <1>6, <2>1
  <2>3. at(h - Base) = wire[h]
    BY <1>2, <2>2, Seen
  <2>4. ~wire[h].cont
    BY <1>2, <1>3, <1>6
  <2>5. h - Base \in Ends(pos)
    BY <2>2, <2>3, <2>4 DEF Ends
  <2> QED BY <1>7, <2>2, <2>5
<1>10. Base + q = h
  BY <1>2, <1>3, <1>6, <1>8, <1>9
<1>11. wire[h].c = wire[a + 1].c
  BY <1>6 DEF Final, HeaderOf, ConstructOf, wire
<1> QED BY <1>3, <1>4, <1>6, <1>10, <1>11, WireTyped

(* ... and a window without its end lies inside it.                        *)
LEMMA HeaderCut ==
  ASSUME IInv, Located, ~lost, AtHeader, Ends(pos) = {}, pos < Len(view)
  PROVE  \E c \in 1 .. Len(Fields[msg]) : Base + pos + 1 .. fed \subseteq HeaderOf(msg, c)
<1> DEFINE a == Base + pos
<1>1. pc # "idle" /\ pending.tag = "none"
  BY DEF AtHeader, Walking
<1>2. a \in Nat /\ Boundary(a) /\ Base + pos >= 0
  BY <1>1, PlaceNow DEF Placed
<1>3. /\ msg \in Messages /\ Base \in Int /\ pos \in Nat /\ Len(view) \in Nat
      /\ Len(wire) \in Nat /\ fed \in Nat /\ fed <= Len(wire) /\ fed = Base + Len(view)
  BY Window
<1>4. a < Len(wire)
  BY <1>2, <1>3
<1>5. PICK h \in a + 1 .. Len(wire) :
        /\ Final(HeaderOf(msg, wire[a + 1].c), h)
        /\ \A i \in a + 1 .. h : /\ i \in HeaderOf(msg, wire[a + 1].c)
                                 /\ wire[i].cont <=> i # h
  BY <1>2, <1>3, <1>4, HeaderFrom
<1>6. h > fed
  <2>1. SUFFICES ASSUME h <= fed PROVE FALSE
    BY <1>2, <1>3, <1>5
  <2>2. h - Base \in pos + 1 .. Len(view) /\ Base + (h - Base) = h
    BY <1>2, <1>3, <1>5, <2>1
  <2>3. at(h - Base) = wire[h]
    BY <1>2, <2>2, Seen
  <2>4. ~wire[h].cont
    BY <1>2, <1>3, <1>5
  <2> QED BY <2>2, <2>3, <2>4 DEF Ends
<1>7. a + 1 \in 1 .. Len(wire)
  BY <1>2, <1>3, <1>4
<1>8. wire[a + 1].c \in 1 .. Len(Fields[msg])
  BY <1>3, <1>7, WireTyped
<1>9. \A i \in a + 1 .. fed : i \in HeaderOf(msg, wire[a + 1].c)
  BY <1>2, <1>3, <1>5, <1>6
<1> QED BY <1>8, <1>9

(* A value that waits is the one its header announced.                     *)
LEMMA ValuePlace ==
  ASSUME IInv, Located, ~lost, pc # "idle", pending.tag \in Values
  PROVE  /\ pending.c \in 1 .. Len(Fields[msg]) /\ pending.tag = field(pending.c).kind
         /\ Final(HeaderOf(msg, pending.c), Base + pos)
         /\ pending.bytes \in Nat /\ pending.vars \in Nat /\ field(pending.c) \in Construct
         /\ IF pending.tag = "payload"
            THEN Final(ConstructOf(msg, pending.c), Base + pos + pending.bytes)
            ELSE Left(Base + pos, pending.c, pending.vars)
         /\ pending.tag = "scalar" => pending.vars = 1
         /\ pending.tag = "payload" => pending.vars = 0
         /\ pending.tag = "varints" => pending.bytes = 0
<1>1. Placed(Base + pos) /\ pending \in Pending /\ msg \in Messages /\ Framed
  BY PlaceNow, Window DEF IInv, Framed, FrameTyped
<1>2. /\ pending.c \in 1 .. Len(Fields[msg]) /\ field(pending.c).kind \in Values
      /\ pending = Park(pending.c)
      /\ Final(HeaderOf(msg, pending.c), Base + pos)
  BY <1>1 DEF Placed, Values
<1>3. field(pending.c) \in Construct
  BY <1>1, <1>2, FieldTyped
<1>4. /\ pending.tag = field(pending.c).kind
      /\ field(pending.c).kind = "payload" => pending.bytes = field(pending.c).items[1]
      /\ field(pending.c).kind = "scalar" => pending.vars = 1
      /\ field(pending.c).kind = "varints" => pending.vars = Len(field(pending.c).items)
      /\ field(pending.c).kind = "varints" => pending.bytes = 0
      /\ field(pending.c).kind = "payload" => pending.vars = 0
  <2> DEFINE d == pending.c
  <2>1. pending = Park(d)
    BY <1>2
  <2> HIDE DEF d
  <2>2. /\ Park(d).tag = field(d).kind
        /\ field(d).kind = "payload" => Park(d).bytes = field(d).items[1]
        /\ field(d).kind = "scalar" => Park(d).vars = 1
        /\ field(d).kind = "varints" => Park(d).vars = Len(field(d).items)
        /\ field(d).kind = "varints" => Park(d).bytes = 0
        /\ field(d).kind = "payload" => Park(d).vars = 0
    BY DEF Park
  <2> QED BY <2>1, <2>2 DEF d
<1>5. pending.bytes \in Nat /\ pending.vars \in Nat
  BY <1>1 DEF Pending
<1>6. /\ field(pending.c).kind = "payload" =>
           Final(ConstructOf(msg, pending.c), Base + pos + field(pending.c).items[1])
      /\ field(pending.c).kind = "scalar"  => Left(Base + pos, pending.c, 1)
      /\ field(pending.c).kind = "varints" => Left(Base + pos, pending.c, Len(field(pending.c).items))
  BY <1>1, <1>2, <1>3, Announced
<1> QED BY <1>2, <1>3, <1>4, <1>5, <1>6 DEF Values

(* Its last byte is the construct's, and what the walk takes is the value. *)
LEMMA ValueSeen ==
  ASSUME IInv, Located, ~lost, pc # "idle", pending.tag \in Values,
         NEW q \in pos .. Len(view), ValueEnd(q)
  PROVE  /\ Final(ConstructOf(msg, pending.c), Base + q)
         /\ ValueOf(msg, pending.c) = Base + pos + 1 .. Base + q
<1>1. /\ Base + pos \in Nat /\ Base + pos >= 0 /\ msg \in Messages /\ Base \in Int /\ pos \in Nat
      /\ Len(view) \in Nat
  BY PlaceNow, Window
<1>2. Final(ConstructOf(msg, pending.c), Base + q)
  <2>1. CASE pending.tag = "payload"
    <3>1. q = pos + pending.bytes /\ pending.bytes \in Nat
      BY <2>1, ValuePlace DEF ValueEnd
    <3>2. Base + pos + pending.bytes = Base + q
      BY <1>1, <3>1
    <3> QED BY <2>1, <3>2, ValuePlace
  <2>2. CASE pending.tag # "payload"
    <3>1. Left(Base + pos, pending.c, pending.vars) /\ pending.vars \in Nat
      BY <2>2, ValuePlace
    <3>2. EndsAt(pos, pending.vars, q)
      BY <2>2 DEF ValueEnd
    <3> QED BY <1>1, <3>1, <3>2, LeftEnds
  <2> QED BY <2>1, <2>2
<1>3. PICK e \in 1 .. Len(wire) :
        /\ Final(ConstructOf(msg, pending.c), e)
        /\ ValueOf(msg, pending.c) = Base + pos + 1 .. e
  BY <1>1, ValuePlace, ValueSpan
<1>4. e = Base + q
  BY <1>1, <1>2, <1>3, Window DEF Final
<1> QED BY <1>2, <1>3, <1>4

(* A value whose bytes have not all come ends later.                       *)
LEMMA ValueUnfinished ==
  ASSUME IInv, Located, ~lost, pc # "idle", pending.tag \in Values,
         IF pending.tag = "payload" THEN Len(view) - pos < pending.bytes
         ELSE \A q \in pos .. Len(view) : ~EndsAt(pos, pending.vars, q)
  PROVE  \E e \in 1 .. Len(wire) : Final(ConstructOf(msg, pending.c), e) /\ fed < e
<1>1. /\ Base + pos \in Nat /\ Base + pos >= 0 /\ Base \in Int /\ pos \in Nat
      /\ Len(view) \in Nat /\ fed = Base + Len(view)
  BY PlaceNow, Window
<1>2. CASE pending.tag = "payload"
  <2>1. Final(ConstructOf(msg, pending.c), Base + pos + pending.bytes)
    BY <1>2, ValuePlace
  <2>2. Base + pos + pending.bytes \in 1 .. Len(wire)
    BY <2>1 DEF Final, ConstructOf, wire
  <2>3. fed < Base + pos + pending.bytes
    BY <1>1, <1>2, ValuePlace
  <2> QED BY <2>1, <2>2, <2>3
<1>3. CASE pending.tag # "payload"
  <2>1. Left(Base + pos, pending.c, pending.vars) /\ pending.vars \in Nat
    BY <1>3, ValuePlace
  <2> QED BY <1>1, <1>3, <2>1, LeftShort
<1> QED BY <1>2, <1>3

LEMMA ValueCut ==
  ASSUME IInv, Located, ~lost, pc # "idle", pending.tag \in Values,
         IF pending.tag = "payload" THEN Len(view) - pos < pending.bytes
         ELSE \A q \in pos .. Len(view) : ~EndsAt(pos, pending.vars, q)
  PROVE  \E c \in 1 .. Len(Fields[msg]) : Base + pos + 1 .. fed \subseteq ValueOf(msg, c)
<1>1. /\ Base + pos \in Nat /\ Base + pos >= 0 /\ msg \in Messages /\ Base \in Int /\ pos \in Nat
      /\ Len(view) \in Nat /\ fed = Base + Len(view) /\ fed \in Nat /\ Len(wire) \in Nat
  BY PlaceNow, Window
<1>2. PICK e \in 1 .. Len(wire) :
        /\ Final(ConstructOf(msg, pending.c), e)
        /\ ValueOf(msg, pending.c) = Base + pos + 1 .. e
  BY <1>1, ValuePlace, ValueSpan
<1>3. \E x \in 1 .. Len(wire) : Final(ConstructOf(msg, pending.c), x) /\ fed < x
  BY ValueUnfinished
<1>4. fed < e
  BY <1>1, <1>2, <1>3 DEF Final
<1>5. Base + pos + 1 .. fed \subseteq ValueOf(msg, pending.c)
  BY <1>1, <1>2, <1>4
<1> QED BY <1>5, ValuePlace

-----------------------------------------------------------------------------
(* What a step keeps.                                                      *)

LEMMA SamePlaced ==
  ASSUME UNCHANGED <<msg, pending>>, NEW a, Placed(a)
  PROVE  Placed(a)'
  BY DEF Placed, Boundary, Left, EndsIn, Park, Final, HeaderOf, ConstructOf, wire, field

(* Nothing is pending at the end of a construct.                           *)
LEMMA EndPlaced ==
  ASSUME msg \in Messages, UNCHANGED msg, pending'.tag = "none",
         NEW c, NEW a, Final(ConstructOf(msg, c), a)
  PROVE  Placed(a)'
<1>1. Boundary(a)
  BY EndIsBoundary
<1>2. Boundary(a)'
  BY <1>1 DEF Boundary, wire
<1> QED BY <1>2 DEF Placed

LEMMA StillGenuine ==
  ASSUME UNCHANGED msg, NEW e, Genuine(e)
  PROVE  Genuine(e)'
  BY DEF Genuine, ValueOf, ConstructOf

LEMMA SameEvents ==
  ASSUME UNCHANGED <<msg, events>>, AllGenuine
  PROVE  AllGenuine'
  BY StillGenuine DEF AllGenuine

LEMMA OneMoreGenuine ==
  ASSUME events \in Seq(Event), AllGenuine, UNCHANGED msg,
         NEW e \in Event, events' = Append(events, e), Genuine(e)
  PROVE  AllGenuine'
<1>1. /\ Len(events) \in Nat /\ Len(events') = Len(events) + 1
      /\ \A i \in 1 .. Len(events) : events'[i] = events[i]
      /\ events'[Len(events) + 1] = e
  BY LenProperties, AppendProperties
<1>2. ASSUME NEW i \in 1 .. Len(events'), NEW x, x = events'[i]
      PROVE  Genuine(x)
  <2>1. CASE i \in 1 .. Len(events)
    BY <1>1, <1>2, <2>1 DEF AllGenuine
  <2>2. CASE i = Len(events) + 1
    BY <1>1, <1>2, <2>2
  <2> QED BY <1>1, <2>1, <2>2
<1>3. \A x \in {events'[i] : i \in 1 .. Len(events')} : Genuine(x)'
  BY <1>2, StillGenuine
<1> QED BY <1>3 DEF AllGenuine

LEMMA SilentGenuine ==
  ASSUME NEW e, e.bytes = <<>>, e.what # "value"
  PROVE  Genuine(e)
  BY DEF Genuine

(* The window shows the bytes of the value in order.                       *)
LEMMA ValueGenuine ==
  ASSUME IInv, Located, ~lost, pc # "idle", pending.tag \in Values,
         NEW q \in pos .. Len(view), ValueEnd(q),
         NEW e, e.c = pending.c, e.what = "value", e.bytes = SubSeq(view, pos + 1, q)
  PROVE  Genuine(e)
<1>1. /\ Base + pos \in Nat /\ Base + pos >= 0 /\ Base \in Int /\ pos \in Nat /\ q \in Int
      /\ Len(view) \in Nat /\ pos <= q /\ q <= Len(view) /\ view \in Seq(Nat)
  BY PlaceNow, Window
<1>2. \A i \in pos + 1 .. q : view[i] \in Nat /\ view[i] = Base + i
  <2> SUFFICES ASSUME NEW i \in pos + 1 .. q PROVE view[i] \in Nat /\ view[i] = Base + i
    OBVIOUS
  <2>1. i \in pos + 1 .. Len(view) /\ i \in 1 .. Len(view)
    BY <1>1
  <2>2. view[i] = Base + i
    BY <1>1, <2>1, Seen
  <2> QED BY <1>1, <2>1, <2>2, ElementOfSeq
<1>3. Len(e.bytes) = q - pos /\ \A i \in 1 .. q - pos : e.bytes[i] = view[pos + i]
  <2>1. /\ Len(SubSeq(view, pos + 1, q)) = IF pos + 1 <= q THEN q - (pos + 1) + 1 ELSE 0
        /\ \A i \in 1 .. q - (pos + 1) + 1 : SubSeq(view, pos + 1, q)[i] = view[pos + 1 + i - 1]
    BY <1>1, <1>2, SubSeqProperties
  <2>2. Len(e.bytes) = q - pos
    BY <1>1, <2>1
  <2>3. \A i \in 1 .. q - pos : e.bytes[i] = view[pos + i]
    <3> SUFFICES ASSUME NEW i \in 1 .. q - pos PROVE e.bytes[i] = view[pos + i]
      OBVIOUS
    <3>1. i \in 1 .. q - (pos + 1) + 1 /\ pos + 1 + i - 1 = pos + i
      BY <1>1
    <3> QED BY <2>1, <3>1
  <2> QED BY <2>2, <2>3
<1>4. \A i \in 1 .. Len(e.bytes) : e.bytes[i] = Base + pos + i
  <2> SUFFICES ASSUME NEW i \in 1 .. Len(e.bytes) PROVE e.bytes[i] = Base + pos + i
    OBVIOUS
  <2>1. pos + i \in pos + 1 .. q
    BY <1>1, <1>3
  <2> QED BY <1>1, <1>2, <1>3, <2>1
<1>5. ValueOf(msg, e.c) = Base + pos + 1 .. Base + q
  BY ValueSeen
<1>6. {e.bytes[i] : i \in 1 .. Len(e.bytes)} = Base + pos + 1 .. Base + q
  <2>1. ASSUME NEW i \in 1 .. Len(e.bytes) PROVE e.bytes[i] \in Base + pos + 1 .. Base + q
    <3>1. i \in 1 .. q - pos
      BY <1>3
    <3>2. Base + pos + i \in Base + pos + 1 .. Base + q
      BY <1>1, <3>1
    <3> QED BY <1>4, <3>2
  <2>2. ASSUME NEW x \in Base + pos + 1 .. Base + q
        PROVE  \E i \in 1 .. Len(e.bytes) : x = e.bytes[i]
    <3>1. x \in Int /\ x - (Base + pos) \in 1 .. Len(e.bytes)
      BY <1>1, <1>3
    <3>2. PICK i \in 1 .. Len(e.bytes) : i = x - (Base + pos)
      BY <3>1
    <3>3. e.bytes[i] = Base + pos + i
      BY <1>4
    <3>4. Base + pos + i = x
      BY <1>1, <3>1, <3>2
    <3> QED BY <3>3, <3>4
  <2> QED BY <2>1, <2>2
<1>7. \A i \in 1 .. Len(e.bytes) - 1 : e.bytes[i] < e.bytes[i + 1]
  <2> SUFFICES ASSUME NEW i \in 1 .. Len(e.bytes) - 1 PROVE e.bytes[i] < e.bytes[i + 1]
    OBVIOUS
  <2>1. i \in 1 .. Len(e.bytes) /\ i + 1 \in 1 .. Len(e.bytes)
    BY <1>1, <1>3
  <2>2. e.bytes[i] = Base + pos + i /\ e.bytes[i + 1] = Base + pos + (i + 1)
    BY <1>4, <2>1
  <2> QED BY <1>1, <2>1, <2>2
<1> QED BY <1>5, <1>6, <1>7 DEF Genuine

(* The walk goes on.                                                       *)
LEMMA AdvanceLocated ==
  ASSUME IInv, Located, pc # "idle", pc' # "idle", resume' = "none",
         NEW p \in pos .. Len(view), Advance(p),
         ~lost => AllGenuine' /\ \A a \in {Base + p} : Placed(a)'
  PROVE  Located'
<1>1. pos' = p /\ UNCHANGED <<view, fed, lost, limit, status>>
  BY DEF Advance, outcome
<1>2. p \in Int /\ Base + p = fed - Len(view) + p
  BY Window DEF Base
<1>3. Consumed' = Base + p
  BY <1>1, <1>2 DEF Consumed
<1>4. ~lost' => \A a \in {Consumed'} : Placed(a)'
  BY <1>1, <1>3
<1>5. CarriedPlace'
  BY DEF CarriedPlace
<1> QED BY <1>1, <1>4, <1>5 DEF Located, StillAwaited

(* The feed returns and keeps what is behind p: the place is p's.          *)
LEMMA RetainKeepsPlace ==
  ASSUME IInv, UNCHANGED fed, NEW p \in pos .. Len(view), NEW r, Retain(p, r), ~lost'
  PROVE  ~lost /\ pc' = "idle" /\ held' = Len(view) - p /\ Consumed' = Base + p
<1>1. /\ p \in Nat /\ pos \in Nat /\ Len(view) \in Nat /\ fed \in Nat /\ p <= Len(view)
      /\ Base = fed - Len(view) /\ pc' = "idle"
  BY Window DEF Base, Retain
<1>2. ~lost /\ rend' - rstart' = Len(view) - p
  <2>1. CASE Len(view) - p = 0
    BY <1>1, <2>1 DEF Retain
  <2>2. CASE Len(view) - p > 0 /\ inPlace
    <3>1. rend = Len(view)
      BY <2>2 DEF IInv, Buffered, Shaped
    <3> QED BY <1>1, <2>2, <3>1 DEF Retain
  <2>3. CASE Len(view) - p > 0 /\ ~inPlace
    BY <1>1, <2>3 DEF Retain
  <2> QED BY <1>1, <2>1, <2>2, <2>3
<1>3. held' = Len(view) - p
  BY <1>2 DEF held
<1> QED BY <1>1, <1>2, <1>3 DEF Consumed

LEMMA RetainLocated ==
  ASSUME IInv, Located, pc # "idle", UNCHANGED <<msg, fed, limit>>,
         NEW p \in pos .. Len(view), NEW r, Retain(p, r),
         ~lost => AllGenuine' /\ \A a \in {Base + p} : Placed(a)',
         ~lost /\ p < Len(view) /\ ~broken' =>
           /\ status' = "INCOMPLETE"
           /\ \E c \in 1 .. Len(Fields[msg]) :
                \/ Base + p + 1 .. fed \subseteq HeaderOf(msg, c)
                \/ /\ Base + p + 1 .. fed \subseteq ValueOf(msg, c)
                   /\ resume' = "visit" \/ pending'.tag = "scalar"
  PROVE  Located'
<1>1. pc' = "idle" /\ ~limit /\ ~limit'
  BY DEF Retain, Located
<1>2. SUFFICES ASSUME ~lost'
               PROVE  /\ AllGenuine' /\ CarriedPlace'
                      /\ \A a \in {Consumed'} : Placed(a)'
  BY <1>1 DEF Located, StillAwaited
<1>3. /\ p \in Nat /\ pos \in Nat /\ Len(view) \in Nat /\ fed \in Nat /\ p <= Len(view)
      /\ Base = fed - Len(view)
  BY Window DEF Base
<1>4. ~lost /\ held' = Len(view) - p /\ fed' = fed /\ Consumed' = Base + p
  BY <1>2, RetainKeepsPlace
<1>5. CarriedPlace'
  <2>1. SUFFICES ASSUME ~broken', held' > 0
                 PROVE  /\ status' = "INCOMPLETE"
                        /\ \E c \in 1 .. Len(Fields'[msg']) :
                             \/ (fed' - held' + 1 .. fed') \subseteq HeaderOf(msg, c)'
                             \/ /\ (fed' - held' + 1 .. fed') \subseteq ValueOf(msg, c)'
                                /\ resume' = "visit" \/ pending'.tag = "scalar"
    BY <1>1 DEF CarriedPlace
  <2>2. p < Len(view) /\ fed' - held' + 1 = Base + p + 1
    BY <1>3, <1>4, <2>1
  <2>3. msg' = msg
    OBVIOUS
  <2>4. \A c : HeaderOf(msg, c)' = HeaderOf(msg, c) /\ ValueOf(msg, c)' = ValueOf(msg, c)
    BY <2>3 DEF HeaderOf, ValueOf, ConstructOf
  <2>5. /\ status' = "INCOMPLETE"
        /\ \E c \in 1 .. Len(Fields[msg]) :
             \/ Base + p + 1 .. fed \subseteq HeaderOf(msg, c)
             \/ /\ Base + p + 1 .. fed \subseteq ValueOf(msg, c)
                /\ resume' = "visit" \/ pending'.tag = "scalar"
    BY <1>4, <2>1, <2>2
  <2> QED BY <1>4, <2>2, <2>3, <2>4, <2>5
<1> QED BY <1>4, <1>5

(* A verdict leaves nothing to be placed.                                  *)
LEMMA RejectLocated ==
  ASSUME IInv, Located, NEW verdict, Reject(verdict)
  PROVE  Located'
<1>1. /\ pc' = "idle" /\ held' = 0 /\ UNCHANGED <<msg, events, lost>>
      /\ limit' \/ status' = "INVALID"
  BY DEF Reject, held
<1>2. ~lost' => AllGenuine'
  BY <1>1, SameEvents DEF Located
<1>3. CarriedPlace'
  BY <1>1 DEF CarriedPlace
<1> QED BY <1>1, <1>2, <1>3 DEF Located, StillAwaited

-----------------------------------------------------------------------------
(* The actions.                                                            *)

(* A feed begins where the last one ended.                                 *)
LEMMA EnterLocated ==
  ASSUME IInv, IInv', Located, Feedable, NEW v, Enter(v), ~lost => Consumed' = fed - held
  PROVE  Located'
<1>1. /\ UNCHANGED <<msg, pending, status, limit, events, lost>> /\ view' = v
      /\ resume' = "visit" => ~ValueReady(v)
  BY DEF Enter
<1>2. pc' # "idle" /\ pc = "idle" /\ ~limit /\ status # "INVALID"
  <2>1. pc' = CASE resume = "none"  -> "walk"
                [] resume = "skip"  -> "skip"
                [] resume = "visit" -> "value"
    BY Zenon DEF Enter
  <2> QED BY <2>1 DEF Feedable, IInv, Framed, FrameTyped
<1>3. pending.bytes \in Nat /\ Len(view') \in Nat /\ pos' \in Nat
  BY LenProperties DEF IInv, Framed, FrameTyped, Pending, Buffered, BytesTyped
<1>4. StillAwaited'
  <2> SUFFICES ASSUME resume' = "visit"
               PROVE  pending'.tag = "payload" /\ Len(view') - pos' < pending'.bytes
    BY DEF StillAwaited
  <2>1. pending.tag = "payload" /\ ~(Len(view') - pos' >= pending.bytes)
    BY <1>1 DEF ValueReady
  <2> QED BY <1>1, <1>3, <2>1
<1>5. ~lost => AllGenuine' /\ \A a \in {Consumed'} : Placed(a)'
  <2> SUFFICES ASSUME ~lost PROVE AllGenuine' /\ \A a \in {Consumed'} : Placed(a)'
    OBVIOUS
  <2>1. \A a \in {fed - held} : Placed(a)
    BY <1>2 DEF Located, Consumed
  <2>2. \A a \in {fed - held} : Placed(a)'
    BY <1>1, <2>1, SamePlaced
  <2>3. AllGenuine'
    BY <1>1, SameEvents DEF Located
  <2> QED BY <2>2, <2>3
<1>6. CarriedPlace'
  BY <1>2 DEF CarriedPlace
<1> QED BY <1>1, <1>2, <1>4, <1>5, <1>6 DEF Located

(* A feed takes up the place of the one before, or refuses the chunk.      *)
LEMMA FeedKeepsPlace ==
  ASSUME IInv, IInv', Feed
  PROVE  \/ Feedable /\ (\E v : Enter(v)) /\ Consumed' = fed - held
         \/ /\ UNCHANGED <<msg, fed, view, pos, pending, depth, skipDepth, resume, status, limit,
                          pc, events, broken, lost>>
            /\ held' = held /\ Consumed' = Consumed
<1>1. PICK n \in 0 .. MaxChunk : FeedAdopt(n) \/ FeedAppend(n) \/ FeedRefuse(n)
  BY DEF Feed
<1>2. /\ n \in Nat /\ fed \in Nat /\ rstart \in Nat /\ rend \in Nat /\ held \in Nat
      /\ HeldFrom(n) \in Nat
  BY BoundsAssumption DEF IInv, Buffered, BytesTyped, Shaped, held, HeldFrom
<1>3. CASE FeedAdopt(n)
  <2>1. /\ Feedable /\ held = 0 /\ fed' = fed + n /\ pos' = 0 /\ Enter(Chunk(n))
        /\ view' = Chunk(n)
    BY <1>3 DEF FeedAdopt, Enter
  <2>2. Len(view') = n
    <3>1. view' \in [1 .. n -> Int]
      BY <1>2, <2>1 DEF Chunk
    <3> QED BY <1>2, <3>1, LenProperties DEF IInv, Buffered, BytesTyped
  <2>3. pc' # "idle"
    BY <2>1 DEF Enter, IInv, Framed, FrameTyped
  <2>4. Consumed' = fed - held
    BY <1>2, <2>1, <2>2, <2>3 DEF Consumed
  <2> QED BY <2>1, <2>4
<1>4. CASE FeedAppend(n)
  <2>1. /\ Feedable /\ fed' = fed + n /\ pos' = HeldFrom(n) /\ inPlace' = TRUE
        /\ rend' = HeldFrom(n) + held + n
        /\ \E v : Enter(v)
    BY <1>4 DEF FeedAppend
  <2>2. Len(view') = rend'
    BY <2>1 DEF IInv, Buffered, Shaped
  <2>3. pc' # "idle"
    BY <2>1 DEF Enter, IInv, Framed, FrameTyped
  <2>4. \A f, h, k, m \in Int : (f + m) - (h + k + m) + h = f - k
    OBVIOUS
  <2>5. Consumed' = (fed + n) - (HeldFrom(n) + held + n) + HeldFrom(n)
    BY <2>1, <2>2, <2>3 DEF Consumed
  <2> QED BY <1>2, <2>1, <2>4, <2>5
<1>5. CASE FeedRefuse(n)
  <2>1. /\ UNCHANGED <<msg, fed, view, pos, pending, depth, skipDepth, resume, status, limit,
                       pc, events, broken, lost>>
        /\ rstart' = HeldFrom(n) /\ rend' = HeldFrom(n) + held
    BY <1>5 DEF FeedRefuse, framing, window
  <2>2. held' = held
    BY <1>2, <2>1 DEF held
  <2> QED BY <2>1, <2>2 DEF Consumed
<1> QED BY <1>1, <1>3, <1>4, <1>5

LEMMA FeedLocated ==
  ASSUME IInv, IInv', Located, Feed
  PROVE  Located'
<1>1. CASE Feedable /\ (\E v : Enter(v)) /\ Consumed' = fed - held
  BY <1>1, EnterLocated
<1>2. CASE /\ UNCHANGED <<msg, fed, view, pos, pending, resume, status, limit, pc, events, broken,
                         lost>>
           /\ held' = held /\ Consumed' = Consumed
  <2>1. StillAwaited' /\ (pc' # "idle" => ~limit')
    BY <1>2 DEF Located, StillAwaited
  <2>2. ~lost => AllGenuine' /\ CarriedPlace'
    <3>1. ~lost => CarriedPlace'
      BY <1>2 DEF Located, CarriedPlace, HeaderOf, ValueOf, ConstructOf
    <3> QED BY <1>2, <3>1, SameEvents DEF Located
  <2>3. ~lost /\ ~limit /\ status # "INVALID" => \A a \in {Consumed'} : Placed(a)'
    BY <1>2, SamePlaced DEF Located
  <2> QED BY <1>2, <2>1, <2>2, <2>3 DEF Located
<1> QED BY <1>1, <1>2, FeedKeepsPlace

LEMMA ResetLocated ==
  ASSUME IInv', Reset
  PROVE  Located'
<1>1. /\ fed' = 0 /\ held' = 0 /\ pending' = NoPending /\ events' = <<>> /\ pc' = "idle"
  BY DEF Reset, held
<1>2. ~limit' /\ StillAwaited' /\ CarriedPlace'
  BY <1>1 DEF Reset, StillAwaited, CarriedPlace
<1>3. AllGenuine'
  BY <1>1 DEF AllGenuine
<1>4. Consumed' = 0
  BY <1>1 DEF Consumed
<1>5. Len(wire') \in Nat
  BY LenProperties, MessagesAssumption DEF IInv, Framed, FrameTyped, wire
<1>6. \A a \in {Consumed'} : Placed(a)'
  BY <1>1, <1>4, <1>5 DEF Placed, NoPending, Boundary
<1> QED BY <1>2, <1>3, <1>6 DEF Located

(* A header that is accepted: what it opens or closes is at its end, a     *)
(* value still to come.                                                    *)
LEMMA HeaderTaken ==
  ASSUME IInv, Located, ~lost, NEW q \in pos + 1 .. Len(view),
         NEW c \in 1 .. Len(Fields[msg]), NEW kinds, Header(q, c, kinds)
  PROVE  /\ Final(HeaderOf(msg, c), Base + q) /\ field(c).kind \in kinds
         /\ field(c).kind \notin Values => Final(ConstructOf(msg, c), Base + q)
         /\ pc # "idle" /\ pending.tag = "none" /\ UNCHANGED msg /\ msg \in Messages
         /\ AllGenuine /\ events \in Seq(Event) /\ c \in Nat
<1>1. /\ AtHeader /\ HeaderEnd(q) /\ c = at(q).c /\ field(c).kind \in kinds /\ UNCHANGED msg
  BY DEF Header, Advance
<1>2. Final(HeaderOf(msg, c), Base + q)
  BY <1>1, HeaderSeen
<1>3. field(c) \in Construct /\ msg \in Messages /\ c \in Nat
  BY FieldTyped, Window DEF IInv
<1>4. pc # "idle" /\ pending.tag = "none"
  BY <1>1 DEF AtHeader, Walking
<1>5. AllGenuine /\ events \in Seq(Event)
  BY DEF Located, IInv, Framed, FrameTyped
<1> QED BY <1>1, <1>2, <1>3, <1>4, <1>5, Announced

(* A sequence opens or closes: the hook gets no bytes.                     *)
LEMMA FrameLocated ==
  ASSUME IInv, Located, NEW q \in pos + 1 .. Len(view), NEW c \in 1 .. Len(Fields[msg]),
         Header(q, c, {"start"}) \/ Header(q, c, {"end"}),
         NEW what \in {"open", "close"}, Heard(c, what, <<>>) \/ UNCHANGED events,
         UNCHANGED <<pending, resume>>, pc' \in {"walk", "skip"}
  PROVE  Located'
<1>1. PICK kinds : Header(q, c, kinds) /\ kinds \in {{"start"}, {"end"}}
  OBVIOUS
<1>2. Advance(q) /\ pc # "idle" /\ pc' # "idle" /\ resume' = "none" /\ q \in pos .. Len(view)
  <2>1. Advance(q) /\ pc \in {"walk", "skip"}
    BY <1>1 DEF Header, AtHeader, Walking
  <2>2. resume' = "none"
    BY <2>1 DEF IInv, Framed, Resumed
  <2>3. q \in pos .. Len(view)
    BY Window
  <2> QED BY <2>1, <2>2, <2>3
<1>3. ASSUME ~lost PROVE AllGenuine' /\ \A a \in {Base + q} : Placed(a)'
  <2>1. /\ Final(ConstructOf(msg, c), Base + q)
        /\ pending'.tag = "none" /\ UNCHANGED msg /\ msg \in Messages
        /\ AllGenuine /\ events \in Seq(Event) /\ c \in Nat
    BY <1>1, <1>3, HeaderTaken DEF Values
  <2>2. \A a \in {Base + q} : Placed(a)'
    BY <2>1, EndPlaced
  <2>3. CASE Heard(c, what, <<>>)
    <3> DEFINE e == [c |-> c, what |-> what, bytes |-> <<>>]
    <3>1. e \in Event /\ events' = Append(events, e) /\ e.bytes = <<>> /\ e.what # "value"
      BY <2>1, <2>3, EmptySeq DEF Event, Heard
    <3> HIDE DEF e
    <3>2. Genuine(e)
      BY <3>1, SilentGenuine
    <3> QED BY <2>1, <2>2, <3>1, <3>2, OneMoreGenuine
  <2>4. CASE UNCHANGED events
    BY <2>1, <2>2, <2>4, SameEvents
  <2> QED BY <2>3, <2>4
<1> QED BY <1>2, <1>3, AdvanceLocated

LEMMA ValueHeaderLocated ==
  ASSUME IInv, Located, ValueHeader
  PROVE  Located'
<1>1. PICK q \in pos + 1 .. Len(view), c \in 1 .. Len(Fields[msg]) :
        /\ Header(q, c, Values)
        /\ pending' = Park(c)
        /\ pc' = IF pc = "walk" /\ field(c).want THEN "value" ELSE pc
        /\ UNCHANGED <<resume, events>>
  BY DEF ValueHeader
<1>2. Advance(q) /\ pc # "idle" /\ pc' # "idle" /\ resume' = "none" /\ q \in pos .. Len(view)
  <2>1. Advance(q) /\ pc \in {"walk", "skip"}
    BY <1>1 DEF Header, AtHeader, Walking
  <2>2. resume' = "none"
    BY <1>1, <2>1 DEF IInv, Framed, Resumed
  <2>3. q \in pos .. Len(view)
    BY Window
  <2> QED BY <1>1, <2>1, <2>2, <2>3
<1>3. ASSUME ~lost PROVE AllGenuine' /\ \A a \in {Base + q} : Placed(a)'
  <2>1. /\ Final(HeaderOf(msg, c), Base + q) /\ field(c).kind \in Values
        /\ UNCHANGED msg /\ AllGenuine
    BY <1>1, <1>3, HeaderTaken
  <2>2. Park(c) \in Pending /\ Park(c).tag \in Values /\ Park(c).c = c
    BY <2>1, ParkTyped DEF IInv, Park
  <2>3. pending' = Park(c) /\ Park(c)' = Park(c) /\ field(c)' = field(c)
    BY <1>1, <2>1 DEF Park, field
  <2>4. pending'.tag \in Values /\ pending'.tag # "none" /\ pending'.c = c
    BY <2>2, <2>3 DEF Values
  <2>5. ASSUME NEW a, a = Base + q PROVE Placed(a)'
    <3>1. /\ Final(HeaderOf(msg', pending'.c), a) /\ pending'.c \in 1 .. Len(Fields[msg'])
      BY <2>1, <2>4, <2>5
    <3>2. \A d : d = c => Park(d)' = pending' /\ field(d)'.kind \in Values
      BY <2>1, <2>3
    <3>3. Park(pending.c)' = pending' /\ field(pending.c)'.kind \in Values
      BY <2>1, <2>3, <2>4 DEF Park, field
    <3> QED BY <2>4, <3>1, <3>3 DEF Placed
  <2> QED BY <1>1, <2>1, <2>5, SameEvents
<1> QED BY <1>2, <1>3, AdvanceLocated

LEMMA SkipScalarLocated ==
  ASSUME IInv, Located, SkipScalar
  PROVE  Located'
<1>1. pc # "idle" /\ pending.tag = "scalar" /\ pending.tag \in Values /\ resume = "none"
  BY DEF SkipScalar, Walking, Values, IInv, Framed, Resumed
<1>2. CASE Reject("INVALID")
  BY <1>2, RejectLocated
<1>3. ASSUME NEW q \in pos + 1 .. Len(view), EndsAt(pos, 1, q), Advance(q),
             pending' = NoPending, UNCHANGED <<resume, pc, events>>
      PROVE  Located'
  <2>1. q \in pos .. Len(view) /\ UNCHANGED msg /\ pending'.tag = "none" /\ msg \in Messages
    BY <1>3, Window DEF Advance, NoPending
  <2>2. ASSUME ~lost PROVE AllGenuine' /\ \A a \in {Base + q} : Placed(a)'
    <3>1. ValueEnd(q)
      BY <1>1, <1>3, <2>2, ValuePlace DEF ValueEnd
    <3>2. Final(ConstructOf(msg, pending.c), Base + q)
      BY <1>1, <2>1, <2>2, <3>1, ValueSeen
    <3>3. PICK c : c = pending.c
      OBVIOUS
    <3> QED BY <1>3, <2>1, <2>2, <3>2, <3>3, EndPlaced, SameEvents DEF Located
  <2> QED BY <1>1, <1>3, <2>1, <2>2, AdvanceLocated
<1>4. ASSUME Ends(pos) = {}, Suspend, UNCHANGED <<msg, fed, pending, events>>
      PROVE  Located'
  <2>1. /\ Retain(pos, "INCOMPLETE") /\ status' = "INCOMPLETE" /\ UNCHANGED <<limit, broken>>
        /\ pos \in pos .. Len(view)
    BY <1>4, Window DEF Suspend, RunOut
  <2>2. ASSUME ~lost PROVE AllGenuine' /\ \A a \in {Base + pos} : Placed(a)'
    BY <1>1, <1>4, <2>2, PlaceNow, SamePlaced, SameEvents
  <2>3. ASSUME ~lost
        PROVE  \E c \in 1 .. Len(Fields[msg]) : Base + pos + 1 .. fed \subseteq ValueOf(msg, c)
    <3>1. \A q \in pos .. Len(view) : ~EndsAt(pos, pending.vars, q)
      BY <1>1, <1>4, <2>3, ValuePlace DEF EndsAt
    <3> QED BY <1>1, <2>3, <3>1, ValueCut
  <2>4. pending'.tag = "scalar"
    BY <1>1, <1>4
  <2> QED BY <1>1, <1>4, <2>1, <2>2, <2>3, <2>4, RetainLocated
<1> QED BY <1>2, <1>3, <1>4 DEF SkipScalar

LEMMA DiscardLocated ==
  ASSUME IInv, Located, Discard
  PROVE  Located'
<1>1. /\ pc # "idle" /\ pending.tag \in {"payload", "varints"} /\ pending.tag \in Values
      /\ pending' = [pending EXCEPT !.tag = "discard", !.capped = FALSE]
      /\ UNCHANGED <<msg, fed, view, pos, resume, limit, status, pc, events, lost>>
  BY DEF Discard, Walking, Values, window, outcome
<1>2. /\ pending'.tag = "discard" /\ pending'.c = pending.c /\ pending'.bytes = pending.bytes
      /\ pending'.vars = pending.vars
  BY <1>1 DEF IInv, Framed, FrameTyped, Pending
<1>3. StillAwaited' /\ CarriedPlace' /\ ~limit'
  BY <1>1 DEF StillAwaited, CarriedPlace, Located, Discard, Walking
<1>4. Consumed' = Base + pos
  <2>1. Consumed' = Consumed
    BY <1>1 DEF Consumed
  <2> QED BY <1>1, <2>1, Window
<1>5. ASSUME ~lost PROVE AllGenuine' /\ \A a \in {Base + pos} : Placed(a)'
  <2>1. PICK a : a = Base + pos
    OBVIOUS
  <2>2. a \in Int
    BY <2>1, Window
  <2>3. /\ pending.c \in 1 .. Len(Fields[msg]) /\ Final(HeaderOf(msg, pending.c), a)
        /\ pending.bytes \in Nat
        /\ IF pending.tag = "payload" THEN Final(ConstructOf(msg, pending.c), a + pending.bytes)
                                      ELSE Left(a, pending.c, pending.vars)
        /\ pending.tag = "payload" => pending.vars = 0
        /\ pending.tag = "varints" => pending.bytes = 0
    BY <1>1, <1>5, <2>1, ValuePlace
  <2>4. a \in 1 .. Len(wire)
    BY <2>3 DEF Final, HeaderOf, ConstructOf, wire
  <2>5. pending.bytes = 0 => Left(a, pending.c, pending.vars)
    <3>1. SUFFICES ASSUME pending.tag = "payload", pending.bytes = 0
                   PROVE  Left(a, pending.c, 0)
      BY <1>1, <2>3
    <3>2. Final(ConstructOf(msg, pending.c), a)
      BY <2>2, <2>3, <3>1
    <3>3. EndsIn(a, a) = {}
      BY <2>2 DEF EndsIn
    <3>4. Cardinality(EndsIn(a, a)) = 0
      BY <3>3, FS_EmptySet
    <3> QED BY <2>2, <2>4, <3>2, <3>4 DEF Left
  <2>6. /\ pending.bytes > 0 => Final(ConstructOf(msg, pending.c), a + pending.bytes)
        /\ pending.bytes > 0 \/ pending.bytes = 0
    BY <1>1, <2>3
  <2>7. /\ pending'.c \in 1 .. Len(Fields[msg']) /\ a \in 1 .. Len(wire)'
        /\ pending'.bytes > 0 => Final(ConstructOf(msg, pending.c), a + pending.bytes)'
        /\ pending'.bytes = 0 => Left(a, pending.c, pending.vars)'
        /\ pending'.bytes > 0 \/ pending'.bytes = 0
    BY <1>1, <1>2, <2>3, <2>4, <2>5, <2>6 DEF Left, EndsIn, Final, ConstructOf, wire
  <2> QED BY <1>1, <1>2, <1>5, <2>1, <2>7, SameEvents DEF Placed, Located
<1> QED BY <1>1, <1>3, <1>4, <1>5 DEF Located

LEMMA DrainLocated ==
  ASSUME IInv, Located, DrainBytes \/ DrainVarints
  PROVE  Located'
<1>1. pc # "idle" /\ pending.tag = "discard" /\ resume = "none" /\ pending \in Pending
  BY DEF DrainBytes, DrainVarints, Walking, IInv, Framed, FrameTyped, Resumed
<1>2. /\ Base \in Int /\ pos \in Nat /\ Len(view) \in Nat /\ pos <= Len(view) /\ fed \in Nat
      /\ Base + Len(view) = fed /\ fed <= Len(wire) /\ Len(wire) \in Nat /\ msg \in Messages
      /\ pending.bytes \in Nat /\ pending.vars \in Nat
  BY <1>1, Window DEF Pending
<1>3. ~lost => /\ Base + pos >= 0 /\ Base + pos \in 1 .. Len(wire) /\ AllGenuine
               /\ pending.c \in 1 .. Len(Fields[msg])
               /\ pending.bytes > 0 => Final(ConstructOf(msg, pending.c), Base + pos + pending.bytes)
               /\ pending.bytes = 0 => Left(Base + pos, pending.c, pending.vars)
  <2> SUFFICES ASSUME ~lost
               PROVE  /\ Base + pos >= 0 /\ Base + pos \in 1 .. Len(wire) /\ AllGenuine
                      /\ pending.c \in 1 .. Len(Fields[msg])
                      /\ pending.bytes > 0 =>
                           Final(ConstructOf(msg, pending.c), Base + pos + pending.bytes)
                      /\ pending.bytes = 0 => Left(Base + pos, pending.c, pending.vars)
    OBVIOUS
  <2>1. Placed(Base + pos) /\ AllGenuine /\ Base + pos \in Nat
    BY <1>1, PlaceNow
  <2> QED BY <1>1, <1>2, <2>1 DEF Placed, Values
(* All of it dropped ...                                                   *)
<1>4. ASSUME NEW q \in pos .. Len(view), Advance(q), pending' = NoPending,
             UNCHANGED <<resume, pc, events>>,
             ~lost => Final(ConstructOf(msg, pending.c), Base + q)
      PROVE  Located'
  <2>1. UNCHANGED msg /\ pending'.tag = "none"
    BY <1>4 DEF Advance, NoPending
  <2>2. ASSUME ~lost PROVE AllGenuine' /\ \A a \in {Base + q} : Placed(a)'
    <3>1. PICK c : c = pending.c
      OBVIOUS
    <3> QED BY <1>2, <1>3, <1>4, <2>1, <2>2, <3>1, EndPlaced, SameEvents
  <2> QED BY <1>1, <1>4, <2>2, AdvanceLocated
(* ... or what the chunk had of it.                                        *)
<1>5. ASSUME RunOut(Len(view)), UNCHANGED <<msg, fed, events>>,
             pending'.tag = "discard", pending'.c = pending.c,
             ~lost => \/ /\ pending'.bytes > 0
                         /\ \A a : a = fed + pending'.bytes => Final(ConstructOf(msg, pending.c), a)
                      \/ /\ pending'.bytes = 0
                         /\ \A n : n = pending'.vars => Left(fed, pending.c, n)
      PROVE  Located'
  <2>1. /\ Retain(Len(view), "INCOMPLETE") /\ status' = "INCOMPLETE" /\ UNCHANGED <<limit, broken>>
        /\ Len(view) \in pos .. Len(view)
    BY <1>2, <1>5 DEF RunOut
  <2>2. ASSUME ~lost PROVE AllGenuine' /\ \A a \in {Base + Len(view)} : Placed(a)'
    <3>1. fed \in 1 .. Len(wire)
      BY <1>2, <1>3, <2>2
    <3>2. PICK a, c : a = fed /\ c = pending.c
      OBVIOUS
    <3>3. pending'.c \in 1 .. Len(Fields[msg']) /\ a \in 1 .. Len(wire')
      BY <1>3, <1>5, <2>2, <3>1, <3>2 DEF wire
    <3>4. AllGenuine'
      BY <1>3, <1>5, <2>2, SameEvents
    <3>5. CASE /\ pending'.bytes > 0
               /\ \A x : x = fed + pending'.bytes => Final(ConstructOf(msg, pending.c), x)
      <4>1. Final(ConstructOf(msg', pending'.c), a + pending'.bytes)
        BY <1>5, <3>2, <3>5
      <4> QED BY <1>2, <1>5, <3>2, <3>3, <3>4, <3>5, <4>1 DEF Placed
    <3>6. CASE /\ pending'.bytes = 0
               /\ \A n : n = pending'.vars => Left(fed, pending.c, n)
      <4>1. PICK n : n = pending'.vars
        OBVIOUS
      <4>2. Left(a, c, n)
        BY <3>2, <3>6, <4>1
      <4>3. Left(a, c, n)'
        BY <1>5, <4>2 DEF Left, EndsIn, Final, ConstructOf, wire
      <4>4. Left(a, pending.c, pending.vars)'
        BY <1>5, <3>2, <4>1, <4>3 DEF Left, Final
      <4>5. Placed(a)'
        BY <1>5, <3>3, <3>6, <4>4 DEF Placed
      <4> QED BY <1>2, <3>2, <3>4, <4>5
    <3> QED BY <1>5, <2>2, <3>5, <3>6
  <2> QED BY <1>1, <1>5, <2>1, <2>2, RetainLocated
<1>6. CASE DrainBytes
  <2>1. CASE /\ pending.bytes > 0 /\ pos + pending.bytes <= Len(view)
             /\ Advance(pos + pending.bytes)
             /\ pending' = NoPending /\ UNCHANGED <<resume, pc, events>>
    <3>1. PICK q : q = pos + pending.bytes
      OBVIOUS
    <3>2. q \in pos .. Len(view) /\ Base + q = Base + pos + pending.bytes /\ Advance(q)
      <4>1. Advance(q)
        BY <2>1, <3>1
      <4>2. q \in pos .. Len(view)
        BY <1>2, <2>1, <3>1
      <4>3. Base + q = Base + pos + pending.bytes
        BY <1>2, <3>1
      <4> QED BY <4>1, <4>2, <4>3
    <3> QED BY <1>3, <1>4, <2>1, <3>2
  <2>2. CASE /\ pending.bytes > 0 /\ pos + pending.bytes > Len(view)
             /\ RunOut(Len(view))
             /\ pending' = [pending EXCEPT !.bytes = Undrained]
             /\ UNCHANGED <<msg, fed, events>>
    <3>1. /\ pending'.tag = "discard" /\ pending'.c = pending.c
          /\ pending'.bytes = pending.bytes - (Len(view) - pos)
      BY <1>1, <2>2 DEF Pending, Undrained
    <3>2. pending'.bytes > 0 /\ fed + pending'.bytes = Base + pos + pending.bytes
      BY <1>2, <2>2, <3>1
    <3> QED BY <1>3, <1>5, <2>2, <3>1, <3>2
  <2> QED BY <1>6, <2>1, <2>2 DEF DrainBytes
<1>7. CASE DrainVarints
  <2>1. CASE Reject("INVALID")
    BY <2>1, RejectLocated
  <2>2. ASSUME NEW q \in pos .. Len(view), EndsAt(pos, pending.vars, q), Advance(q),
               pending' = NoPending, UNCHANGED <<resume, pc, events>>
        PROVE  Located'
    <3>1. pending.bytes = 0
      BY <1>7 DEF DrainVarints
    <3>2. ~lost => Final(ConstructOf(msg, pending.c), Base + q)
      BY <1>2, <1>3, <2>2, <3>1, LeftEnds
    <3> QED BY <1>4, <2>2, <3>2
  <2>3. CASE /\ Cardinality(Ends(pos)) < pending.vars
             /\ RunOut(Len(view))
             /\ pending' = [pending EXCEPT !.vars = @ - Cardinality(Ends(pos)), !.vb = InFlight]
             /\ UNCHANGED <<msg, fed, events>>
    <3>1. /\ pending'.tag = "discard" /\ pending'.c = pending.c /\ pending'.bytes = pending.bytes
          /\ pending'.vars = pending.vars - Cardinality(Ends(pos))
      BY <1>1, <2>3 DEF Pending
    <3>2. pending'.bytes = 0 /\ pending.bytes = 0
      BY <1>7, <3>1 DEF DrainVarints
    <3>3. ~lost => Left(fed, pending.c, pending.vars - Cardinality(Ends(pos)))
      BY <1>2, <1>3, <2>3, <3>2, LeftDropped
    <3> QED BY <1>5, <2>3, <3>1, <3>2, <3>3
  <2> QED BY <1>7, <2>1, <2>2, <2>3 DEF DrainVarints
<1> QED BY <1>6, <1>7

LEMMA TakeLocated ==
  ASSUME IInv, Located, TakeValue
  PROVE  Located'
<1>1. PICK q \in pos .. Len(view) :
        /\ ValueEnd(q)
        /\ Heard(pending.c, "value", SubSeq(view, pos + 1, q))
        /\ \/ Advance(q) /\ pc' = "walk"
           \/ /\ Retain(q, "RAISED") /\ broken' = TRUE
              /\ UNCHANGED <<msg, fed, status, limit>>
  BY DEF TakeValue
<1>2. /\ pc # "idle" /\ pending.tag \in Values /\ resume' = "none" /\ pending'.tag = "none"
      /\ UNCHANGED msg
  BY <1>1 DEF TakeValue, Reading, NoPending, Advance, IInv, Framed, SkipLevel
<1>3. ASSUME ~lost PROVE AllGenuine' /\ \A a \in {Base + q} : Placed(a)'
  <2>1. Final(ConstructOf(msg, pending.c), Base + q) /\ msg \in Messages
    BY <1>1, <1>2, <1>3, ValueSeen, Window
  <2>2. PICK c : c = pending.c
    OBVIOUS
  <2>3. \A a \in {Base + q} : Placed(a)'
    BY <1>2, <2>1, <2>2, EndPlaced
  <2>4. PICK e : e = [c |-> pending.c, what |-> "value", bytes |-> SubSeq(view, pos + 1, q)]
    OBVIOUS
  <2>5. /\ e.c = pending.c /\ e.what = "value" /\ e.bytes = SubSeq(view, pos + 1, q)
        /\ events' = Append(events, e)
    BY <1>1, <2>4 DEF Heard
  <2>6. Genuine(e)
    BY <1>1, <1>2, <1>3, <2>5, ValueGenuine
  <2>7. e \in Event
    <3>1. /\ view \in Seq(Nat) /\ pos \in Nat /\ q \in Int /\ Len(view) \in Nat /\ q <= Len(view)
          /\ pending.c \in Nat
      BY Window DEF IInv, Framed, FrameTyped, Pending
    <3>2. \A i \in pos + 1 .. q : view[i] \in Nat
      BY <3>1, ElementOfSeq
    <3>3. SubSeq(view, pos + 1, q) \in Seq(Nat)
      BY <3>1, <3>2, SubSeqProperties
    <3> QED BY <2>4, <3>1, <3>3 DEF Event
  <2> QED BY <1>2, <1>3, <2>3, <2>5, <2>6, <2>7, OneMoreGenuine
          DEF Located, IInv, Framed, FrameTyped
<1>4. CASE Advance(q) /\ pc' = "walk"
  BY <1>2, <1>3, <1>4, AdvanceLocated
<1>5. CASE Retain(q, "RAISED") /\ broken' = TRUE /\ UNCHANGED <<msg, fed, status, limit>>
  BY <1>2, <1>3, <1>5, RetainLocated
<1> QED BY <1>1, <1>4, <1>5

LEMMA WalkLocated ==
  ASSUME IInv, Located, Walk
  PROVE  Located'
<1>1. pos \in Nat /\ Len(view) \in Nat /\ pos <= Len(view) /\ pos \in pos .. Len(view) /\ keep = pos
  BY Window
(* A feed that changes nothing but its return.                             *)
<1>2. ASSUME pc # "idle", NEW r, Retain(pos, r), UNCHANGED <<msg, fed, limit, pending, events>>,
             ~lost /\ pos < Len(view) =>
               /\ status' = "INCOMPLETE"
               /\ \E c \in 1 .. Len(Fields[msg]) :
                    \/ Base + pos + 1 .. fed \subseteq HeaderOf(msg, c)
                    \/ /\ Base + pos + 1 .. fed \subseteq ValueOf(msg, c)
                       /\ resume' = "visit" \/ pending'.tag = "scalar"
      PROVE  Located'
  <2>1. ASSUME ~lost PROVE AllGenuine' /\ \A a \in {Base + pos} : Placed(a)'
    BY <1>2, <2>1, PlaceNow, SamePlaced, SameEvents
  <2> QED BY <1>1, <1>2, <2>1, RetainLocated
<1>3. CASE StillShort
  <2>1. /\ pc = "value" /\ resume' = "visit" /\ Retain(pos, "INCOMPLETE") /\ status' = "INCOMPLETE"
        /\ UNCHANGED <<msg, fed, limit, pending, events>>
    BY <1>3 DEF StillShort, RunOut, framing
  <2>2. pending.tag = "payload" /\ pending.tag \in Values /\ Len(view) - pos < pending.bytes
    BY <1>3 DEF StillShort, Located, StillAwaited, Values
  <2>3. ~lost =>
          \E c \in 1 .. Len(Fields[msg]) : Base + pos + 1 .. fed \subseteq ValueOf(msg, c)
    BY <2>1, <2>2, ValueCut
  <2> QED BY <1>2, <2>1, <2>3
<1>4. CASE CleanEnd
  <2>1. /\ pc # "idle" /\ Retain(pos, "COMPLETE") /\ pos = Len(view)
        /\ UNCHANGED <<msg, fed, limit, pending, events>>
    BY <1>4 DEF CleanEnd, AtHeader, Walking, framing
  <2> QED BY <1>1, <1>2, <2>1
<1>5. CASE HeaderShort
  <2>1. /\ pc # "idle" /\ Retain(pos, "INCOMPLETE") /\ status' = "INCOMPLETE"
        /\ UNCHANGED <<msg, fed, limit, pending, events>> /\ AtHeader /\ Ends(pos) = {}
    BY <1>1, <1>5 DEF HeaderShort, AtHeader, Walking, Suspend, RunOut
  <2> QED BY <1>2, <2>1, HeaderCut
<1>6. CASE ValueShort
  <2>1. /\ pc = "value" /\ resume' = "visit" /\ Retain(pos, "INCOMPLETE") /\ status' = "INCOMPLETE"
        /\ UNCHANGED <<msg, fed, limit, pending, events>>
        /\ \A q \in pos .. Len(view) : ~ValueEnd(q)
    BY <1>1, <1>6 DEF ValueShort, Reading, Suspend, RunOut
  <2>2. pending.tag \in Values /\ pending.bytes \in Nat
    BY <2>1 DEF IInv, Framed, FrameTyped, Pending, SkipLevel
  <2>3. IF pending.tag = "payload" THEN Len(view) - pos < pending.bytes
        ELSE \A q \in pos .. Len(view) : ~EndsAt(pos, pending.vars, q)
    <3>1. CASE pending.tag = "payload"
      <4>1. pos + pending.bytes \notin pos .. Len(view)
        BY <2>1, <3>1 DEF ValueEnd
      <4> QED BY <1>1, <2>2, <3>1, <4>1
    <3>2. CASE pending.tag # "payload"
      BY <2>1, <3>2 DEF ValueEnd
    <3> QED BY <3>1, <3>2
  <2>4. ~lost =>
          \E c \in 1 .. Len(Fields[msg]) : Base + pos + 1 .. fed \subseteq ValueOf(msg, c)
    BY <2>1, <2>2, <2>3, ValueCut
  <2> QED BY <1>2, <2>1, <2>4
<1>7. CASE HeaderInvalid \/ OverCap \/ ValueInvalid
  BY <1>7, RejectLocated DEF HeaderInvalid, OverCap, ValueInvalid
<1>8. CASE SequenceStart
  <2>1. PICK q \in pos + 1 .. Len(view), c \in 1 .. Len(Fields[msg]) :
          /\ Header(q, c, {"start"}) /\ UNCHANGED <<pending, resume>>
          /\ Heard(c, "open", <<>>) \/ UNCHANGED events
          /\ pc' \in {"walk", "skip"}
    BY <1>8 DEF SequenceStart
  <2> QED BY <2>1, FrameLocated
<1>9. CASE SequenceEnd
  <2>1. PICK q \in pos + 1 .. Len(view), c \in 1 .. Len(Fields[msg]) :
          /\ Header(q, c, {"end"}) /\ UNCHANGED <<pending, resume>>
          /\ Heard(c, "close", <<>>) \/ UNCHANGED events
          /\ pc' \in {"walk", "skip"}
    BY <1>9 DEF SequenceEnd
  <2> QED BY <2>1, FrameLocated
<1> QED BY <1>3, <1>4, <1>5, <1>6, <1>7, <1>8, <1>9, SkipScalarLocated, DiscardLocated,
           DrainLocated, ValueHeaderLocated, TakeLocated DEF Walk

-----------------------------------------------------------------------------
(* The theorems.                                                           *)

LEMMA InitLocated == Init => Located
<1> SUFFICES ASSUME Init PROVE Located
  OBVIOUS
<1>1. /\ fed = 0 /\ held = 0 /\ pending.tag = "none" /\ events = <<>> /\ pc = "idle" /\ ~limit
      /\ msg \in Messages
  BY DEF Init, held, NoPending
<1>2. Consumed = 0 /\ Len(wire) \in Nat
  BY <1>1, WireTyped DEF Consumed
<1>3. Placed(0)
  BY <1>1, <1>2 DEF Placed, Boundary
<1> QED BY <1>1, <1>2, <1>3 DEF Located, StillAwaited, CarriedPlace, AllGenuine

LEMMA NextLocated == IInv /\ Located /\ [Next]_vars => Located'
<1> SUFFICES ASSUME IInv, Located, [Next]_vars PROVE Located'
  OBVIOUS
<1>1. IInv'
  BY NextIInv
<1>2. CASE UNCHANGED vars
  <2>1. UNCHANGED <<msg, fed, rbuf, rstart, rend, view, pos, pending, resume, status, limit, pc,
                    events, broken, lost>>
    BY <1>2 DEF vars, buffer, window, framing, outcome
  <2>2. held' = held /\ Consumed' = Consumed
    BY <2>1 DEF held, Consumed
  <2>3. StillAwaited' /\ (pc' # "idle" => ~limit')
    BY <2>1 DEF Located, StillAwaited
  <2>4. ~lost => AllGenuine' /\ CarriedPlace'
    <3>1. ~lost => CarriedPlace'
      BY <2>1, <2>2 DEF Located, CarriedPlace, HeaderOf, ValueOf, ConstructOf
    <3> QED BY <2>1, <3>1, SameEvents DEF Located
  <2>5. ~lost /\ ~limit /\ status # "INVALID" => \A a \in {Consumed'} : Placed(a)'
    BY <2>1, <2>2, SamePlaced DEF Located
  <2> QED BY <2>1, <2>3, <2>4, <2>5 DEF Located
<1> QED BY <1>1, <1>2, FeedLocated, WalkLocated, ResetLocated DEF Next

THEOREM CursorPlaced == Spec => []Located
  BY InitIInv, NextIInv, InitLocated, NextLocated, PTL DEF Spec

(* No fabricated field: whatever the message, the buffer and the chunks,   *)
(* every value handed to a hook was built from exactly the bytes its       *)
(* sender wrote for that field, in order, as long as no carry was refused. *)
(* This is what the rewind of feed, _suspend and _retain is for.           *)
THEOREM FieldsGenuine == Spec => []NoFabricatedField
<1>1. Located => NoFabricatedField
  BY DEF Located, NoFabricatedField
<1> QED BY <1>1, CursorPlaced, PTL

(* The reassembly buffer never holds anything but one construct in flight: *)
(* a header, a value the handler waits for, or a skipped scalar.  What     *)
(* _drain_discard drops never enters it, however long it is.               *)
THEOREM CarriesOnlyInFlight == Spec => []CarriesConstructInFlight
<1>1. IInv /\ Located => CarriesConstructInFlight
  <2> SUFFICES ASSUME IInv, Located, pc = "idle", ~broken, ~lost, held > 0
               PROVE  /\ status = "INCOMPLETE" /\ ~limit
                      /\ \E c \in Meaning!Index(msg) :
                           /\ Carried \subseteq Meaning!Of(msg, c)
                           /\ \/ Carried \subseteq Meaning!OfItem(msg, c, 0)
                              \/ Carried \cap Meaning!OfItem(msg, c, 0) = {}
                                 /\ (resume = "visit" \/ pending.tag = "scalar")
    BY DEF CarriesConstructInFlight
  <2>1. /\ status = "INCOMPLETE" /\ ~limit
        /\ \E c \in 1 .. Len(Fields[msg]) :
             \/ fed - held + 1 .. fed \subseteq HeaderOf(msg, c)
             \/ /\ fed - held + 1 .. fed \subseteq ValueOf(msg, c)
                /\ resume = "visit" \/ pending.tag = "scalar"
    BY DEF Located, CarriedPlace
  <2>2. Carried \subseteq fed - held + 1 .. fed
    <3>1. \A i \in rstart + 1 .. rend : rbuf[i] = fed - rend + i
      BY DEF IInv, Buffered, InOrder
    <3>2. fed \in Nat /\ rstart \in Nat /\ rend \in Nat
      BY DEF IInv, Buffered, BytesTyped
    <3>3. \A i \in rstart + 1 .. rend : rbuf[i] \in fed - held + 1 .. fed
      BY <3>1, <3>2 DEF held
    <3> QED BY <3>3 DEF Carried
  <2>3. PICK c \in 1 .. Len(Fields[msg]) :
          \/ Carried \subseteq HeaderOf(msg, c)
          \/ /\ Carried \subseteq ValueOf(msg, c)
             /\ resume = "visit" \/ pending.tag = "scalar"
    BY <2>1, <2>2
  <2>4. /\ HeaderOf(msg, c) \subseteq Meaning!Of(msg, c)
        /\ ValueOf(msg, c) \subseteq Meaning!Of(msg, c)
        /\ HeaderOf(msg, c) = Meaning!OfItem(msg, c, 0)
        /\ ValueOf(msg, c) \cap Meaning!OfItem(msg, c, 0) = {}
    <3>1. Meaning!Of(msg, c) = ConstructOf(msg, c)
      BY DEF Meaning!Of, ConstructOf
    <3>2. Meaning!OfItem(msg, c, 0) = HeaderOf(msg, c)
      BY <3>1 DEF Meaning!OfItem, HeaderOf
    <3>3. ValueOf(msg, c) \cap HeaderOf(msg, c) = {}
      BY DEF ValueOf, HeaderOf
    <3> QED BY <3>1, <3>2, <3>3 DEF ValueOf, HeaderOf
  <2>5. c \in Meaning!Index(msg)
    BY DEF Meaning!Index
  <2> QED BY <2>1, <2>3, <2>4, <2>5
<1> QED BY <1>1, Invariance, CursorPlaced, PTL

-----------------------------------------------------------------------------
(* What the handler has heard is what the message says, as long as no      *)
(* verdict is given: each construct the handler takes is heard once, in    *)
(* order, by the feed that brings its last byte, nothing of a declined     *)
(* sequence is, and COMPLETE is answered exactly when nothing is open.     *)
(* Meaning speaks of the whole message; the invariant ties the decoder's   *)
(* depth, skip level and hook calls to it at the cursor.                   *)

(* The construct that byte a belongs to: how many have begun by then.      *)
Begun(m, a) == IF a = 0 THEN 0 ELSE Bytes[m][a].c

Open(m, k) == Meaning!OpenAfter(m, k)

(* Start s was declined, and its sequence is open after k constructs.      *)
Declined(m, s, k) ==
  /\ Fields[m][s].kind = "start" /\ ~Fields[m][s].want
  /\ \A e \in s .. k : Open(m, e) > Open(m, s - 1)

(* After k constructs level sd is where the skip under way ends, and that  *)
(* is the level of the outermost declined sequence; -1 is for none.        *)
SkipKnown(m, k, sd) ==
  /\ sd >= 0 <=> \E s \in 1 .. k : Declined(m, s, k)
  /\ sd >= 0 => /\ \E s \in 1 .. k : Declined(m, s, k) /\ Open(m, s - 1) = sd
                /\ \A s \in 1 .. k : Declined(m, s, k) => Open(m, s - 1) >= sd

(* The pending value, if the handler waits for it.                         *)
Awaited ==
  IF pending.tag # "none" /\ (pc = "value" \/ resume = "visit") THEN {pending.c} ELSE {}

(* What was heard of k constructs that have begun.                         *)
Named(heard) == {heard[i].c : i \in 1 .. Len(heard)}
Told(m, k, awaited, heard) ==
  /\ awaited \subseteq {c \in 1 .. k : Meaning!Heard(m, c)}
  /\ Named(heard) = {c \in 1 .. k : Meaning!Heard(m, c)} \ awaited
  /\ \A i, j \in 1 .. Len(heard) : i < j => heard[i].c < heard[j].c

(* Every construct that ends in the first n bytes is done with.            *)
Exhausted(m, k, awaited, n) ==
  \A c \in 1 .. Len(Fields[m]) : \A e \in 1 .. n :
    Final(ConstructOf(m, c), e) => c <= k /\ c \notin awaited

Whole(m, n) ==
  n = 0 \/ \E c \in 1 .. Len(Fields[m]) : Final(ConstructOf(m, c), n) /\ Open(m, c) = 0

(* The decoder at stream position a.                                       *)
Follows(a) ==
  /\ pending.tag # "none" => /\ a \in 1 .. Len(wire) /\ wire[a].c = pending.c
                             /\ Awaited = {} => ~Meaning!Heard(msg, pending.c)
  /\ depth = Open(msg, Begun(msg, a))
  /\ SkipKnown(msg, Begun(msg, a), skipDepth)
  /\ Told(msg, Begun(msg, a), Awaited, events)
  /\ pc = "idle" /\ ~broken => /\ Exhausted(msg, Begun(msg, a), Awaited, fed)
                               /\ status = "COMPLETE" <=> Whole(msg, fed)

Listening ==
  ~lost /\ ~limit /\ status # "INVALID" => \A a \in {Consumed} : Follows(a)

-----------------------------------------------------------------------------
(* How the nesting and a skip go on from one construct to the next.        *)

LEMMA SameCount == \A S : Meaning!Cardinality(S) = Cardinality(S)
  BY SMT DEF Meaning!Cardinality, Cardinality

LEMMA OpenStep ==
  ASSUME NEW m \in Messages, NEW k \in Nat
  PROVE  /\ Open(m, 0) = 0 /\ Open(m, k) \in Int /\ Open(m, k + 1) \in Int
         /\ Fields[m][k + 1].kind = "start" => Open(m, k + 1) = Open(m, k) + 1
         /\ Fields[m][k + 1].kind = "end" => Open(m, k + 1) = Open(m, k) - 1
         /\ Fields[m][k + 1].kind \notin {"start", "end"} => Open(m, k + 1) = Open(m, k)
<1> DEFINE Of(n, kind) == {d \in 1 .. n : Fields[m][d].kind = kind}
<1>1. ASSUME NEW n \in Nat, NEW kind
      PROVE  IsFiniteSet(Of(n, kind)) /\ Cardinality(Of(n, kind)) \in Nat
  <2>1. Of(n, kind) \subseteq 1 .. n /\ IsFiniteSet(1 .. n)
    BY <1>1, FS_Interval
  <2> HIDE DEF Of
  <2> QED BY <2>1, FS_Subset, FS_CardinalityType
<1>2. ASSUME NEW kind
      PROVE  Cardinality(Of(k + 1, kind)) =
               Cardinality(Of(k, kind)) + IF Fields[m][k + 1].kind = kind THEN 1 ELSE 0
  <2>1. CASE Fields[m][k + 1].kind = kind
    <3>1. Of(k + 1, kind) = Of(k, kind) \cup {k + 1} /\ k + 1 \notin Of(k, kind)
      BY <2>1
    <3> HIDE DEF Of
    <3> QED BY <1>1, <2>1, <3>1, FS_AddElement
  <2>2. CASE Fields[m][k + 1].kind # kind
    <3>1. Of(k + 1, kind) = Of(k, kind)
      BY <2>2
    <3> HIDE DEF Of
    <3> QED BY <1>1, <2>2, <3>1
  <2> QED BY <2>1, <2>2
<1>3. \A n : Open(m, n) = Cardinality(Of(n, "start")) - Cardinality(Of(n, "end"))
  BY SameCount DEF Open, Meaning!OpenAfter
<1>4. Of(0, "start") = {} /\ Of(0, "end") = {}
  OBVIOUS
<1> HIDE DEF Of
<1>5. Open(m, 0) = 0
  BY <1>3, <1>4, FS_EmptySet
<1>6. /\ Cardinality(Of(k, "start")) \in Nat /\ Cardinality(Of(k, "end")) \in Nat
      /\ Cardinality(Of(k + 1, "start")) \in Nat /\ Cardinality(Of(k + 1, "end")) \in Nat
  BY <1>1
<1> QED BY <1>2, <1>3, <1>5, <1>6

LEMMA DeclinedStep ==
  ASSUME NEW m \in Messages, NEW k \in Nat, NEW s \in 1 .. k + 1
  PROVE  /\ Open(m, s - 1) \in Int /\ Open(m, k) \in Int /\ Open(m, k + 1) \in Int
         /\ Declined(m, s, k + 1) <=>
              \/ s \in 1 .. k /\ Declined(m, s, k) /\ Open(m, k + 1) > Open(m, s - 1)
              \/ /\ s = k + 1 /\ Fields[m][s].kind = "start" /\ ~Fields[m][s].want
                 /\ Open(m, k + 1) > Open(m, k)
         /\ s \in 1 .. k /\ Declined(m, s, k) => Open(m, k) > Open(m, s - 1)
<1>1. s - 1 \in Nat /\ Open(m, s - 1) \in Int /\ Open(m, k) \in Int /\ Open(m, k + 1) \in Int
  BY OpenStep
<1>2. CASE s = k + 1
  <2>1. s .. k + 1 = {k + 1} /\ s - 1 = k /\ s \notin 1 .. k
    BY <1>2
  <2> QED BY <1>1, <1>2, <2>1 DEF Declined
<1>3. CASE s # k + 1
  <2>1. s \in 1 .. k /\ k \in s .. k /\ \A e : e \in s .. k + 1 <=> e \in s .. k \/ e = k + 1
    BY <1>3
  <2> QED BY <1>1, <1>3, <2>1 DEF Declined
<1> QED BY <1>2, <1>3

LEMMA SkippedNext ==
  ASSUME NEW m, NEW k \in Nat
  PROVE  Meaning!Skipped(m, k + 1) <=> \E s \in 1 .. k : Declined(m, s, k)
<1>1. k + 1 - 1 = k
  OBVIOUS
<1> QED BY <1>1 DEF Meaning!Skipped, Declined, Open

(* No construct inside it ends a skip ...                                  *)
LEMMA SkipStays ==
  ASSUME NEW m \in Messages, NEW k \in Nat, NEW sd \in Nat \cup {-1}, SkipKnown(m, k, sd),
         \/ Fields[m][k + 1].kind \notin {"start", "end"}
         \/ Fields[m][k + 1].kind = "start" /\ (sd >= 0 \/ Fields[m][k + 1].want)
         \/ Fields[m][k + 1].kind = "end" /\ (sd < 0 \/ Open(m, k + 1) > sd)
  PROVE  SkipKnown(m, k + 1, sd)
<1>1. CASE sd < 0
  <2>1. \A s \in 1 .. k : ~Declined(m, s, k)
    BY <1>1 DEF SkipKnown
  <2>2. ASSUME NEW s \in 1 .. k + 1, Declined(m, s, k + 1) PROVE FALSE
    <3>1. s = k + 1 /\ Fields[m][k + 1].kind = "start" /\ ~Fields[m][k + 1].want
      BY <2>1, <2>2, DeclinedStep
    <3> QED BY <1>1, <3>1
  <2> QED BY <1>1, <2>2 DEF SkipKnown
<1>2. CASE sd >= 0
  <2>1. PICK s \in 1 .. k : Declined(m, s, k) /\ Open(m, s - 1) = sd
    BY <1>2 DEF SkipKnown
  <2>2. \A t \in 1 .. k : Declined(m, t, k) => Open(m, t - 1) >= sd
    BY <1>2 DEF SkipKnown
  <2>3. s \in 1 .. k + 1 /\ Open(m, k) > sd /\ Open(m, k) \in Int /\ Open(m, k + 1) \in Int
    BY <2>1, DeclinedStep
  <2>4. Open(m, k + 1) > sd
    BY <2>3, <1>2, OpenStep
  <2>5. Declined(m, s, k + 1)
    BY <2>1, <2>3, <2>4, DeclinedStep
  <2>6. ASSUME NEW t \in 1 .. k + 1, Declined(m, t, k + 1) PROVE Open(m, t - 1) >= sd
    <3>1. (t \in 1 .. k /\ Declined(m, t, k)) \/ t = k + 1
      BY <2>6, DeclinedStep
    <3>2. t = k + 1 => t - 1 = k
      OBVIOUS
    <3> QED BY <2>2, <2>3, <3>1, <3>2
  <2> QED BY <1>2, <2>1, <2>3, <2>5, <2>6 DEF SkipKnown
<1> QED BY <1>1, <1>2

(* ... a declined start begins one ...                                     *)
LEMMA SkipBegins ==
  ASSUME NEW m \in Messages, NEW k \in Nat, SkipKnown(m, k, -1), Open(m, k) \in Nat,
         Fields[m][k + 1].kind = "start", ~Fields[m][k + 1].want
  PROVE  SkipKnown(m, k + 1, Open(m, k))
<1>1. \A s \in 1 .. k : ~Declined(m, s, k)
  BY DEF SkipKnown
<1>2. k + 1 \in 1 .. k + 1 /\ k + 1 - 1 = k /\ Open(m, k + 1) > Open(m, k)
  BY OpenStep
<1>3. Declined(m, k + 1, k + 1)
  BY <1>2, DeclinedStep
<1>4. \A s \in 1 .. k + 1 : Declined(m, s, k + 1) => s = k + 1
  BY <1>1, DeclinedStep
<1> QED BY <1>2, <1>3, <1>4 DEF SkipKnown

(* ... and the end of the outermost declined sequence ends it.             *)
LEMMA SkipEnds ==
  ASSUME NEW m \in Messages, NEW k \in Nat, NEW sd \in Nat, SkipKnown(m, k, sd),
         Fields[m][k + 1].kind = "end", Open(m, k + 1) <= sd
  PROVE  SkipKnown(m, k + 1, -1)
<1>1. \A t \in 1 .. k : Declined(m, t, k) => Open(m, t - 1) >= sd
  BY DEF SkipKnown
<1>2. ASSUME NEW t \in 1 .. k + 1, Declined(m, t, k + 1) PROVE FALSE
  <2>1. CASE t \in 1 .. k /\ Declined(m, t, k) /\ Open(m, k + 1) > Open(m, t - 1)
    <3>1. Open(m, t - 1) >= sd /\ Open(m, t - 1) \in Int /\ Open(m, k + 1) \in Int
      BY <1>1, <2>1, DeclinedStep
    <3> QED BY <2>1, <3>1
  <2> QED BY <1>2, <2>1, DeclinedStep
<1> QED BY <1>2 DEF SkipKnown

-----------------------------------------------------------------------------
(* One more construct heard, or not.                                       *)

LEMMA NamedAppend ==
  ASSUME NEW s \in Seq(Event), NEW e \in Event, NEW t, t = Append(s, e)
  PROVE  /\ Named(t) = Named(s) \cup {e.c}
         /\ \A n \in Nat : /\ \A c \in Named(s) : c <= n
                           /\ n < e.c
                           /\ \A i, j \in 1 .. Len(s) : i < j => s[i].c < s[j].c
              => \A i, j \in 1 .. Len(t) : i < j => t[i].c < t[j].c
<1>1. /\ Len(s) \in Nat /\ Len(t) = Len(s) + 1 /\ t[Len(s) + 1] = e
      /\ \A i \in 1 .. Len(s) : t[i] = s[i]
  BY AppendProperties
<1>2. 1 .. Len(t) = 1 .. Len(s) \cup {Len(s) + 1}
  BY <1>1
<1>3. Named(t) = Named(s) \cup {e.c}
  BY <1>1, <1>2 DEF Named
<1>4. ASSUME NEW n \in Nat, \A c \in Named(s) : c <= n, n < e.c,
             \A i, j \in 1 .. Len(s) : i < j => s[i].c < s[j].c,
             NEW i \in 1 .. Len(t), NEW j \in 1 .. Len(t), i < j
      PROVE  t[i].c < t[j].c
  <2>1. i \in 1 .. Len(s)
    BY <1>1, <1>4
  <2>2. CASE j \in 1 .. Len(s)
    BY <1>1, <1>4, <2>1, <2>2
  <2>3. CASE j = Len(s) + 1
    <3>1. s[i] \in Event
      BY <1>1, <2>1, ElementOfSeq
    <3>2. s[i].c \in Named(s) /\ s[i].c \in Nat /\ e.c \in Nat
      BY <2>1, <3>1 DEF Named, Event
    <3> QED BY <1>1, <1>4, <2>1, <2>3, <3>2
  <2> QED BY <1>1, <1>2, <2>2, <2>3
<1> QED BY <1>3, <1>4

LEMMA ToldNext ==
  ASSUME NEW m, NEW k \in Nat, NEW s \in Seq(Event), Told(m, k, {}, s)
  PROVE  /\ ~Meaning!Heard(m, k + 1) => Told(m, k + 1, {}, s)
         /\ Meaning!Heard(m, k + 1) => Told(m, k + 1, {k + 1}, s)
         /\ Meaning!Heard(m, k + 1) =>
              \A e \in Event : \A t : e.c = k + 1 /\ t = Append(s, e) => Told(m, k + 1, {}, t)
<1>1. 1 .. k + 1 = 1 .. k \cup {k + 1} /\ k + 1 \notin 1 .. k /\ k + 1 \in Nat
  OBVIOUS
<1>2. /\ Named(s) = {c \in 1 .. k : Meaning!Heard(m, c)}
      /\ \A i, j \in 1 .. Len(s) : i < j => s[i].c < s[j].c
  BY DEF Told
<1>3. ASSUME ~Meaning!Heard(m, k + 1) PROVE Told(m, k + 1, {}, s)
  <2>1. Named(s) = {c \in 1 .. k + 1 : Meaning!Heard(m, c)}
    BY <1>1, <1>2, <1>3
  <2> QED BY <1>2, <2>1 DEF Told
<1>4. ASSUME Meaning!Heard(m, k + 1) PROVE Told(m, k + 1, {k + 1}, s)
  <2>1. Named(s) = {c \in 1 .. k + 1 : Meaning!Heard(m, c)} \ {k + 1}
    BY <1>1, <1>2
  <2> QED BY <1>1, <1>2, <1>4, <2>1 DEF Told
<1>5. ASSUME Meaning!Heard(m, k + 1), NEW e \in Event, e.c = k + 1, NEW t, t = Append(s, e)
      PROVE  Told(m, k + 1, {}, t)
  <2>1. Named(t) = {c \in 1 .. k + 1 : Meaning!Heard(m, c)}
    <3>1. Named(t) = Named(s) \cup {e.c}
      BY <1>5, NamedAppend
    <3> QED BY <1>1, <1>2, <1>5, <3>1
  <2>2. PICK n \in Nat : n < e.c /\ \A c \in Named(s) : c <= n
    <3>1. k \in Nat /\ k < e.c /\ \A c \in Named(s) : c <= k
      BY <1>2, <1>5
    <3> QED BY <3>1
  <2>3. \A i, j \in 1 .. Len(t) : i < j => t[i].c < t[j].c
    BY <1>2, <1>5, <2>2, NamedAppend
  <2> QED BY <2>1, <2>3 DEF Told
<1> QED BY <1>3, <1>4, <1>5

LEMMA ToldAwaited ==
  ASSUME NEW m, NEW k \in Nat \ {0}, NEW s \in Seq(Event), Told(m, k, {k}, s),
         NEW e \in Event, e.c = k, NEW t, t = Append(s, e)
  PROVE  Told(m, k, {}, t)
<1>1. /\ Named(s) = {c \in 1 .. k : Meaning!Heard(m, c)} \ {k} /\ Meaning!Heard(m, k)
      /\ \A i, j \in 1 .. Len(s) : i < j => s[i].c < s[j].c
  BY DEF Told
<1>2. Named(t) = {c \in 1 .. k : Meaning!Heard(m, c)}
  <2>1. Named(t) = Named(s) \cup {e.c}
    BY NamedAppend
  <2> QED BY <1>1, <2>1
<1>3. PICK n \in Nat : n < e.c /\ \A c \in Named(s) : c <= n
  <2>1. k - 1 \in Nat /\ k - 1 < e.c /\ \A c \in Named(s) : c <= k - 1
    BY <1>1
  <2> QED BY <2>1
<1>4. \A i, j \in 1 .. Len(t) : i < j => t[i].c < t[j].c
  BY <1>1, <1>3, NamedAppend
<1> QED BY <1>2, <1>4 DEF Told

-----------------------------------------------------------------------------
(* Where constructs begin and end in the stream.                           *)

LEMMA ConstructsEnd ==
  ASSUME msg \in Messages
  PROVE  /\ \A c \in 1 .. Len(Fields[msg]) : \E e \in 1 .. Len(wire) : Final(ConstructOf(msg, c), e)
         /\ \A c : \A e : Final(ConstructOf(msg, c), e) =>
              /\ e \in 1 .. Len(wire) /\ wire[e].c = c /\ c \in 1 .. Len(Fields[msg])
              /\ Meaning!LastByte(msg, c) = e
<1>1. ASSUME NEW c \in 1 .. Len(Fields[msg])
      PROVE  \E e \in 1 .. Len(wire) : Final(ConstructOf(msg, c), e)
  <2>1. PICK e \in ConstructOf(msg, c) : Final(ConstructOf(msg, c), e)
    BY EncodingAssumption
  <2> QED BY <2>1 DEF ConstructOf, wire
<1>2. ASSUME NEW c, NEW e, Final(ConstructOf(msg, c), e)
      PROVE  /\ e \in 1 .. Len(wire) /\ wire[e].c = c /\ c \in 1 .. Len(Fields[msg])
             /\ Meaning!LastByte(msg, c) = e
  <2>1. e \in 1 .. Len(wire) /\ wire[e].c = c
    BY <1>2 DEF Final, ConstructOf, wire
  <2>2. c \in 1 .. Len(Fields[msg])
    BY <2>1, WireTyped
  <2> DEFINE Top(i) == i \in ConstructOf(msg, c) /\ \A j \in ConstructOf(msg, c) : j <= i
  <2>3. Meaning!LastByte(msg, c)
          = CHOOSE i \in ConstructOf(msg, c) : \A j \in ConstructOf(msg, c) : j <= i
    BY DEF Meaning!LastByte, Meaning!Highest, Meaning!Of, ConstructOf
  <2>4. Top(e)
    BY <1>2 DEF Final
  <2>5. Top(Meaning!LastByte(msg, c))
    BY <2>3, <2>4
  <2>6. Meaning!LastByte(msg, c) \in 1 .. Len(wire)
    BY <2>5 DEF ConstructOf, wire
  <2>7. Meaning!LastByte(msg, c) <= e /\ e <= Meaning!LastByte(msg, c)
    BY <2>4, <2>5
  <2> QED BY <2>1, <2>2, <2>6, <2>7, WireTyped
<1> QED BY <1>1, <1>2

LEMMA BegunTyped ==
  ASSUME msg \in Messages, NEW a \in 0 .. Len(wire)
  PROVE  /\ Begun(msg, a) \in 0 .. Len(Fields[msg]) /\ Begun(msg, a) \in Nat
         /\ a > 0 => a \in 1 .. Len(wire) /\ Begun(msg, a) = wire[a].c
         /\ a = 0 => Begun(msg, a) = 0
  BY WireTyped DEF Begun, wire

(* A construct ends by a boundary exactly if it has begun by then.         *)
LEMMA EndedBy ==
  ASSUME msg \in Messages, NEW a, Boundary(a), NEW c, NEW e, Final(ConstructOf(msg, c), e)
  PROVE  e <= a <=> c <= Begun(msg, a)
<1>1. /\ e \in 1 .. Len(wire) /\ wire[e].c = c /\ c \in Nat /\ c > 0 /\ Len(wire) \in Nat
      /\ a \in 0 .. Len(wire)
  BY ConstructsEnd, WireTyped DEF Boundary
<1>2. CASE a = 0
  BY <1>1, <1>2, BegunTyped
<1>3. CASE a > 0
  <2>1. a \in 1 .. Len(wire) /\ Begun(msg, a) = wire[a].c /\ wire[a].c \in Nat
    BY <1>1, <1>3, BegunTyped, WireTyped
  <2>2. ASSUME e <= a PROVE c <= wire[a].c
    BY <1>1, <2>1, <2>2, WireTyped
  <2>3. ASSUME ~(e <= a) PROVE wire[a].c < c
    <3>1. a \in 1 .. Len(wire) - 1 /\ a + 1 \in 1 .. Len(wire) /\ a + 1 <= e
      BY <1>1, <2>1, <2>3
    <3>2. wire[a].c < wire[a + 1].c /\ wire[a + 1].c \in Nat
      BY <3>1, WireTyped DEF Boundary
    <3>3. wire[a + 1].c <= wire[e].c
      <4>1. CASE a + 1 = e
        BY <3>2, <4>1
      <4>2. CASE a + 1 < e
        BY <1>1, <3>1, <4>2, WireTyped
      <4> QED BY <1>1, <3>1, <4>1, <4>2
    <3> QED BY <1>1, <2>1, <3>2, <3>3
  <2> QED BY <1>1, <2>1, <2>2, <2>3
<1> QED BY <1>1, <1>2, <1>3

(* Behind a boundary the next construct begins.                            *)
LEMMA NextConstruct ==
  ASSUME msg \in Messages, NEW a, Boundary(a), a < Len(wire)
  PROVE  wire[a + 1].c = Begun(msg, a) + 1
<1> DEFINE k == Begun(msg, a)
           c == wire[a + 1].c
<1>1. a \in 0 .. Len(wire) /\ Len(wire) \in Nat /\ a + 1 \in 1 .. Len(wire)
  BY WireTyped DEF Boundary
<1>2. c \in 1 .. Len(Fields[msg]) /\ k \in 0 .. Len(Fields[msg]) /\ Len(Fields[msg]) \in Nat
  BY <1>1, BegunTyped, WireTyped
<1>3. PICK e \in 1 .. Len(wire) : Final(ConstructOf(msg, c), e) /\ wire[e].c = c
  BY <1>2, ConstructsEnd
<1>4. ~(e <= a)
  <2>1. a + 1 \in ConstructOf(msg, c)
    BY <1>1 DEF ConstructOf, wire
  <2> QED BY <1>1, <1>3, <2>1 DEF Final
<1>5. k < c
  BY <1>2, <1>3, <1>4, EndedBy
<1>6. ~(k + 1 < c)
  <2>1. SUFFICES ASSUME k + 1 < c PROVE FALSE
    OBVIOUS
  <2>2. PICK d : d = k + 1
    OBVIOUS
  <2>3. d \in 1 .. Len(Fields[msg]) /\ d < c /\ ~(d <= k)
    BY <1>2, <2>1, <2>2
  <2>4. PICK f \in 1 .. Len(wire) : Final(ConstructOf(msg, d), f) /\ wire[f].c = d
    BY <2>3, ConstructsEnd
  <2>5. ~(f <= a)
    BY <2>3, <2>4, EndedBy
  <2>6. wire[a + 1].c <= wire[f].c
    <3>1. a + 1 <= f
      BY <1>1, <2>4, <2>5
    <3> QED BY <1>1, <1>2, <2>4, <3>1, WireTyped
  <2> QED BY <1>2, <2>3, <2>4, <2>6
<1> QED BY <1>2, <1>5, <1>6

(* In the middle of a construct nothing later has ended, and the message   *)
(* is not whole.                                                           *)
LEMMA Within ==
  ASSUME msg \in Messages, NEW a \in 1 .. Len(wire), NEW c, wire[a].c = c, NEW e,
         Final(ConstructOf(msg, c), e), NEW n \in Nat, a <= n, n <= e
  PROVE  /\ n \in 1 .. Len(wire) /\ wire[n].c = c /\ c \in Nat
         /\ n < e => /\ ~Whole(msg, n)
                     /\ \A d \in 1 .. Len(Fields[msg]) : \A f \in 1 .. n :
                          Final(ConstructOf(msg, d), f) => d < c
<1>1. /\ e \in 1 .. Len(wire) /\ wire[e].c = c /\ c \in Nat /\ Len(wire) \in Nat
      /\ n \in 1 .. Len(wire)
  BY ConstructsEnd, WireTyped
<1>2. wire[n].c = c
  <2>1. wire[n].c \in Nat /\ wire[a].c <= wire[n].c /\ wire[n].c <= wire[e].c
    BY <1>1, WireTyped
  <2> QED BY <1>1, <2>1
<1>3. ASSUME n < e, NEW d \in 1 .. Len(Fields[msg]), NEW f \in 1 .. n, Final(ConstructOf(msg, d), f)
      PROVE  d < c
  <2>1. f \in 1 .. Len(wire) /\ wire[f].c = d /\ f < e /\ d \in Nat
    BY <1>1, <1>3, ConstructsEnd
  <2>2. wire[f].c <= wire[e].c
    BY <1>1, <2>1, WireTyped
  <2>3. d # c
    <3>1. e \in ConstructOf(msg, c)
      BY DEF Final
    <3> QED BY <1>1, <1>3, <2>1, <3>1 DEF Final
  <2> QED BY <1>1, <2>1, <2>2, <2>3
<1>4. ASSUME n < e PROVE ~Whole(msg, n)
  <2>1. ASSUME NEW d \in 1 .. Len(Fields[msg]), Final(ConstructOf(msg, d), n) PROVE FALSE
    <3>1. wire[n].c = d
      BY <2>1, ConstructsEnd
    <3>2. d < c
      BY <1>1, <1>3, <1>4, <2>1
    <3> QED BY <1>1, <1>2, <3>1, <3>2
  <2> QED BY <1>1, <2>1 DEF Whole
<1> QED BY <1>1, <1>2, <1>3, <1>4

(* At a boundary everything that has begun has ended, and the message is   *)
(* whole when no sequence is open.                                         *)
LEMMA AtBoundary ==
  ASSUME msg \in Messages, NEW a, Boundary(a)
  PROVE  /\ Exhausted(msg, Begun(msg, a), {}, a)
         /\ Whole(msg, a) <=> Open(msg, Begun(msg, a)) = 0
<1>1. a \in 0 .. Len(wire) /\ Len(wire) \in Nat
  BY WireTyped DEF Boundary
<1>2. Exhausted(msg, Begun(msg, a), {}, a)
  <2>1. ASSUME NEW c, NEW e \in 1 .. a, Final(ConstructOf(msg, c), e) PROVE c <= Begun(msg, a)
    <3>1. e <= a
      BY <1>1
    <3> QED BY <2>1, <3>1, EndedBy
  <2> QED BY <2>1 DEF Exhausted
<1>3. CASE a = 0
  <2>1. Begun(msg, a) = 0
    BY <1>1, <1>3, BegunTyped
  <2>2. Open(msg, 0) = 0
    BY OpenStep, 0 \in Nat
  <2> QED BY <1>2, <1>3, <2>1, <2>2 DEF Whole
<1>4. CASE a > 0
  <2>1. Begun(msg, a) = wire[a].c /\ wire[a].c \in 1 .. Len(Fields[msg]) /\ a \in 1 .. Len(wire)
    BY <1>1, <1>4, BegunTyped, WireTyped
  <2>2. PICK e \in 1 .. Len(wire) : Final(ConstructOf(msg, wire[a].c), e)
    BY <2>1, ConstructsEnd
  <2>3. e = a
    <3>1. a \in ConstructOf(msg, wire[a].c)
      BY <2>1 DEF ConstructOf, wire
    <3>2. a <= e
      BY <2>2, <3>1 DEF Final
    <3>3. e <= a
      BY <2>1, <2>2, EndedBy, WireTyped
    <3> QED BY <2>1, <2>2, <3>2, <3>3
  <2>4. \A d : Final(ConstructOf(msg, d), a) <=> d = wire[a].c
    BY <2>2, <2>3, ConstructsEnd
  <2> QED BY <1>2, <1>4, <2>1, <2>4 DEF Whole
<1> QED BY <1>1, <1>3, <1>4

-----------------------------------------------------------------------------
(* What a step keeps.                                                      *)

LEMMA FollowsFrom ==
  ASSUME UNCHANGED msg, NEW a, NEW k, Begun(msg, a) = k,
         pending'.tag # "none" => /\ a \in 1 .. Len(wire) /\ wire[a].c = pending'.c
                                  /\ Awaited' = {} => ~Meaning!Heard(msg, pending'.c),
         depth' = Open(msg, k), SkipKnown(msg, k, skipDepth'), Told(msg, k, Awaited', events'),
         pc' = "idle" /\ ~broken' => /\ Exhausted(msg, k, Awaited', fed')
                                     /\ status' = "COMPLETE" <=> Whole(msg, fed')
  PROVE  Follows(a)'
<1>1. msg' = msg /\ wire' = wire /\ Begun(msg', a) = k
  BY DEF wire
<1>2. pending'.tag # "none" => /\ a \in 1 .. Len(wire') /\ wire'[a].c = pending'.c
                               /\ Awaited' = {} => ~Meaning!Heard(msg', pending'.c)
  BY <1>1
<1>3. depth' = Open(msg', Begun(msg', a)) /\ SkipKnown(msg', Begun(msg', a), skipDepth')
  BY <1>1
<1>4. Told(msg', Begun(msg', a), Awaited', events')
  BY <1>1
<1>5. pc' = "idle" /\ ~broken' => /\ Exhausted(msg', Begun(msg', a), Awaited', fed')
                                  /\ status' = "COMPLETE" <=> Whole(msg', fed')
  BY <1>1
<1> QED BY <1>2, <1>3, <1>4, <1>5 DEF Follows

LEMMA AdvanceFollows ==
  ASSUME IInv, pc # "idle", pc' # "idle", NEW p \in pos .. Len(view), Advance(p),
         ~lost => \A a \in {Base + p} : Follows(a)'
  PROVE  Listening'
<1>1. pos' = p /\ UNCHANGED <<view, fed, lost>>
  BY DEF Advance
<1>2. p \in Int /\ Base + p = fed - Len(view) + p
  BY Window DEF Base
<1>3. Consumed' = Base + p
  BY <1>1, <1>2 DEF Consumed
<1> QED BY <1>1, <1>3 DEF Listening

LEMMA RetainFollows ==
  ASSUME IInv, UNCHANGED fed, NEW p \in pos .. Len(view), NEW r, Retain(p, r),
         ~lost => \A a \in {Base + p} : Follows(a)'
  PROVE  Listening'
<1> SUFFICES ASSUME ~lost' PROVE \A a \in {Consumed'} : Follows(a)'
  BY DEF Listening
<1>1. ~lost /\ Consumed' = Base + p
  BY RetainKeepsPlace
<1> QED BY <1>1

LEMMA RejectFollows ==
  ASSUME NEW verdict, Reject(verdict)
  PROVE  Listening'
  BY DEF Reject, Listening

LEMMA ListenNow ==
  ASSUME IInv, Located, Listening, ~lost, pc # "idle"
  PROVE  /\ msg \in Messages /\ Base + pos \in 0 .. Len(wire) /\ Base + pos \in Nat
         /\ Placed(Base + pos) /\ Follows(Base + pos)
<1>1. /\ Placed(Base + pos) /\ ~limit /\ status # "INVALID" /\ Base + pos \in Nat
      /\ Base + pos <= fed
  BY PlaceNow
<1>2. msg \in Messages /\ fed \in Nat /\ fed <= Len(wire) /\ Len(wire) \in Nat
      /\ Consumed = Base + pos
  BY Window
<1>3. Base + pos \in 0 .. Len(wire)
  BY <1>1, <1>2
<1>4. Follows(Base + pos)
  BY <1>1, <1>2 DEF Listening
<1> QED BY <1>1, <1>2, <1>3, <1>4

-----------------------------------------------------------------------------
(* A header is the next construct's, and whether that is heard depends on  *)
(* the skip under way.                                                     *)

LEMMA NextHeader ==
  ASSUME IInv, Located, Listening, ~lost, NEW q \in pos + 1 .. Len(view),
         NEW c \in 1 .. Len(Fields[msg]), NEW kinds, Header(q, c, kinds)
  PROVE  \E k \in Nat :
           /\ c = k + 1 /\ Begun(msg, Base + q) = k + 1
           /\ Base + q \in 1 .. Len(wire) /\ wire[Base + q].c = c
           /\ depth = Open(msg, k) /\ SkipKnown(msg, k, skipDepth) /\ Told(msg, k, {}, events)
           /\ Meaning!Heard(msg, k + 1) <=>
                pc = "walk" /\ (field(c).kind = "end" \/ field(c).want)
<1> DEFINE a == Base + pos
           k == Begun(msg, a)
<1>1. /\ AtHeader /\ HeaderEnd(q) /\ c = at(q).c
  BY DEF Header
<1>2. pc \in {"walk", "skip"} /\ pc # "idle" /\ pending.tag = "none" /\ resume = "none"
  BY <1>1 DEF AtHeader, Walking, IInv, Framed, Resumed
<1>3. msg \in Messages /\ a \in 0 .. Len(wire) /\ a \in Nat /\ Boundary(a) /\ Follows(a)
  BY <1>2, ListenNow DEF Placed
<1>4. /\ at(q) = wire[Base + q] /\ Base + q \in 1 .. Len(wire) /\ a < Base + q
      /\ Len(wire) \in Nat
  BY <1>3, Seen, Window
<1>5. c = wire[a + 1].c /\ wire[Base + q].c = c
  BY <1>1, <1>4, HeaderSeen
<1>6. c = k + 1 /\ k \in Nat
  <2>1. a < Len(wire)
    BY <1>3, <1>4
  <2> QED BY <1>3, <1>5, <2>1, NextConstruct, BegunTyped
<1>7. Begun(msg, Base + q) = k + 1
  BY <1>4, <1>5, <1>6 DEF Begun, wire
<1>8. /\ depth = Open(msg, k) /\ SkipKnown(msg, k, skipDepth) /\ Told(msg, k, Awaited, events)
      /\ Awaited = {}
  BY <1>2, <1>3 DEF Follows, Awaited
<1>9. pc = "skip" <=> skipDepth >= 0
  BY <1>2, Running DEF IInv
<1>10. Meaning!Skipped(msg, k + 1) <=> skipDepth >= 0
  BY <1>6, <1>8, SkippedNext DEF SkipKnown
<1>11. Meaning!Heard(msg, k + 1) <=> pc = "walk" /\ (field(c).kind = "end" \/ field(c).want)
  BY <1>2, <1>6, <1>9, <1>10 DEF Meaning!Heard, field
<1> HIDE DEF k
<1> QED BY <1>4, <1>5, <1>6, <1>7, <1>8, <1>11

LEMMA StartFollows ==
  ASSUME IInv, Located, Listening, SequenceStart
  PROVE  Listening'
<1>1. PICK q \in pos + 1 .. Len(view), c \in 1 .. Len(Fields[msg]) :
        /\ Header(q, c, {"start"})
        /\ depth' = depth + 1
        /\ \/ /\ pc = "walk" /\ field(c).want
              /\ Heard(c, "open", <<>>)
              /\ UNCHANGED <<skipDepth, pc>>
           \/ /\ pc = "walk" /\ ~field(c).want
              /\ pc' = "skip" /\ skipDepth' = depth
              /\ UNCHANGED events
           \/ /\ pc = "skip"
              /\ UNCHANGED <<skipDepth, pc, events>>
        /\ UNCHANGED <<pending, resume>>
  BY DEF SequenceStart
<1>2. /\ Advance(q) /\ pc # "idle" /\ pc' # "idle" /\ q \in pos .. Len(view)
      /\ pending'.tag = "none" /\ UNCHANGED msg /\ field(c).kind = "start"
  <2>1. /\ Advance(q) /\ pc \in {"walk", "skip"} /\ pending.tag = "none" /\ pending' = pending
        /\ pc' \in {"walk", "skip"} /\ field(c).kind = "start"
    BY <1>1 DEF Header, AtHeader, Walking
  <2>2. q \in pos .. Len(view)
    BY <1>1, Window
  <2>3. UNCHANGED msg
    BY <2>1 DEF Advance
  <2> QED BY <2>1, <2>2, <2>3
<1>3. /\ depth \in Nat /\ skipDepth \in Nat \cup {-1} /\ (pc = "skip" <=> skipDepth >= 0)
      /\ events \in Seq(Event)
  BY <1>2, Running DEF IInv
<1>4. ASSUME ~lost PROVE \A a \in {Base + q} : Follows(a)'
  <2>1. PICK k \in Nat :
          /\ c = k + 1 /\ Begun(msg, Base + q) = k + 1
          /\ depth = Open(msg, k) /\ SkipKnown(msg, k, skipDepth) /\ Told(msg, k, {}, events)
          /\ Meaning!Heard(msg, k + 1) <=>
               pc = "walk" /\ (field(c).kind = "end" \/ field(c).want)
    BY <1>1, <1>4, NextHeader
  <2>2. msg \in Messages /\ Fields[msg][k + 1].kind = "start" /\ field(c) = Fields[msg][k + 1]
    BY <1>2, <2>1, Window DEF field
  <2>3. depth' = Open(msg, k + 1)
    BY <1>1, <2>1, <2>2, OpenStep
  <2>4. SkipKnown(msg, k + 1, skipDepth') /\ Told(msg, k + 1, {}, events')
    <3>1. CASE pc = "walk" /\ field(c).want /\ Heard(c, "open", <<>>) /\ UNCHANGED skipDepth
      <4>1. SkipKnown(msg, k + 1, skipDepth')
        BY <1>3, <2>1, <2>2, <3>1, SkipStays
      <4>2. PICK e : e = [c |-> c, what |-> "open", bytes |-> <<>>]
        OBVIOUS
      <4>3. e \in Event /\ e.c = k + 1 /\ events' = Append(events, e)
        BY <2>1, <3>1, <4>2, EmptySeq DEF Event, Heard
      <4> QED BY <1>3, <2>1, <3>1, <4>1, <4>3, ToldNext
    <3>2. CASE pc = "walk" /\ ~field(c).want /\ skipDepth' = depth /\ UNCHANGED events
      <4>1. skipDepth = -1
        BY <1>3, <3>2
      <4>2. SkipKnown(msg, k + 1, skipDepth')
        BY <1>3, <2>1, <2>2, <3>2, <4>1, SkipBegins
      <4>3. ~Meaning!Heard(msg, k + 1)
        BY <1>2, <2>1, <3>2
      <4> QED BY <1>3, <2>1, <3>2, <4>2, <4>3, ToldNext
    <3>3. CASE pc = "skip" /\ UNCHANGED <<skipDepth, events>>
      <4>1. SkipKnown(msg, k + 1, skipDepth')
        BY <1>3, <2>1, <2>2, <3>3, SkipStays
      <4> QED BY <1>3, <2>1, <3>3, <4>1, ToldNext
    <3> QED BY <1>1, <3>1, <3>2, <3>3
  <2>5. Awaited' = {}
    BY <1>2 DEF Awaited
  <2> QED BY <1>2, <2>1, <2>3, <2>4, <2>5, FollowsFrom
<1> QED BY <1>2, <1>4, AdvanceFollows

LEMMA EndFollows ==
  ASSUME IInv, Located, Listening, SequenceEnd
  PROVE  Listening'
<1>1. PICK q \in pos + 1 .. Len(view), c \in 1 .. Len(Fields[msg]) :
        /\ Header(q, c, {"end"})
        /\ depth' = depth - 1
        /\ \/ /\ pc = "walk"
              /\ Heard(c, "close", <<>>)
              /\ UNCHANGED <<skipDepth, pc>>
           \/ /\ pc = "skip" /\ depth - 1 > skipDepth
              /\ UNCHANGED <<skipDepth, pc, events>>
           \/ /\ pc = "skip" /\ depth - 1 <= skipDepth
              /\ pc' = "walk" /\ skipDepth' = -1
              /\ UNCHANGED events
        /\ UNCHANGED <<pending, resume>>
  BY DEF SequenceEnd
<1>2. /\ Advance(q) /\ pc # "idle" /\ pc' # "idle" /\ q \in pos .. Len(view)
      /\ pending'.tag = "none" /\ UNCHANGED msg /\ field(c).kind = "end"
  <2>1. /\ Advance(q) /\ pc \in {"walk", "skip"} /\ pending.tag = "none" /\ pending' = pending
        /\ pc' \in {"walk", "skip"} /\ field(c).kind = "end"
    BY <1>1 DEF Header, AtHeader, Walking
  <2>2. q \in pos .. Len(view)
    BY <1>1, Window
  <2>3. UNCHANGED msg
    BY <2>1 DEF Advance
  <2> QED BY <2>1, <2>2, <2>3
<1>3. /\ depth \in Nat /\ skipDepth \in Nat \cup {-1} /\ (pc = "skip" <=> skipDepth >= 0)
      /\ events \in Seq(Event)
  BY <1>2, Running DEF IInv
<1>4. ASSUME ~lost PROVE \A a \in {Base + q} : Follows(a)'
  <2>1. PICK k \in Nat :
          /\ c = k + 1 /\ Begun(msg, Base + q) = k + 1
          /\ depth = Open(msg, k) /\ SkipKnown(msg, k, skipDepth) /\ Told(msg, k, {}, events)
          /\ Meaning!Heard(msg, k + 1) <=>
               pc = "walk" /\ (field(c).kind = "end" \/ field(c).want)
    BY <1>1, <1>4, NextHeader
  <2>2. msg \in Messages /\ Fields[msg][k + 1].kind = "end" /\ field(c) = Fields[msg][k + 1]
    BY <1>2, <2>1, Window DEF field
  <2>3. depth' = Open(msg, k + 1)
    BY <1>1, <2>1, <2>2, OpenStep
  <2>4. SkipKnown(msg, k + 1, skipDepth') /\ Told(msg, k + 1, {}, events')
    <3>1. CASE pc = "walk" /\ Heard(c, "close", <<>>) /\ UNCHANGED skipDepth
      <4>1. SkipKnown(msg, k + 1, skipDepth')
        BY <1>3, <2>1, <2>2, <3>1, SkipStays
      <4>2. PICK e : e = [c |-> c, what |-> "close", bytes |-> <<>>]
        OBVIOUS
      <4>3. e \in Event /\ e.c = k + 1 /\ events' = Append(events, e)
        BY <2>1, <3>1, <4>2, EmptySeq DEF Event, Heard
      <4> QED BY <1>2, <1>3, <2>1, <3>1, <4>1, <4>3, ToldNext
    <3>2. CASE pc = "skip" /\ depth - 1 > skipDepth /\ UNCHANGED <<skipDepth, events>>
      <4>1. Open(msg, k + 1) > skipDepth
        BY <1>1, <2>3, <3>2
      <4>2. SkipKnown(msg, k + 1, skipDepth')
        BY <1>3, <2>1, <2>2, <3>2, <4>1, SkipStays
      <4> QED BY <1>3, <2>1, <3>2, <4>2, ToldNext
    <3>3. CASE pc = "skip" /\ depth - 1 <= skipDepth /\ skipDepth' = -1 /\ UNCHANGED events
      <4>1. Open(msg, k + 1) <= skipDepth /\ skipDepth \in Nat
        BY <1>1, <1>3, <2>3, <3>3
      <4>2. SkipKnown(msg, k + 1, skipDepth')
        BY <2>1, <2>2, <3>3, <4>1, SkipEnds
      <4> QED BY <1>3, <2>1, <3>3, <4>2, ToldNext
    <3> QED BY <1>1, <3>1, <3>2, <3>3
  <2>5. Awaited' = {}
    BY <1>2 DEF Awaited
  <2> QED BY <1>2, <2>1, <2>3, <2>4, <2>5, FollowsFrom
<1> QED BY <1>2, <1>4, AdvanceFollows

LEMMA ValueHeaderFollows ==
  ASSUME IInv, Located, Listening, ValueHeader
  PROVE  Listening'
<1>1. PICK q \in pos + 1 .. Len(view), c \in 1 .. Len(Fields[msg]) :
        /\ Header(q, c, Values)
        /\ pending' = Park(c)
        /\ pc' = IF pc = "walk" /\ field(c).want THEN "value" ELSE pc
        /\ UNCHANGED <<depth, skipDepth, resume, events>>
  BY DEF ValueHeader
<1>2. /\ Advance(q) /\ pc \in {"walk", "skip"} /\ pc # "idle" /\ pc' # "idle"
      /\ q \in pos .. Len(view) /\ resume' = "none"
      /\ UNCHANGED msg /\ field(c).kind \in Values
  BY <1>1, Window DEF Header, AtHeader, Walking, Advance, IInv, Framed, Resumed
<1>3. /\ depth \in Nat /\ skipDepth \in Nat \cup {-1} /\ events \in Seq(Event)
  BY <1>2, Running DEF IInv
<1>4. ASSUME ~lost PROVE \A a \in {Base + q} : Follows(a)'
  <2>1. PICK k \in Nat :
          /\ c = k + 1 /\ Begun(msg, Base + q) = k + 1
          /\ Base + q \in 1 .. Len(wire) /\ wire[Base + q].c = c
          /\ depth = Open(msg, k) /\ SkipKnown(msg, k, skipDepth) /\ Told(msg, k, {}, events)
          /\ Meaning!Heard(msg, k + 1) <=>
               pc = "walk" /\ (field(c).kind = "end" \/ field(c).want)
    BY <1>1, <1>4, NextHeader
  <2>2. msg \in Messages /\ Fields[msg][k + 1].kind \notin {"start", "end"}
    BY <1>2, <2>1, Window DEF field, Values
  <2>3. depth' = Open(msg, k + 1) /\ SkipKnown(msg, k + 1, skipDepth')
    BY <1>1, <1>3, <2>1, <2>2, OpenStep, SkipStays
  <2>4. pending'.c = c /\ pending'.tag # "none"
    <3>1. Park(c).c = c /\ Park(c).tag = field(c).kind
      BY DEF Park
    <3> QED BY <1>1, <1>2, <3>1 DEF Values
  <2>5. Meaning!Heard(msg, k + 1) <=> pc' = "value"
    BY <1>1, <1>2, <2>1 DEF Values
  <2>6. Awaited' = IF Meaning!Heard(msg, k + 1) THEN {k + 1} ELSE {}
    BY <1>2, <2>1, <2>4, <2>5 DEF Awaited
  <2>7. Told(msg, k + 1, Awaited', events')
    BY <1>1, <1>3, <2>1, <2>6, ToldNext
  <2> QED BY <1>2, <2>1, <2>3, <2>4, <2>6, <2>7, FollowsFrom
<1> QED BY <1>2, <1>4, AdvanceFollows

-----------------------------------------------------------------------------
(* A value nobody takes is dropped, one that is taken is heard, and one    *)
(* that is short of bytes is still on its way.                             *)

LEMMA ValueEnds ==
  ASSUME IInv, Located, Listening, ~lost, pc # "idle", pending.tag # "none"
  PROVE  \E k \in Nat \ {0} :
           /\ Base + pos \in 1 .. Len(wire) /\ wire[Base + pos].c = pending.c /\ k = pending.c
           /\ Begun(msg, Base + pos) = k /\ msg \in Messages
           /\ depth = Open(msg, k) /\ SkipKnown(msg, k, skipDepth) /\ Told(msg, k, Awaited, events)
           /\ Awaited = {} => ~Meaning!Heard(msg, k)
           /\ \A e : Final(ConstructOf(msg, pending.c), e) => Begun(msg, e) = k
<1>1. /\ msg \in Messages /\ Base + pos \in 0 .. Len(wire) /\ Follows(Base + pos)
  BY ListenNow
<1>2. /\ Base + pos \in 1 .. Len(wire) /\ wire[Base + pos].c = pending.c
      /\ Awaited = {} => ~Meaning!Heard(msg, pending.c)
  BY <1>1 DEF Follows
<1>3. Begun(msg, Base + pos) = pending.c /\ pending.c \in Nat \ {0}
  BY <1>1, <1>2, BegunTyped, WireTyped
<1>4. ASSUME NEW e, Final(ConstructOf(msg, pending.c), e) PROVE Begun(msg, e) = pending.c
  BY <1>1, <1>4, ConstructsEnd, WireTyped DEF Begun, wire
<1>5. /\ depth = Open(msg, pending.c) /\ SkipKnown(msg, pending.c, skipDepth)
      /\ Told(msg, pending.c, Awaited, events)
  BY <1>1, <1>3 DEF Follows
<1> QED BY <1>1, <1>2, <1>3, <1>4, <1>5

LEMMA DroppedFollows ==
  ASSUME IInv, Located, Listening, Walking, pending.tag # "none",
         NEW q \in pos .. Len(view), Advance(q), pending' = NoPending,
         UNCHANGED <<depth, skipDepth, resume, pc, events>>,
         ~lost => Final(ConstructOf(msg, pending.c), Base + q)
  PROVE  Listening'
<1>1. pc # "idle" /\ pc' # "idle" /\ UNCHANGED msg /\ pending'.tag = "none" /\ resume = "none"
  BY DEF Walking, Advance, NoPending, IInv, Framed, Resumed
<1>2. ASSUME ~lost PROVE \A a \in {Base + q} : Follows(a)'
  <2>1. PICK k \in Nat \ {0} :
          /\ depth = Open(msg, k) /\ SkipKnown(msg, k, skipDepth) /\ Told(msg, k, Awaited, events)
          /\ \A e : Final(ConstructOf(msg, pending.c), e) => Begun(msg, e) = k
    BY <1>1, <1>2, ValueEnds
  <2>2. Awaited = {} /\ Awaited' = {}
    BY <1>1 DEF Awaited, Walking
  <2>3. Begun(msg, Base + q) = k
    BY <1>2, <2>1
  <2> QED BY <1>1, <2>1, <2>2, <2>3, FollowsFrom
<1> QED BY <1>1, <1>2, AdvanceFollows

LEMMA ShortFollows ==
  ASSUME IInv, Located, Listening, pc # "idle", pending.tag # "none",
         UNCHANGED <<msg, fed, depth, skipDepth, events>>,
         NEW p \in pos .. Len(view), Retain(p, "INCOMPLETE"), status' = "INCOMPLETE",
         pending'.tag # "none", pending'.c = pending.c, Awaited' = Awaited,
         ~lost => \E e : Final(ConstructOf(msg, pending.c), e) /\ fed < e
  PROVE  Listening'
<1>1. ASSUME ~lost PROVE \A a \in {Base + p} : Follows(a)'
  <2>1. PICK k \in Nat \ {0} :
          /\ Base + pos \in 1 .. Len(wire) /\ wire[Base + pos].c = pending.c /\ k = pending.c
          /\ msg \in Messages
          /\ depth = Open(msg, k) /\ SkipKnown(msg, k, skipDepth) /\ Told(msg, k, Awaited, events)
          /\ Awaited = {} => ~Meaning!Heard(msg, k)
    BY <1>1, ValueEnds
  <2>2. PICK e : Final(ConstructOf(msg, pending.c), e) /\ fed < e
    BY <1>1
  <2>3. /\ Base + p \in Nat /\ Base + pos <= Base + p /\ Base + p <= fed /\ fed \in Nat
        /\ e \in 1 .. Len(wire) /\ Len(wire) \in Nat /\ Base + p <= e /\ fed <= e
        /\ Base + pos <= fed /\ Base + p \in 1 .. Len(wire)
    <3>1. e \in 1 .. Len(wire) /\ Len(wire) \in Nat
      BY <2>1, <2>2, ConstructsEnd, WireTyped
    <3>2. /\ Base \in Int /\ pos \in Nat /\ Len(view) \in Nat /\ fed \in Nat
          /\ Base + Len(view) = fed
      BY Window
    <3> QED BY <2>1, <2>2, <3>1, <3>2
  <2>4. Base + p \in 1 .. Len(wire) /\ wire[Base + p].c = k
    <3>1. PICK a, b : a = Base + pos /\ b = Base + p
      OBVIOUS
    <3>2. a \in 1 .. Len(wire) /\ b \in 1 .. Len(wire) /\ a <= b /\ b <= e /\ wire[a].c = k
      BY <2>1, <2>3, <3>1
    <3>3. b \in Nat
      BY <2>3, <3>1
    <3>4. msg \in Messages /\ Final(ConstructOf(msg, k), e)
      BY <2>1, <2>2
    <3>5. b \in 1 .. Len(wire) /\ wire[b].c = k
      BY <3>2, <3>3, <3>4, Within
    <3> QED BY <3>1, <3>5
  <2>5. /\ ~Whole(msg, fed)
        /\ \A d \in 1 .. Len(Fields[msg]) : \A f \in 1 .. fed :
             Final(ConstructOf(msg, d), f) => d < k
    BY <2>1, <2>2, <2>3, Within
  <2>6. Begun(msg, Base + p) = k
    BY <2>1, <2>3, <2>4, BegunTyped
  <2>7. Exhausted(msg, k, Awaited, fed)
    <3>1. Awaited \subseteq {k}
      BY <2>1 DEF Awaited
    <3>2. Len(Fields[msg]) \in Nat
      BY <2>1, WireTyped
    <3> QED BY <2>5, <3>1, <3>2 DEF Exhausted
  <2> QED BY <2>1, <2>4, <2>5, <2>6, <2>7, FollowsFrom
<1> QED BY <1>1, RetainFollows

LEMMA SkipScalarFollows ==
  ASSUME IInv, Located, Listening, SkipScalar
  PROVE  Listening'
<1>1. /\ Walking /\ pc # "idle" /\ pending.tag = "scalar" /\ pending.tag \in Values
      /\ pending.tag # "none" /\ resume = "none"
  BY DEF SkipScalar, Walking, Values, IInv, Framed, Resumed
<1>2. CASE Reject("INVALID")
  BY <1>2, RejectFollows
<1>3. ASSUME NEW q \in pos + 1 .. Len(view), EndsAt(pos, 1, q), Advance(q),
             pending' = NoPending, UNCHANGED <<depth, skipDepth, resume, pc, events>>
      PROVE  Listening'
  <2>1. q \in pos .. Len(view)
    BY Window
  <2>2. ~lost => Final(ConstructOf(msg, pending.c), Base + q)
    <3>1. ~lost => ValueEnd(q)
      BY <1>1, <1>3, ValuePlace DEF ValueEnd
    <3> QED BY <1>1, <2>1, <3>1, ValueSeen
  <2> QED BY <1>1, <1>3, <2>1, <2>2, DroppedFollows
<1>4. ASSUME Ends(pos) = {}, Suspend, SkipInFlight,
             UNCHANGED <<msg, fed, pending, depth, skipDepth, events>>
      PROVE  Listening'
  <2>1. Retain(pos, "INCOMPLETE") /\ status' = "INCOMPLETE" /\ pos \in pos .. Len(view)
    BY <1>4, Window DEF Suspend, RunOut
  <2>2. pc' = "idle" /\ resume' # "visit"
    BY <1>4, <2>1 DEF SkipInFlight, Retain
  <2>3. Awaited' = Awaited
    BY <1>1, <2>2 DEF Awaited, Walking
  <2>4. ASSUME ~lost PROVE \E e : Final(ConstructOf(msg, pending.c), e) /\ fed < e
    <3>1. \A q \in pos .. Len(view) : ~EndsAt(pos, pending.vars, q)
      BY <1>1, <1>4, <2>4, ValuePlace DEF EndsAt
    <3> QED BY <1>1, <2>4, <3>1, ValueUnfinished
  <2>5. pending'.tag # "none" /\ pending'.c = pending.c
    BY <1>1, <1>4
  <2> QED BY <1>1, <1>4, <2>1, <2>3, <2>4, <2>5, ShortFollows
<1> QED BY <1>2, <1>3, <1>4 DEF SkipScalar

LEMMA DiscardFollows ==
  ASSUME IInv, Located, Listening, Discard
  PROVE  Listening'
<1>1. /\ Walking /\ pc # "idle" /\ pending.tag # "none" /\ resume = "none"
      /\ pending' = [pending EXCEPT !.tag = "discard", !.capped = FALSE]
      /\ UNCHANGED <<msg, fed, view, pos, depth, skipDepth, resume, pc, events, lost>>
  BY DEF Discard, Walking, window, IInv, Framed, Resumed
<1>2. pending'.tag # "none" /\ pending'.c = pending.c
  BY <1>1 DEF IInv, Framed, FrameTyped, Pending
<1>3. Consumed' = Base + pos /\ pc' # "idle"
  <2>1. Consumed' = Consumed
    BY <1>1 DEF Consumed
  <2> QED BY <1>1, <2>1, Window
<1>4. Awaited = {} /\ Awaited' = {}
  BY <1>1 DEF Awaited, Walking
<1>5. ASSUME ~lost PROVE \A a \in {Base + pos} : Follows(a)'
  BY <1>1, <1>2, <1>3, <1>4, <1>5, ValueEnds, FollowsFrom
<1> QED BY <1>1, <1>3, <1>5 DEF Listening

LEMMA DrainFollows ==
  ASSUME IInv, Located, Listening, DrainBytes \/ DrainVarints
  PROVE  Listening'
<1>1. /\ Walking /\ pc # "idle" /\ pending.tag = "discard" /\ pending.tag # "none"
      /\ resume = "none" /\ pending \in Pending
  BY DEF DrainBytes, DrainVarints, Walking, IInv, Framed, FrameTyped, Resumed
<1>2. /\ Base \in Int /\ pos \in Nat /\ Len(view) \in Nat /\ pos <= Len(view) /\ fed \in Nat
      /\ Base + Len(view) = fed /\ pending.bytes \in Nat /\ pending.vars \in Nat
      /\ Len(view) \in pos .. Len(view)
  BY <1>1, Window DEF Pending
<1>3. ~lost => /\ Base + pos >= 0
               /\ pending.bytes > 0 => Final(ConstructOf(msg, pending.c), Base + pos + pending.bytes)
               /\ pending.bytes = 0 => Left(Base + pos, pending.c, pending.vars)
  <2>1. ~lost => Placed(Base + pos) /\ Base + pos \in Nat
    BY <1>1, PlaceNow
  <2> QED BY <1>1, <1>2, <2>1 DEF Placed, Values
(* The chunk has less than what is left.                                   *)
<1>4. ASSUME RunOut(Len(view)), SkipInFlight, UNCHANGED <<msg, fed, depth, skipDepth, events>>,
             pending'.tag = "discard", pending'.c = pending.c,
             ~lost => \E e : Final(ConstructOf(msg, pending.c), e) /\ fed < e
      PROVE  Listening'
  <2>1. Retain(Len(view), "INCOMPLETE") /\ status' = "INCOMPLETE"
    BY <1>4 DEF RunOut
  <2>2. pc' = "idle" /\ resume' # "visit"
    BY <1>4, <2>1 DEF SkipInFlight, Retain
  <2>3. Awaited' = Awaited
    BY <1>1, <2>2 DEF Awaited, Walking
  <2> QED BY <1>1, <1>2, <1>4, <2>1, <2>3, ShortFollows
<1>5. CASE DrainBytes
  <2>1. CASE /\ pending.bytes > 0 /\ pos + pending.bytes <= Len(view)
             /\ Advance(pos + pending.bytes)
             /\ pending' = NoPending /\ UNCHANGED <<depth, skipDepth, resume, pc, events>>
    <3>1. PICK q : q = pos + pending.bytes
      OBVIOUS
    <3>2. q \in pos .. Len(view) /\ Base + q = Base + pos + pending.bytes /\ Advance(q)
      BY <1>2, <2>1, <3>1
    <3> QED BY <1>1, <1>3, <2>1, <3>2, DroppedFollows
  <2>2. CASE /\ pending.bytes > 0 /\ pos + pending.bytes > Len(view)
             /\ RunOut(Len(view)) /\ SkipInFlight
             /\ pending' = [pending EXCEPT !.bytes = Undrained]
             /\ UNCHANGED <<msg, fed, depth, skipDepth, events>>
    <3>1. pending'.tag = "discard" /\ pending'.c = pending.c
      BY <1>1, <2>2 DEF Pending
    <3>2. fed < Base + pos + pending.bytes
      BY <1>2, <2>2
    <3> QED BY <1>3, <1>4, <2>2, <3>1, <3>2
  <2> QED BY <1>5, <2>1, <2>2 DEF DrainBytes
<1>6. CASE DrainVarints
  <2>1. CASE Reject("INVALID")
    BY <2>1, RejectFollows
  <2>2. ASSUME NEW q \in pos .. Len(view), EndsAt(pos, pending.vars, q), Advance(q),
               pending' = NoPending, UNCHANGED <<depth, skipDepth, resume, pc, events>>
        PROVE  Listening'
    <3>1. pending.bytes = 0
      BY <1>6 DEF DrainVarints
    <3>2. ~lost => Final(ConstructOf(msg, pending.c), Base + q)
      BY <1>2, <1>3, <2>2, <3>1, LeftEnds
    <3> QED BY <1>1, <2>2, <3>2, DroppedFollows
  <2>3. CASE /\ Cardinality(Ends(pos)) < pending.vars
             /\ RunOut(Len(view)) /\ SkipInFlight
             /\ pending' = [pending EXCEPT !.vars = @ - Cardinality(Ends(pos)), !.vb = InFlight]
             /\ UNCHANGED <<msg, fed, depth, skipDepth, events>>
    <3>1. pending'.tag = "discard" /\ pending'.c = pending.c
      BY <1>1, <2>3 DEF Pending
    <3>2. pending.bytes = 0
      BY <1>6 DEF DrainVarints
    <3>3. ASSUME ~lost PROVE \E e : Final(ConstructOf(msg, pending.c), e) /\ fed < e
      <4>1. PICK n : n = pending.vars - Cardinality(Ends(pos))
        OBVIOUS
      <4>2. Left(fed, pending.c, n)
        BY <1>2, <1>3, <2>3, <3>2, <3>3, <4>1, LeftDropped
      <4>3. PICK e \in 1 .. Len(wire) :
              Final(ConstructOf(msg, pending.c), e) /\ fed <= e /\ Cardinality(EndsIn(fed, e)) = n
        BY <4>2 DEF Left
      <4>4. n > 0
        BY <1>2, <2>3, <4>1, FiniteEnds DEF IInv
      <4>5. fed # e
        <5>1. ASSUME fed = e PROVE EndsIn(fed, e) = {}
          BY <1>2, <5>1 DEF EndsIn
        <5> QED BY <4>3, <4>4, <5>1, FS_EmptySet
      <4> QED BY <1>2, <4>3, <4>5
    <3> QED BY <1>4, <2>3, <3>1, <3>3
  <2> QED BY <1>6, <2>1, <2>2, <2>3 DEF DrainVarints
<1> QED BY <1>5, <1>6

LEMMA TakeFollows ==
  ASSUME IInv, Located, Listening, TakeValue
  PROVE  Listening'
<1>1. PICK q \in pos .. Len(view) :
        /\ ValueEnd(q)
        /\ Heard(pending.c, "value", SubSeq(view, pos + 1, q))
        /\ \/ Advance(q) /\ pc' = "walk"
           \/ /\ Retain(q, "RAISED") /\ broken' = TRUE
              /\ UNCHANGED <<msg, fed>>
  BY DEF TakeValue
<1>2. /\ pc = "value" /\ pc # "idle" /\ pending.tag \in Values /\ pending.tag # "none"
      /\ resume = "none" /\ pending'.tag = "none" /\ pending.c \in Nat /\ events \in Seq(Event)
      /\ UNCHANGED <<msg, depth, skipDepth>>
  BY <1>1 DEF TakeValue, Reading, NoPending, Advance, Values, IInv, Framed, FrameTyped, Pending,
              SkipLevel
<1>3. pc' = "idle" => broken'
  BY <1>1 DEF Advance
<1>4. ASSUME ~lost PROVE \A a \in {Base + q} : Follows(a)'
  <2>1. PICK k \in Nat \ {0} :
          /\ k = pending.c
          /\ depth = Open(msg, k) /\ SkipKnown(msg, k, skipDepth) /\ Told(msg, k, Awaited, events)
          /\ \A e : Final(ConstructOf(msg, pending.c), e) => Begun(msg, e) = k
    BY <1>2, <1>4, ValueEnds
  <2>2. Begun(msg, Base + q) = k
    BY <1>1, <1>2, <1>4, <2>1, ValueSeen
  <2>3. Awaited = {k} /\ Awaited' = {}
    BY <1>2, <2>1 DEF Awaited
  <2>4. PICK e : e = [c |-> pending.c, what |-> "value", bytes |-> SubSeq(view, pos + 1, q)]
    OBVIOUS
  <2>5. e.c = k /\ events' = Append(events, e)
    BY <1>1, <2>1, <2>4 DEF Heard
  <2>6. e \in Event
    <3>1. /\ view \in Seq(Nat) /\ pos \in Nat /\ q \in Int /\ Len(view) \in Nat /\ q <= Len(view)
      BY Window
    <3>2. \A i \in pos + 1 .. q : view[i] \in Nat
      BY <3>1, ElementOfSeq
    <3>3. SubSeq(view, pos + 1, q) \in Seq(Nat)
      BY <3>1, <3>2, SubSeqProperties
    <3> QED BY <1>2, <2>4, <3>3 DEF Event
  <2>7. Told(msg, k, {}, events')
    BY <1>2, <2>1, <2>3, <2>5, <2>6, ToldAwaited
  <2> QED BY <1>2, <1>3, <2>1, <2>2, <2>3, <2>7, FollowsFrom
<1>5. CASE Advance(q) /\ pc' = "walk"
  BY <1>2, <1>4, <1>5, AdvanceFollows
<1>6. CASE Retain(q, "RAISED") /\ UNCHANGED <<msg, fed>>
  BY <1>4, <1>6, RetainFollows
<1> QED BY <1>1, <1>5, <1>6

(* A feed that ends between two constructs, or in a header.                *)
LEMMA CleanEndFollows ==
  ASSUME IInv, Located, Listening, CleanEnd
  PROVE  Listening'
<1>1. /\ pc # "idle" /\ pending.tag = "none" /\ pos = Len(view) /\ depth = 0
      /\ Retain(pos, "COMPLETE") /\ status' = "COMPLETE" /\ pos \in pos .. Len(view)
      /\ UNCHANGED <<msg, fed, pending, depth, skipDepth, events>>
  BY Window DEF CleanEnd, AtHeader, Walking, framing
<1>2. ASSUME ~lost PROVE \A a \in {Base + pos} : Follows(a)'
  <2>1. /\ msg \in Messages /\ Boundary(Base + pos) /\ Follows(Base + pos) /\ Base + pos = fed
    BY <1>1, <1>2, ListenNow, Window DEF Placed
  <2>2. Awaited = {} /\ Awaited' = {} /\ pending'.tag = "none"
    BY <1>1 DEF Awaited
  <2>3. /\ depth = Open(msg, Begun(msg, Base + pos))
        /\ SkipKnown(msg, Begun(msg, Base + pos), skipDepth)
        /\ Told(msg, Begun(msg, Base + pos), {}, events)
    BY <2>1, <2>2 DEF Follows
  <2>4. Exhausted(msg, Begun(msg, Base + pos), {}, fed) /\ Whole(msg, fed)
    BY <1>1, <2>1, <2>3, AtBoundary
  <2> QED BY <1>1, <2>2, <2>3, <2>4, FollowsFrom
<1> QED BY <1>1, <1>2, RetainFollows

LEMMA HeaderShortFollows ==
  ASSUME IInv, Located, Listening, HeaderShort
  PROVE  Listening'
<1>1. /\ AtHeader /\ pc # "idle" /\ pending.tag = "none" /\ Ends(pos) = {}
      /\ pos < Len(view) \/ depth > 0
      /\ Retain(pos, "INCOMPLETE") /\ status' = "INCOMPLETE" /\ pos \in pos .. Len(view)
      /\ UNCHANGED <<msg, fed, pending, depth, skipDepth, events>>
  BY Window DEF HeaderShort, AtHeader, Walking, Suspend, RunOut
<1>2. ASSUME ~lost PROVE \A a \in {Base + pos} : Follows(a)'
  <2> DEFINE k == Begun(msg, Base + pos)
  <2>1. /\ msg \in Messages /\ Boundary(Base + pos) /\ Follows(Base + pos) /\ Base + pos \in Nat
        /\ Base + pos \in 0 .. Len(wire)
    BY <1>1, <1>2, ListenNow DEF Placed
  <2>2. Awaited = {} /\ Awaited' = {} /\ pending'.tag = "none"
    BY <1>1 DEF Awaited
  <2>3. depth = Open(msg, k) /\ SkipKnown(msg, k, skipDepth) /\ Told(msg, k, {}, events)
    BY <2>1, <2>2 DEF Follows
  <2>4. Exhausted(msg, k, {}, fed) /\ ~Whole(msg, fed)
    <3>1. CASE pos = Len(view)
      <4>1. Base + pos = fed /\ depth # 0
        BY <1>1, <3>1, Window
      <4> QED BY <2>1, <2>3, <4>1, AtBoundary
    <3>2. CASE pos < Len(view)
      <4>1. PICK c \in 1 .. Len(Fields[msg]) : Base + pos + 1 .. fed \subseteq HeaderOf(msg, c)
        BY <1>1, <1>2, <3>2, HeaderCut
      <4>2. /\ Base \in Int /\ pos \in Nat /\ Len(view) \in Nat /\ fed \in Nat
            /\ Base + Len(view) = fed /\ fed <= Len(wire) /\ Len(wire) \in Nat
        BY Window
      <4>3. Base + pos + 1 <= fed /\ Base + pos < Len(wire) /\ Base + pos + 1 \in 1 .. Len(wire)
        BY <2>1, <3>2, <4>2
      <4>4. /\ fed \in HeaderOf(msg, c) /\ fed \in ConstructOf(msg, c)
            /\ wire[Base + pos + 1].c = c
        BY <4>1, <4>2, <4>3 DEF HeaderOf, ConstructOf, wire
      <4>5. PICK h \in Base + pos + 1 .. Len(wire) :
              /\ Final(HeaderOf(msg, c), h)
              /\ ~wire[h].cont
        <5>1. PICK h \in Base + pos + 1 .. Len(wire) :
                /\ Final(HeaderOf(msg, c), h)
                /\ \A i \in Base + pos + 1 .. h : wire[i].cont <=> i # h
          BY <2>1, <4>3, <4>4, HeaderFrom
        <5>2. h \in Base + pos + 1 .. h
          BY <2>1, <5>1
        <5> QED BY <5>1, <5>2
      <4>6. fed < h
        <5>1. fed <= h
          BY <4>4, <4>5 DEF Final
        <5>2. fed # h
          <6>1. Len(view) \in pos + 1 .. Len(view) /\ Base + pos >= 0
            BY <2>1, <3>2, <4>2
          <6>2. at(Len(view)) = wire[fed]
            BY <1>2, <4>2, <6>1, Seen
          <6>3. wire[fed].cont
            BY <1>1, <6>1, <6>2 DEF Ends
          <6> QED BY <4>5, <6>3
        <5> QED BY <2>1, <4>2, <4>5, <5>1, <5>2
      <4>7. PICK e \in 1 .. Len(wire) : Final(ConstructOf(msg, c), e) /\ fed < e
        <5>1. PICK e \in 1 .. Len(wire) : Final(ConstructOf(msg, c), e)
          BY <2>1, ConstructsEnd
        <5>2. h <= e
          BY <4>5, <5>1 DEF Final, HeaderOf
        <5> QED BY <2>1, <4>2, <4>5, <4>6, <5>1, <5>2
      <4>8. /\ ~Whole(msg, fed)
            /\ \A d \in 1 .. Len(Fields[msg]) : \A f \in 1 .. fed :
                 Final(ConstructOf(msg, d), f) => d < c
        <5>1. PICK a \in 1 .. Len(wire) : a = Base + pos + 1
          BY <4>3
        <5>2. wire[a].c = c /\ a <= fed /\ fed <= e /\ fed \in Nat
          BY <4>2, <4>3, <4>4, <4>7, <5>1
        <5> QED BY <2>1, <4>7, <5>2, Within
      <4>9. c = k + 1 /\ k \in Nat
        BY <2>1, <4>3, <4>4, NextConstruct, BegunTyped
      <4>10. Len(Fields[msg]) \in Nat
        BY <2>1, WireTyped
      <4>11. ASSUME NEW d \in 1 .. Len(Fields[msg]), NEW f \in 1 .. fed,
                    Final(ConstructOf(msg, d), f)
             PROVE  d <= k /\ d \notin {}
        BY <4>8, <4>9, <4>10, <4>11
      <4> HIDE DEF k
      <4> QED BY <4>8, <4>11 DEF Exhausted
    <3> QED BY <1>1, <3>1, <3>2, Window
  <2> HIDE DEF k
  <2> QED BY <1>1, <2>2, <2>3, <2>4, FollowsFrom DEF k
<1> QED BY <1>1, <1>2, RetainFollows

LEMMA WaitFollows ==
  ASSUME IInv, Located, Listening, StillShort \/ ValueShort
  PROVE  Listening'
<1>1. /\ pc = "value" /\ pc # "idle" /\ Retain(pos, "INCOMPLETE") /\ status' = "INCOMPLETE"
      /\ resume' = "visit" /\ pos \in pos .. Len(view)
      /\ UNCHANGED <<msg, fed, pending, depth, skipDepth, events>>
  BY Window DEF StillShort, ValueShort, Reading, Suspend, RunOut, framing
<1>2. pending.tag \in Values /\ pending.tag # "none" /\ pending.bytes \in Nat
  BY <1>1 DEF IInv, Framed, FrameTyped, Pending, SkipLevel, Values
<1>3. Awaited' = Awaited /\ pending'.tag # "none" /\ pending'.c = pending.c
  BY <1>1, <1>2 DEF Awaited
<1>4. IF pending.tag = "payload" THEN Len(view) - pos < pending.bytes
      ELSE \A q \in pos .. Len(view) : ~EndsAt(pos, pending.vars, q)
  <2>1. CASE StillShort
    BY <2>1 DEF StillShort, Located, StillAwaited
  <2>2. CASE ValueShort
    <3>1. CASE pending.tag = "payload"
      <4>1. pos + pending.bytes \notin pos .. Len(view)
        BY <2>2, <3>1 DEF ValueShort, ValueEnd
      <4> QED BY <1>2, <3>1, <4>1, Window
    <3>2. CASE pending.tag # "payload"
      BY <2>2, <3>2 DEF ValueShort, ValueEnd
    <3> QED BY <3>1, <3>2
  <2> QED BY <2>1, <2>2
<1>5. ~lost => \E e : Final(ConstructOf(msg, pending.c), e) /\ fed < e
  BY <1>1, <1>2, <1>4, ValueUnfinished
<1> QED BY <1>1, <1>2, <1>3, <1>5, ShortFollows

LEMMA FeedFollows ==
  ASSUME IInv, IInv', Listening, Feed
  PROVE  Listening'
<1>1. CASE Feedable /\ (\E v : Enter(v)) /\ Consumed' = fed - held
  <2>1. /\ pc = "idle" /\ ~limit /\ status # "INVALID" /\ Consumed = fed - held
        /\ UNCHANGED <<msg, pending, depth, skipDepth, events, lost>>
    BY <1>1 DEF Feedable, Enter, Consumed
  <2>2. pc' # "idle" /\ (pc' = "value" \/ resume' = "visit" <=> resume = "visit")
    <3>1. /\ pc' = CASE resume = "none"  -> "walk"
                     [] resume = "skip"  -> "skip"
                     [] resume = "visit" -> "value"
          /\ resume' = "visit" => resume = "visit"
      BY <1>1, Zenon DEF Enter
    <3>2. resume \in {"none", "skip", "visit"}
      BY DEF IInv, Framed, FrameTyped
    <3> QED BY <3>1, <3>2
  <2>3. Awaited' = Awaited
    BY <2>1, <2>2 DEF Awaited
  <2>4. ASSUME ~lost PROVE \A a \in {Consumed} : Follows(a)'
    <3>1. PICK a : a = Consumed
      OBVIOUS
    <3>2. Follows(a)
      BY <2>1, <2>4, <3>1 DEF Listening
    <3> QED BY <2>1, <2>2, <2>3, <3>1, <3>2, FollowsFrom DEF Follows
  <2> QED BY <1>1, <2>1, <2>4 DEF Listening
<1>2. CASE /\ UNCHANGED <<msg, fed, view, pos, pending, depth, skipDepth, resume, status, limit,
                         pc, events, broken, lost>>
           /\ Consumed' = Consumed
  <2>1. Awaited' = Awaited
    BY <1>2 DEF Awaited
  <2>2. ASSUME NEW a, Follows(a) PROVE Follows(a)'
    BY <1>2, <2>1, <2>2, FollowsFrom DEF Follows
  <2> QED BY <1>2, <2>2 DEF Listening
<1> QED BY <1>1, <1>2, FeedKeepsPlace

(* Before the first byte of a message.                                     *)
Fresh ==
  /\ msg \in Messages /\ fed = 0 /\ held = 0 /\ pc = "idle" /\ pending.tag = "none"
  /\ depth = 0 /\ skipDepth = -1 /\ events = <<>> /\ status = "COMPLETE"

LEMMA FreshFollows == Fresh => Listening
<1> SUFFICES ASSUME Fresh PROVE Listening
  OBVIOUS
<1>1. Consumed = 0 /\ Awaited = {} /\ Begun(msg, 0) = 0
  BY DEF Fresh, Consumed, Awaited, Begun
<1>2. Open(msg, 0) = 0
  <2>1. 0 \in Nat
    OBVIOUS
  <2> QED BY <2>1, OpenStep DEF Fresh
<1>3. SkipKnown(msg, 0, -1)
  BY DEF SkipKnown
<1>4. Told(msg, 0, {}, <<>>)
  BY EmptySeq DEF Told, Named
<1>5. Exhausted(msg, 0, {}, 0) /\ Whole(msg, 0)
  BY DEF Exhausted, Whole
<1> QED BY <1>1, <1>2, <1>3, <1>4, <1>5 DEF Fresh, Listening, Follows

LEMMA ResetFresh == Fresh' => Listening'
  BY FreshFollows, PTL

LEMMA NextFollows == IInv /\ Located /\ Listening /\ [Next]_vars => Listening'
<1> SUFFICES ASSUME IInv, Located, Listening, [Next]_vars PROVE Listening'
  OBVIOUS
<1>1. IInv'
  BY NextIInv
<1>2. CASE UNCHANGED vars
  <2>1. UNCHANGED <<msg, fed, rstart, rend, view, pos, pending, depth, skipDepth, resume, status,
                    limit, pc, events, broken, lost>>
    BY <1>2 DEF vars, buffer, window, framing, outcome
  <2>2. Consumed' = Consumed /\ Awaited' = Awaited
    BY <2>1 DEF Consumed, held, Awaited
  <2>3. ASSUME NEW a, Follows(a) PROVE Follows(a)'
    BY <2>1, <2>2, <2>3, FollowsFrom DEF Follows
  <2> QED BY <2>1, <2>2, <2>3 DEF Listening
<1>3. CASE Reset
  <2>1. /\ msg' \in Messages /\ fed' = 0 /\ held' = 0 /\ pc' = "idle" /\ pending'.tag = "none"
        /\ depth' = 0 /\ skipDepth' = -1 /\ events' = <<>> /\ status' = "COMPLETE"
    BY <1>3, <1>1 DEF Reset, held, NoPending, IInv, Framed, FrameTyped
  <2>2. Fresh'
    BY <2>1 DEF Fresh
  <2> QED BY <2>2, ResetFresh
<1>4. CASE Walk
  <2>1. CASE HeaderInvalid \/ OverCap \/ ValueInvalid
    BY <2>1, RejectFollows DEF HeaderInvalid, OverCap, ValueInvalid
  <2> QED BY <1>4, <2>1, SkipScalarFollows, DiscardFollows, DrainFollows, CleanEndFollows,
             HeaderShortFollows, StartFollows, EndFollows, ValueHeaderFollows, TakeFollows,
             WaitFollows DEF Walk
<1> QED BY <1>1, <1>2, <1>3, <1>4, FeedFollows DEF Next

-----------------------------------------------------------------------------
(* The theorem.                                                            *)

(* What ChunkInvariance says while no verdict is given.                    *)
HeardAsSent ==
  pc = "idle" /\ ~lost /\ ~broken /\ ~limit /\ status # "INVALID" =>
    /\ {Delivered[i] : i \in 1 .. Len(events)} =
         {c \in Meaning!Index(msg) : Meaning!Heard(msg, c) /\ Meaning!LastByte(msg, c) <= fed}
    /\ \A i, j \in 1 .. Len(events) : i < j => Delivered[i] < Delivered[j]
    /\ status = "COMPLETE" <=>
         fed = 0 \/ \E c \in Meaning!Index(msg) :
                      Meaning!LastByte(msg, c) = fed /\ Meaning!OpenAfter(msg, c) = 0

LEMMA ListeningHears == IInv /\ Located /\ Listening => HeardAsSent
<1> SUFFICES ASSUME IInv, Located, Listening,
                    pc = "idle", ~lost, ~broken, ~limit, status # "INVALID"
             PROVE  /\ {Delivered[i] : i \in 1 .. Len(events)} =
                         {c \in Meaning!Index(msg) :
                            Meaning!Heard(msg, c) /\ Meaning!LastByte(msg, c) <= fed}
                    /\ \A i, j \in 1 .. Len(events) : i < j => Delivered[i] < Delivered[j]
                    /\ status = "COMPLETE" <=>
                         fed = 0 \/ \E c \in Meaning!Index(msg) :
                                      Meaning!LastByte(msg, c) = fed /\ Meaning!OpenAfter(msg, c) = 0
  BY DEF HeardAsSent
<1> DEFINE a == fed - held
           k == Begun(msg, a)
<1>1. /\ msg \in Messages /\ fed \in Nat /\ fed <= Len(wire) /\ Len(wire) \in Nat
      /\ events \in Seq(Event) /\ Len(events) \in Nat /\ held \in Nat /\ Len(Fields[msg]) \in Nat
      /\ a \in Int /\ a <= fed
  BY Window, HeldInOrder, WireTyped, LenProperties DEF IInv, Framed, FrameTyped
<1>2. Placed(a) /\ Follows(a)
  BY DEF Located, Listening, Consumed
<1>3. a \in 0 .. Len(wire)
  <2>1. \A c : HeaderOf(msg, c) \subseteq 1 .. Len(wire)
    BY DEF HeaderOf, ConstructOf, wire
  <2> QED BY <1>1, <1>2, <2>1 DEF Placed, Boundary, Final
<1>4. k \in 0 .. Len(Fields[msg]) /\ k \in Nat /\ (a > 0 => k = wire[a].c)
  BY <1>1, <1>3, BegunTyped
<1>5. /\ Told(msg, k, Awaited, events) /\ Exhausted(msg, k, Awaited, fed)
      /\ status = "COMPLETE" <=> Whole(msg, fed)
      /\ pending.tag # "none" => /\ wire[a].c = pending.c /\ a \in 1 .. Len(wire)
                                 /\ Awaited = {} => ~Meaning!Heard(msg, pending.c)
  BY <1>2 DEF Follows
<1> HIDE DEF a, k
<1>6. \A c \in 1 .. Len(Fields[msg]) :
        /\ Meaning!LastByte(msg, c) \in 1 .. Len(wire)
        /\ Final(ConstructOf(msg, c), Meaning!LastByte(msg, c))
        /\ \A e : Final(ConstructOf(msg, c), e) <=> Meaning!LastByte(msg, c) = e
  BY <1>1, ConstructsEnd
<1>7. {Delivered[i] : i \in 1 .. Len(events)} = Named(events)
      /\ \A i \in 1 .. Len(events) : Delivered[i] = events[i].c
  BY DEF Delivered, Named
(* What has ended by now was heard ...                                     *)
<1>8. ASSUME NEW c \in 1 .. Len(Fields[msg]), Meaning!Heard(msg, c), Meaning!LastByte(msg, c) <= fed
      PROVE  c \in Named(events)
  <2>1. c <= k /\ c \notin Awaited
    <3>1. PICK e \in 1 .. fed : Final(ConstructOf(msg, c), e)
      BY <1>1, <1>6, <1>8
    <3> QED BY <1>5, <3>1 DEF Exhausted
  <2>2. c \in 1 .. k
    BY <1>1, <1>4, <2>1
  <2> QED BY <1>5, <1>8, <2>1, <2>2 DEF Told
(* ... and what was heard has ended: the construct at the cursor, if it is *)
(* in flight, is awaited or is not heard.                                  *)
<1>9. ASSUME NEW c \in Named(events)
      PROVE  c \in 1 .. Len(Fields[msg]) /\ Meaning!Heard(msg, c) /\ Meaning!LastByte(msg, c) <= fed
  <2>1. c \in 1 .. k /\ Meaning!Heard(msg, c) /\ c \notin Awaited
    BY <1>5, <1>9 DEF Told
  <2>2. c \in 1 .. Len(Fields[msg])
    BY <1>1, <1>4, <2>1
  <2>3. PICK e \in 1 .. Len(wire) :
          e = Meaning!LastByte(msg, c) /\ Final(ConstructOf(msg, c), e) /\ wire[e].c = c
    BY <1>1, <1>6, <2>2, ConstructsEnd
  <2>4. ASSUME fed < e PROVE FALSE
    <3>1. a \in 1 .. Len(wire) /\ k = wire[a].c /\ a < e
      <4>1. a # 0
        BY <1>1, <1>4, <2>1, BegunTyped, <1>3 DEF k
      <4> QED BY <1>1, <1>3, <1>4, <2>4, <4>1
    <3>2. c = k
      BY <1>1, <1>4, <2>1, <2>2, <2>3, <3>1, WireTyped
    <3>3. CASE pending.tag = "none"
      <4>1. Boundary(a)
        BY <1>2, <3>3 DEF Placed
      <4>2. e <= a
        BY <1>1, <1>4, <2>3, <3>2, <4>1, EndedBy DEF k
      <4> QED BY <1>1, <3>1, <4>2
    <3>4. CASE pending.tag # "none"
      <4>1. pending.c = c /\ Awaited = {}
        BY <1>5, <2>1, <3>1, <3>2, <3>4 DEF Awaited
      <4> QED BY <1>5, <2>1, <3>4, <4>1
    <3> QED BY <3>3, <3>4
  <2> QED BY <1>1, <2>1, <2>2, <2>3, <2>4
<1>10. {Delivered[i] : i \in 1 .. Len(events)} =
         {c \in Meaning!Index(msg) : Meaning!Heard(msg, c) /\ Meaning!LastByte(msg, c) <= fed}
  BY <1>7, <1>8, <1>9 DEF Meaning!Index
<1>11. \A i, j \in 1 .. Len(events) : i < j => Delivered[i] < Delivered[j]
  BY <1>5, <1>7 DEF Told
<1>12. status = "COMPLETE" <=>
         fed = 0 \/ \E c \in Meaning!Index(msg) :
                      Meaning!LastByte(msg, c) = fed /\ Meaning!OpenAfter(msg, c) = 0
  BY <1>5, <1>6 DEF Whole, Open, Meaning!Index
<1> QED BY <1>10, <1>11, <1>12

LEMMA InitFollows == Init => Listening
<1> SUFFICES ASSUME Init PROVE Listening
  OBVIOUS
<1>1. held = 0 /\ pending.tag = "none"
  BY DEF Init, held, NoPending
<1> QED BY <1>1, FreshFollows DEF Init, Fresh

(* Whatever the message, the buffer and the chunks: as long as no verdict  *)
(* is given, the handler has heard exactly the constructs it takes that    *)
(* end in the bytes fed so far, each once and in the message's order, and  *)
(* feed answers COMPLETE exactly when the message may end here.            *)
THEOREM HearsAsSent == Spec => []HeardAsSent
<1>1. Spec => []Listening
  BY InitIInv, NextIInv, InitLocated, NextLocated, InitFollows, NextFollows, PTL DEF Spec
<1> QED BY <1>1, Invariance, CursorPlaced, ListeningHears, PTL

-----------------------------------------------------------------------------
(* Chunk invariance in full, and the refinement of DecodePromise: what the *)
(* handler has heard and what the decoder answers, verdicts included,      *)
(* depend on the bytes fed so far and on nothing else.  The theorems above *)
(* show it while no verdict is given; from here on the invariant follows   *)
(* the bytes that may earn one.                                            *)

(* The value bytes of construct c, up to byte b, of the varint that still  *)
(* goes on behind byte x.                                                  *)
Run(c, b, x) == {j \in ValueOf(msg, c) : j <= b /\ \A y \in j .. x : wire[y].cont}

(* A capped value whose header has just been read: the next step rejects.  *)
Parked == pc = "value" /\ resume = "none" /\ pending.capped

(* No byte behind x, and up to y, earns a verdict.                         *)
Clear(x, y) ==
  \A c \in 1 .. Len(Fields[msg]) : \A b \in Meaning!RejectBytes(msg, c) : ~(x < b /\ b <= y)

(* A discard knows what it drops and how long the varint in flight is.     *)
Discarding(a) ==
  pending.tag = "discard" =>
    /\ \A i \in HeaderOf(msg, pending.c) : i <= a
    /\ field(pending.c).kind \in Values
    /\ pending.bytes > 0 => field(pending.c).kind = "payload"
    /\ pending.vars > 0 => field(pending.c).kind = "varints"
    /\ pending.bytes = 0 => pending.vb = Cardinality(Run(pending.c, a, a))

(* A decoder without a verdict, at stream position a, has passed no byte   *)
(* that earns one, and a feed that returned has seen none.                 *)
Unjudged(a) ==
  /\ \A c \in 1 .. Len(Fields[msg]) : \A b \in Meaning!RejectBytes(msg, c) :
       b <= a => Parked /\ c = pending.c
  /\ pc = "idle" /\ ~broken =>
       \A c \in 1 .. Len(Fields[msg]) : \A b \in Meaning!RejectBytes(msg, c) : fed < b
  /\ resume = "visit" => ~pending.capped
  /\ Discarding(a)

(* A decoder with a verdict gives the message's, and has told the handler  *)
(* of everything before the construct that earned it.                      *)
Sentenced ==
  /\ Meaning!Rejected(msg, fed) /\ Verdict = Meaning!Verdict(msg)
  /\ Meaning!Listing(Delivered, Meaning!HeardBy(msg, fed))

Judged ==
  ~lost => /\ limit \/ status = "INVALID" => Sentenced
           /\ ~limit /\ status # "INVALID" => \A a \in {Consumed} : Unjudged(a)

-----------------------------------------------------------------------------
(* Numbers.                                                                *)

(* A set of naturals that is not empty has a least member.                 *)
LEMMA LeastNumber ==
  ASSUME NEW S \in SUBSET Nat, S # {}
  PROVE  \E n \in S : \A m \in S : n <= m
<1>1. PICK R : R = OpToRel(<, Nat)
  OBVIOUS
<1>2. IsWellFoundedOn(R, Nat)
  BY <1>1, NatLessThanWellFounded
<1>3. PICK n \in S : \A m \in S : ~(<<m, n>> \in R)
  BY <1>2, WFMin
<1>4. \A m \in S : ~(m < n)
  BY <1>1, <1>3 DEF OpToRel
<1> QED BY <1>3, <1>4

(* Lowest is the least member ...                                          *)
LEMMA LowestIs ==
  ASSUME NEW S \in SUBSET Nat, S # {}
  PROVE  Meaning!Lowest(S) \in S /\ \A m \in S : Meaning!Lowest(S) <= m
<1> DEFINE P(i) == i \in S /\ \A j \in S : i <= j
<1>1. \E i : P(i)
  BY LeastNumber
<1>2. Meaning!Lowest(S) = CHOOSE i \in S : \A j \in S : i <= j
  BY DEF Meaning!Lowest
<1> QED BY <1>1, <1>2

(* ... and Highest that of a set which has one above all others.           *)
LEMMA HighestIs ==
  ASSUME NEW S \in SUBSET Nat, NEW h \in S, \A j \in S : j <= h
  PROVE  Meaning!Highest(S) = h
<1> DEFINE P(i) == i \in S /\ \A j \in S : j <= i
<1>1. P(h)
  OBVIOUS
<1>2. Meaning!Highest(S) = CHOOSE i \in S : \A j \in S : j <= i
  BY DEF Meaning!Highest
<1>3. P(Meaning!Highest(S))
  BY <1>1, <1>2
<1>4. PICK i : i = Meaning!Highest(S)
  OBVIOUS
<1>5. i \in S /\ h \in Nat /\ i <= h /\ h <= i
  BY <1>1, <1>3, <1>4
<1>6. i \in Nat
  BY <1>5
<1> QED BY <1>4, <1>5, <1>6

-----------------------------------------------------------------------------
(* What earns a verdict, read off the message.                             *)

LEMMA MeaningOf ==
  ASSUME msg \in Messages, NEW c \in 1 .. Len(Fields[msg])
  PROVE  /\ Meaning!Of(msg, c) = ConstructOf(msg, c)
         /\ Meaning!OfItem(msg, c, 0) = HeaderOf(msg, c)
         /\ Meaning!Index(msg) = 1 .. Len(Fields[msg])
  BY DEF Meaning!Of, Meaning!OfItem, Meaning!Index, ConstructOf, HeaderOf

LEMMA LastHeader ==
  ASSUME msg \in Messages, NEW c \in 1 .. Len(Fields[msg]), NEW h, Final(HeaderOf(msg, c), h)
  PROVE  Meaning!LastHeaderByte(msg, c) = h
<1>1. HeaderOf(msg, c) \in SUBSET Nat
  BY WireTyped DEF HeaderOf, ConstructOf
<1>2. Meaning!LastHeaderByte(msg, c) = Meaning!Highest(HeaderOf(msg, c))
  BY MeaningOf DEF Meaning!LastHeaderByte
<1> QED BY <1>1, <1>2, HighestIs DEF Final

(* A construct whose header earns a verdict: the header byte it ends in.   *)
Condemned(c) ==
  \/ Meaning!BadHeader(msg, c)
  \/ field(c).kind \in Values /\ Meaning!Heard(msg, c) /\ field(c).over

(* A byte of the value of c that is one too many for its varint.           *)
TooLong(c, b) ==
  /\ b \in ValueOf(msg, c) /\ field(c).kind \in {"scalar", "varints"}
  /\ Cardinality(Run(c, b, b - 1)) = VarintMax /\ wire[b].big

(* The bytes of one varint up to b: those of its item.                     *)
LEMMA ItemRun ==
  ASSUME msg \in Messages, NEW c \in 1 .. Len(Fields[msg]), NEW b \in ValueOf(msg, c),
         field(c).kind \in {"scalar", "varints"}
  PROVE  {j \in Meaning!OfItem(msg, c, wire[b].k) : j <= b} = Run(c, b, b - 1)
<1>1. /\ b \in 1 .. Len(wire) /\ wire[b].c = c /\ wire[b].k > 0 /\ b \in Int
      /\ \A j \in ValueOf(msg, c) : j \in 1 .. Len(wire) /\ j \in Int /\ wire[j].k \in Nat
  BY WireTyped DEF ValueOf, ConstructOf, wire
<1>2. ASSUME NEW j \in ValueOf(msg, c), j <= b
      PROVE  wire[j].k = wire[b].k <=> \A y \in j .. b - 1 : wire[y].cont
  <2>1. CASE j = b
    BY <1>1, <2>1
  <2>2. CASE j < b
    BY <2>2, ItemsAssumption DEF field, wire
  <2> QED BY <1>1, <1>2, <2>1, <2>2
<1>3. \A j : j \in Meaning!OfItem(msg, c, wire[b].k) <=> j \in ValueOf(msg, c) /\ wire[j].k = wire[b].k
  BY <1>1 DEF Meaning!OfItem, Meaning!Of, ValueOf, ConstructOf, wire
<1> QED BY <1>2, <1>3 DEF Run

LEMMA RejectBytesAre ==
  ASSUME msg \in Messages, NEW c \in 1 .. Len(Fields[msg]), NEW b
  PROVE  /\ Condemned(c) =>
              (b \in Meaning!RejectBytes(msg, c) <=> Final(HeaderOf(msg, c), b))
         /\ ~Condemned(c) =>
              (b \in Meaning!RejectBytes(msg, c) <=>
                 \/ TooLong(c, b)
                 \/ /\ field(c).kind = "payload" /\ Meaning!Heard(msg, c)
                    /\ Final(ConstructOf(msg, c), b)
                    /\ \E i \in ValueOf(msg, c) : wire[i].bad
                 \/ /\ field(c).kind \in {"scalar", "varints"} /\ Meaning!Heard(msg, c)
                    /\ b \in ValueOf(msg, c) /\ ~wire[b].cont /\ wire[b].bad)
<1>1. PICK h \in HeaderOf(msg, c) : Final(HeaderOf(msg, c), h)
  BY EncodingAssumption
<1>2. PICK e \in 1 .. Len(wire) : Final(ConstructOf(msg, c), e)
  BY ConstructsEnd
<1>3. Meaning!LastHeaderByte(msg, c) = h /\ Meaning!LastByte(msg, c) = e
  BY <1>1, <1>2, LastHeader, ConstructsEnd
<1>4. \A x : Final(HeaderOf(msg, c), x) => x = h
  <2>1. \A x \in HeaderOf(msg, c) : x \in Int
    BY WireTyped DEF HeaderOf, ConstructOf
  <2> QED BY <1>1, <2>1 DEF Final
<1>5. \A x : Final(ConstructOf(msg, c), x) => x = e
  BY <1>2, <1>3, ConstructsEnd
<1>6. Meaning!IsValue(msg, c) <=> field(c).kind \in Values
  BY DEF Meaning!IsValue, Values, field
<1>7. Meaning!BadHeader(msg, c) \/ (Meaning!IsValue(msg, c) /\ Meaning!Heard(msg, c) /\ Fields[msg][c].over)
        <=> Condemned(c)
  BY <1>6 DEF Condemned, field
<1>8. CASE Condemned(c)
  <2>1. Meaning!RejectBytes(msg, c) = {h}
    BY <1>3, <1>7, <1>8 DEF Meaning!RejectBytes
  <2> QED BY <1>1, <1>4, <1>8, <2>1
<1>9. CASE ~Condemned(c)
  <2>1. Meaning!RejectBytes(msg, c) = Meaning!OverlongBytes(msg, c) \cup
          (IF Fields[msg][c].kind = "payload" /\ Meaning!ContraryBytes(msg, c) # {}
           THEN {Meaning!LastByte(msg, c)} ELSE Meaning!ContraryBytes(msg, c))
    BY <1>7, <1>9 DEF Meaning!RejectBytes
  <2>2. b \in Meaning!OverlongBytes(msg, c) <=> TooLong(c, b)
    <3>1. ASSUME b \in ValueOf(msg, c), field(c).kind \in {"scalar", "varints"}
          PROVE  Meaning!Cardinality({j \in Meaning!OfItem(msg, c, Bytes[msg][b].k) : j <= b})
                   = Cardinality(Run(c, b, b - 1))
      BY <3>1, ItemRun, SameCount DEF wire
    <3>2. b \in Meaning!Of(msg, c) /\ Bytes[msg][b].k > 0 <=> b \in ValueOf(msg, c)
      BY MeaningOf DEF ValueOf
    <3> QED BY <3>1, <3>2 DEF Meaning!OverlongBytes, TooLong, field, wire
  <2>3. \A i : i \in Meaning!ContraryBytes(msg, c) <=>
               /\ i \in ValueOf(msg, c) /\ field(c).kind \in Values /\ Meaning!Heard(msg, c)
               /\ wire[i].bad
    <3>1. \A i \in ConstructOf(msg, c) : wire[i].bad => wire[i].k > 0
      BY ItemsAssumption DEF wire
    <3> QED BY <1>6, <3>1, MeaningOf DEF Meaning!ContraryBytes, ValueOf, wire
  <2>4. \A i \in ValueOf(msg, c) : wire[i].bad => field(c).kind = "payload" \/ ~wire[i].cont
    BY ItemsAssumption DEF wire, field, ValueOf
  <2>5. CASE field(c).kind = "payload"
    BY <1>2, <1>3, <1>5, <1>9, <2>1, <2>2, <2>3, <2>5 DEF field, Values
  <2>6. CASE field(c).kind # "payload"
    BY <1>9, <2>1, <2>2, <2>3, <2>4, <2>6 DEF field, Values
  <2> QED BY <2>5, <2>6
<1> QED BY <1>8, <1>9

LEMMA RejectPlace ==
  ASSUME msg \in Messages, NEW c \in 1 .. Len(Fields[msg]), NEW b \in Meaning!RejectBytes(msg, c)
  PROVE  b \in 1 .. Len(wire) /\ wire[b].c = c /\ b \in Nat
<1>1. Final(HeaderOf(msg, c), b) \/ b \in ValueOf(msg, c) \/ Final(ConstructOf(msg, c), b)
  BY RejectBytesAre DEF TooLong
<1>2. b \in ConstructOf(msg, c)
  BY <1>1 DEF Final, HeaderOf, ValueOf
<1> QED BY <1>2, WireTyped DEF ConstructOf, wire

(* The offender is the first construct that earns a verdict, if one does.  *)
LEMMA OffenderIs ==
  ASSUME msg \in Messages
  PROVE  \/ /\ Meaning!Offender(msg) = 0
            /\ \A c \in 1 .. Len(Fields[msg]) : Meaning!RejectBytes(msg, c) = {}
         \/ /\ Meaning!Offender(msg) \in 1 .. Len(Fields[msg])
            /\ Meaning!RejectBytes(msg, Meaning!Offender(msg)) # {}
            /\ \A c \in 1 .. Len(Fields[msg]) :
                 Meaning!RejectBytes(msg, c) # {} => Meaning!Offender(msg) <= c
<1> DEFINE bad == {c \in 1 .. Len(Fields[msg]) : Meaning!RejectBytes(msg, c) # {}}
<1>1. Meaning!Offender(msg) = IF bad = {} THEN 0 ELSE Meaning!Lowest(bad)
  BY MeaningOf DEF Meaning!Offender, Meaning!Index
<1>2. CASE bad = {}
  BY <1>1, <1>2
<1>3. CASE bad # {}
  <2>1. bad \in SUBSET Nat
    BY WireTyped
  <2>2. Meaning!Lowest(bad) \in bad /\ \A m \in bad : Meaning!Lowest(bad) <= m
    <3> HIDE DEF bad
    <3> QED BY <1>3, <2>1, LowestIs
  <2> QED BY <1>1, <1>3, <2>2
<1> QED BY <1>2, <1>3

(* A message is rejected by its first n bytes exactly if one of them earns *)
(* a verdict.                                                              *)
LEMMA RejectedIff ==
  ASSUME msg \in Messages, NEW n \in Nat
  PROVE  Meaning!Rejected(msg, n) <=>
           \E c \in 1 .. Len(Fields[msg]) : \E b \in Meaning!RejectBytes(msg, c) : b <= n
<1> DEFINE o == Meaning!Offender(msg)
           low == Meaning!Lowest(Meaning!RejectBytes(msg, o))
<1>1. Meaning!Rejected(msg, n) <=> o # 0 /\ low <= n
  BY DEF Meaning!Rejected
<1>2. ASSUME o # 0
      PROVE  /\ o \in 1 .. Len(Fields[msg]) /\ low \in Meaning!RejectBytes(msg, o)
             /\ \A b \in Meaning!RejectBytes(msg, o) : low <= b
  <2>1. o \in 1 .. Len(Fields[msg]) /\ Meaning!RejectBytes(msg, o) # {}
    BY <1>2, OffenderIs, WireTyped
  <2>2. Meaning!RejectBytes(msg, o) \in SUBSET Nat
    BY <2>1, RejectPlace
  <2> QED BY <2>1, <2>2, LowestIs
<1>3. ASSUME NEW c \in 1 .. Len(Fields[msg]), NEW b \in Meaning!RejectBytes(msg, c), b <= n
      PROVE  o # 0 /\ low <= n
  <2>1. o # 0 /\ o <= c
    BY OffenderIs, WireTyped
  <2>2. /\ o \in 1 .. Len(Fields[msg]) /\ low \in 1 .. Len(wire) /\ wire[low].c = o
        /\ b \in 1 .. Len(wire) /\ wire[b].c = c
    BY <1>2, <2>1, RejectPlace
  <2>3. CASE o = c
    BY <1>2, <1>3, <2>1, <2>2, <2>3, WireTyped
  <2>4. CASE o # c
    <3> HIDE DEF o, low
    <3>1. ~(b < low)
      BY <2>1, <2>2, <2>4, WireTyped
    <3> QED BY <1>3, <2>1, <2>2, <3>1, WireTyped
  <2> QED BY <2>3, <2>4
<1> HIDE DEF o, low
<1> QED BY <1>1, <1>2, <1>3

(* Everything that ends in bytes none of which earns a verdict lies before *)
(* the offender; what lies before the offender earns none.                 *)
LEMMA BeforeOffender ==
  ASSUME msg \in Messages, NEW n \in Nat, ~Meaning!Rejected(msg, n),
         NEW c \in 1 .. Len(Fields[msg]), Meaning!LastByte(msg, c) <= n
  PROVE  Meaning!Offender(msg) # 0 => c < Meaning!Offender(msg)
<1> DEFINE o == Meaning!Offender(msg)
<1>1. SUFFICES ASSUME o # 0, ~(c < o) PROVE FALSE
  OBVIOUS
<1>2. o \in 1 .. Len(Fields[msg]) /\ Meaning!RejectBytes(msg, o) # {}
  BY <1>1, OffenderIs, WireTyped
<1>3. PICK b \in Meaning!RejectBytes(msg, o) : b \in 1 .. Len(wire) /\ wire[b].c = o
  BY <1>2, RejectPlace
<1>4. n < b
  BY <1>2, <1>3, RejectedIff, WireTyped
<1>5. PICK e \in 1 .. Len(wire) :
        e = Meaning!LastByte(msg, c) /\ Final(ConstructOf(msg, c), e) /\ wire[e].c = c
  BY ConstructsEnd
<1>6. e < b
  BY <1>3, <1>4, <1>5, WireTyped
<1>7. c <= o
  BY <1>3, <1>5, <1>6, WireTyped
<1>8. c = o
  BY <1>1, <1>2, <1>7, WireTyped
<1>9. b \in ConstructOf(msg, c)
  BY <1>3, <1>8 DEF ConstructOf, wire
<1> QED BY <1>3, <1>5, <1>6, <1>9, WireTyped DEF Final

(* The construct that earned the verdict is the first with a byte that     *)
(* earns one.                                                              *)
LEMMA OffenderAt ==
  ASSUME msg \in Messages, NEW c \in 1 .. Len(Fields[msg]), NEW b \in Meaning!RejectBytes(msg, c),
         \A d \in 1 .. Len(Fields[msg]) : d < c => Meaning!RejectBytes(msg, d) = {}
  PROVE  Meaning!Offender(msg) = c /\ \A n \in Nat : b <= n => Meaning!Rejected(msg, n)
<1>1. Meaning!Offender(msg) \in 1 .. Len(Fields[msg]) /\ Meaning!Offender(msg) <= c
      /\ Meaning!RejectBytes(msg, Meaning!Offender(msg)) # {}
  BY OffenderIs
<1>2. ~(Meaning!Offender(msg) < c)
  BY <1>1
<1>3. Meaning!Offender(msg) = c
  BY <1>1, <1>2, WireTyped
<1>4. \A n \in Nat : b <= n => Meaning!Rejected(msg, n)
  BY RejectedIff
<1> QED BY <1>3, <1>4

LEMMA VerdictIs ==
  ASSUME msg \in Messages, NEW c \in 1 .. Len(Fields[msg]), Meaning!Offender(msg) = c
  PROVE  Meaning!Verdict(msg) =
           IF Condemned(c) /\ ~Meaning!BadHeader(msg, c) THEN "LIMIT" ELSE "INVALID"
<1>1. Meaning!IsValue(msg, c) <=> field(c).kind \in Values
  BY DEF Meaning!IsValue, Values, field
<1> QED BY <1>1 DEF Meaning!Verdict, Condemned, field

-----------------------------------------------------------------------------
(* Counting the bytes of a varint: what the window shows of it and what    *)
(* earlier chunks had of it make up what the stream has.                   *)

LEMMA RunSplit ==
  ASSUME msg \in Messages, NEW c, NEW a \in Int, NEW b \in Int, NEW x \in Int,
         a <= b, a <= x, x <= b, a + 1 .. b \subseteq ValueOf(msg, c)
  PROVE  Cardinality(Run(c, b, x)) =
           Cardinality({j \in a + 1 .. b : \A y \in j .. x : wire[y].cont})
             + (IF \E y \in a + 1 .. x : ~wire[y].cont THEN 0 ELSE Cardinality(Run(c, a, a)))
<1> DEFINE new == {j \in a + 1 .. b : \A y \in j .. x : wire[y].cont}
           old == IF \E y \in a + 1 .. x : ~wire[y].cont THEN {} ELSE Run(c, a, a)
<1>1. ValueOf(msg, c) \in SUBSET (1 .. Len(wire)) /\ Len(wire) \in Nat
  BY WireTyped DEF ValueOf, ConstructOf, wire
<1>2. Run(c, b, x) = new \cup old
  <2>1. ASSUME NEW j \in ValueOf(msg, c), j <= a
        PROVE  (\A y \in j .. x : wire[y].cont) <=>
                 (\A y \in j .. a : wire[y].cont) /\ (\A y \in a + 1 .. x : wire[y].cont)
    <3>1. j \in Int
      BY <1>1, <2>1
    <3>2. \A y : y \in j .. x <=> y \in j .. a \/ y \in a + 1 .. x
      BY <2>1, <3>1
    <3> QED BY <3>2
  <2>2. \A j \in ValueOf(msg, c) : j \in Int /\ (j <= b <=> j <= a \/ j \in a + 1 .. b)
    BY <1>1
  <2>3. \A j \in a + 1 .. b : j \in ValueOf(msg, c) /\ ~(j <= a) /\ j <= b
    OBVIOUS
  <2>4. \A j : j \in Run(c, b, x) <=>
           j \in ValueOf(msg, c) /\ j <= b /\ \A y \in j .. x : wire[y].cont
    BY DEF Run
  <2>5. \A j : j \in Run(c, a, a) <=>
           j \in ValueOf(msg, c) /\ j <= a /\ \A y \in j .. a : wire[y].cont
    BY DEF Run
  <2>6. \A j : j \in old <=> j \in Run(c, a, a) /\ \A y \in a + 1 .. x : wire[y].cont
    OBVIOUS
  <2>7. \A j : j \in new <=> j \in a + 1 .. b /\ \A y \in j .. x : wire[y].cont
    OBVIOUS
  <2> HIDE DEF old, new
  <2>8. ASSUME NEW j PROVE j \in Run(c, b, x) <=> j \in new \/ j \in old
    BY <2>1, <2>2, <2>3, <2>4, <2>5, <2>6, <2>7
  <2> QED BY <2>8
<1>3. new \cap old = {}
  BY <1>1 DEF Run
<1>4. IsFiniteSet(new) /\ IsFiniteSet(old)
  <2>1. new \in SUBSET (a + 1 .. b) /\ old \in SUBSET (1 .. Len(wire))
    BY <1>1 DEF Run
  <2>2. IsFiniteSet(a + 1 .. b) /\ IsFiniteSet(1 .. Len(wire))
    <3>1. Len(wire) \in Int /\ a + 1 \in Int
      BY <1>1
    <3> QED BY <3>1, FS_Interval
  <2> HIDE DEF new, old
  <2> QED BY <2>1, <2>2, FS_Subset
<1>5. Cardinality(new) \in Nat /\ Cardinality(old) \in Nat
  <2> HIDE DEF new, old
  <2> QED BY <1>4, FS_CardinalityType
<1>6. Cardinality(new \cup old) = Cardinality(new) + Cardinality(old)
  <2> HIDE DEF new, old
  <2>1. Cardinality(new \cap old) = 0
    BY <1>3, FS_EmptySet
  <2>2. Cardinality(new \cup old) = Cardinality(new) + Cardinality(old) - Cardinality(new \cap old)
    BY <1>4, FS_Union
  <2> QED BY <1>5, <2>1, <2>2
<1>7. Cardinality(old) =
        IF \E y \in a + 1 .. x : ~wire[y].cont THEN 0 ELSE Cardinality(Run(c, a, a))
  <2>1. CASE \E y \in a + 1 .. x : ~wire[y].cont
    <3>1. old = {}
      BY <2>1
    <3> HIDE DEF old
    <3> QED BY <2>1, <3>1, FS_EmptySet
  <2>2. CASE ~ \E y \in a + 1 .. x : ~wire[y].cont
    <3>1. old = Run(c, a, a)
      BY <2>2
    <3> HIDE DEF old
    <3> QED BY <2>2, <3>1
  <2> QED BY <2>1, <2>2
<1>8. Cardinality(Run(c, b, x)) = Cardinality(new) + Cardinality(old)
  <2> HIDE DEF new, old
  <2> QED BY <1>2, <1>6
<1> HIDE DEF old
<1> QED BY <1>7, <1>8

LEMMA RunSeen ==
  ASSUME IInv, ~lost, Base + pos >= 0, NEW c, NEW q \in pos .. Len(view), NEW z \in pos .. q,
         Base + pos + 1 .. Base + q \subseteq ValueOf(msg, c)
  PROVE  Cardinality(Run(c, Base + q, Base + z)) =
           Cardinality({r \in pos + 1 .. q : \A e \in Ends(pos) : e <= z => e < r})
             + (IF \E e \in Ends(pos) : e <= z THEN 0
                ELSE Cardinality(Run(c, Base + pos, Base + pos)))
<1> DEFINE S == {r \in pos + 1 .. q : \A e \in Ends(pos) : e <= z => e < r}
           T == {j \in Base + pos + 1 .. Base + q : \A y \in j .. Base + z : wire[y].cont}
<1>1. /\ Base \in Int /\ pos \in Nat /\ Len(view) \in Nat /\ q \in Int /\ z \in Int
      /\ pos <= z /\ z <= q /\ q <= Len(view) /\ msg \in Messages
  BY Window
<1>2. ASSUME NEW e \in Int
      PROVE  e \in Ends(pos) /\ e <= z <=> Base + e \in Base + pos + 1 .. Base + z /\ ~wire[Base + e].cont
  <2>1. e \in pos + 1 .. Len(view) => at(e) = wire[Base + e]
    BY Seen
  <2> QED BY <1>1, <2>1 DEF Ends
<1>3. ASSUME NEW r \in Int PROVE r \in S <=> Base + r \in T
  <2>1. r \in pos + 1 .. q <=> Base + r \in Base + pos + 1 .. Base + q
    BY <1>1
  <2>2. ASSUME r \in pos + 1 .. q, \A e \in Ends(pos) : e <= z => e < r,
               NEW y \in Base + r .. Base + z
        PROVE  wire[y].cont
    <3>1. y - Base \in Int /\ Base + (y - Base) = y /\ y \in Base + pos + 1 .. Base + z /\ ~(y - Base < r)
      BY <1>1, <2>2
    <3> QED BY <1>2, <2>2, <3>1
  <2>3. ASSUME r \in pos + 1 .. q, \A y \in Base + r .. Base + z : wire[y].cont,
               NEW e \in Ends(pos), e <= z
        PROVE  e < r
    <3>1. e \in Int
      BY <1>1 DEF Ends
    <3>2. Base + e \in Base + pos + 1 .. Base + z /\ ~wire[Base + e].cont
      BY <1>2, <2>3, <3>1
    <3>3. Base + e \notin Base + r .. Base + z
      BY <2>3, <3>2
    <3> QED BY <1>1, <3>1, <3>2, <3>3
  <2> QED BY <2>1, <2>2, <2>3
<1>4. S \in SUBSET Int /\ T \in SUBSET Int /\ IsFiniteSet(S)
  <2>1. S \in SUBSET (pos + 1 .. q)
    OBVIOUS
  <2>2. IsFiniteSet(pos + 1 .. q)
    BY <1>1, FS_Interval
  <2>3. IsFiniteSet(S)
    <3> HIDE DEF S
    <3> QED BY <2>1, <2>2, FS_Subset
  <2> QED BY <1>1, <2>3
<1>5. Cardinality(T) = Cardinality(S)
  <2> HIDE DEF S, T
  <2> QED BY <1>1, <1>3, <1>4, CountShift
<1>6. (\E e \in Ends(pos) : e <= z) <=> \E y \in Base + pos + 1 .. Base + z : ~wire[y].cont
  <2>1. ASSUME NEW e \in Ends(pos), e <= z
        PROVE  \E y \in Base + pos + 1 .. Base + z : ~wire[y].cont
    <3>1. e \in Int
      BY <1>1 DEF Ends
    <3> QED BY <1>2, <2>1, <3>1
  <2>2. ASSUME NEW y \in Base + pos + 1 .. Base + z, ~wire[y].cont
        PROVE  \E e \in Ends(pos) : e <= z
    <3>1. y - Base \in Int /\ Base + (y - Base) = y
      BY <1>1, <2>2
    <3> QED BY <1>2, <2>2, <3>1
  <2> QED BY <2>1, <2>2
<1>7. Cardinality(Run(c, Base + q, Base + z)) =
        Cardinality({j \in Base + pos + 1 .. Base + q : \A y \in j .. Base + z : wire[y].cont})
          + (IF \E y \in Base + pos + 1 .. Base + z : ~wire[y].cont THEN 0
             ELSE Cardinality(Run(c, Base + pos, Base + pos)))
  <2>1. PICK a, b, x : a = Base + pos /\ b = Base + q /\ x = Base + z
    OBVIOUS
  <2>2. a \in Int /\ b \in Int /\ x \in Int /\ a <= b /\ a <= x /\ x <= b
        /\ a + 1 .. b \subseteq ValueOf(msg, c)
    BY <1>1, <2>1
  <2>3. Cardinality(Run(c, b, x)) =
          Cardinality({j \in a + 1 .. b : \A y \in j .. x : wire[y].cont})
            + (IF \E y \in a + 1 .. x : ~wire[y].cont THEN 0 ELSE Cardinality(Run(c, a, a)))
    BY <1>1, <2>2, RunSplit
  <2> QED BY <2>1, <2>3
<1> QED BY <1>5, <1>6, <1>7

LEMMA OrdinalSeen ==
  ASSUME IInv, ~lost, Base + pos >= 0, NEW c, NEW q \in pos + 1 .. Len(view), NEW vb,
         vb = Cardinality(Run(c, Base + pos, Base + pos)),
         Base + pos + 1 .. Base + q \subseteq ValueOf(msg, c)
  PROVE  Ordinal(pos, vb, q) = Cardinality(Run(c, Base + q, Base + q - 1))
<1>1. /\ Base \in Int /\ pos \in Nat /\ Len(view) \in Nat /\ q \in Int
      /\ q \in pos .. Len(view) /\ q - 1 \in pos .. q /\ Base + (q - 1) = Base + q - 1
  BY Window
<1>2. \A e \in Ends(pos) : e <= q - 1 <=> e < q
  BY <1>1 DEF Ends
<1>3. PICK z : z = q - 1
  OBVIOUS
<1>4. Cardinality(Run(c, Base + q, Base + z)) =
           Cardinality({r \in pos + 1 .. q : \A e \in Ends(pos) : e <= z => e < r})
             + (IF \E e \in Ends(pos) : e <= z THEN 0
                ELSE Cardinality(Run(c, Base + pos, Base + pos)))
  BY <1>1, <1>3, RunSeen
<1>5. {r \in pos + 1 .. q : \A e \in Ends(pos) : e <= z => e < r}
        = {r \in pos + 1 .. q : \A e \in Ends(pos) : e < q => e < r}
  BY <1>2, <1>3
<1>6. (\E e \in Ends(pos) : e <= z) <=> (\E e \in Ends(pos) : e < q)
  BY <1>2, <1>3
<1> QED BY <1>1, <1>3, <1>4, <1>5, <1>6 DEF Ordinal

LEMMA InFlightSeen ==
  ASSUME IInv, ~lost, Base + pos >= 0, NEW c,
         pending.vb = Cardinality(Run(c, Base + pos, Base + pos)),
         Base + pos + 1 .. fed \subseteq ValueOf(msg, c)
  PROVE  InFlight = Cardinality(Run(c, fed, fed))
<1>1. /\ Base \in Int /\ pos \in Nat /\ Len(view) \in Nat /\ Base + Len(view) = fed
      /\ Len(view) \in pos .. Len(view)
  BY Window
<1>2. \A e \in Ends(pos) : e <= Len(view)
  BY <1>1 DEF Ends
<1>3. PICK q : q = Len(view)
  OBVIOUS
<1>4. q \in pos .. Len(view) /\ q \in pos .. q /\ Base + q = fed
      /\ \A e \in Ends(pos) : e <= q
  BY <1>1, <1>2, <1>3
<1>5. Cardinality(Run(c, Base + q, Base + q)) =
           Cardinality({r \in pos + 1 .. q : \A e \in Ends(pos) : e <= q => e < r})
             + (IF \E e \in Ends(pos) : e <= q THEN 0
                ELSE Cardinality(Run(c, Base + pos, Base + pos)))
  BY <1>4, RunSeen
<1>6. {r \in pos + 1 .. q : \A e \in Ends(pos) : e <= q => e < r}
        = {r \in pos + 1 .. Len(view) : \A e \in Ends(pos) : e < r}
  BY <1>3, <1>4
<1>7. (\E e \in Ends(pos) : e <= q) <=> Ends(pos) # {}
  BY <1>4
<1> QED BY <1>4, <1>5, <1>6, <1>7 DEF InFlight

-----------------------------------------------------------------------------
(* What the window shows of a value earns a verdict exactly if the stream  *)
(* does.                                                                   *)

(* Behind its header a construct is its value, to the end.                 *)
LEMMA ValueAhead ==
  ASSUME msg \in Messages, NEW a \in 1 .. Len(wire), NEW c, wire[a].c = c,
         \A i \in HeaderOf(msg, c) : i <= a,
         NEW e, Final(ConstructOf(msg, c), e)
  PROVE  /\ a + 1 .. e \subseteq ValueOf(msg, c) /\ a <= e /\ e \in 1 .. Len(wire)
         /\ \A b \in ConstructOf(msg, c) : b \in 1 .. Len(wire) /\ b <= e
<1>1. /\ e \in 1 .. Len(wire) /\ wire[e].c = c /\ a \in ConstructOf(msg, c) /\ Len(wire) \in Nat
      /\ c \in 1 .. Len(Fields[msg]) /\ c \in Nat
  <2>1. e \in 1 .. Len(wire) /\ wire[e].c = c /\ c \in 1 .. Len(Fields[msg])
    BY ConstructsEnd
  <2>2. a \in ConstructOf(msg, c)
    BY DEF ConstructOf, wire
  <2> QED BY <2>1, <2>2, WireTyped
<1>2. a <= e
  BY <1>1 DEF Final
<1>3. ASSUME NEW i \in a + 1 .. e PROVE i \in ValueOf(msg, c)
  <2>1. i \in 1 .. Len(wire) /\ a < i /\ i <= e /\ i \in Int /\ e \in Int
    BY <1>1
  <2>2. wire[a].c <= wire[i].c /\ wire[i].c <= wire[e].c
    BY <1>1, <2>1, WireTyped
  <2>3. wire[i].c = c /\ wire[i].k \in Nat
    BY <1>1, <2>1, <2>2, WireTyped
  <2>4. i \in ConstructOf(msg, c)
    BY <2>1, <2>3 DEF ConstructOf, wire
  <2>5. i \notin HeaderOf(msg, c)
    BY <1>1, <2>1
  <2> QED BY <2>3, <2>4, <2>5 DEF HeaderOf, ValueOf, wire
<1>4. \A b \in ConstructOf(msg, c) : b \in 1 .. Len(wire) /\ b <= e
  BY DEF Final, ConstructOf, wire
<1> QED BY <1>1, <1>2, <1>3, <1>4

LEMMA ReachedSeen ==
  ASSUME IInv, ~lost, Base + pos >= 0, NEW c, NEW n \in Nat, Left(Base + pos, c, n),
         NEW e, Final(ConstructOf(msg, c), e), NEW q \in pos + 1 .. Len(view)
  PROVE  Reached(pos, n, q) <=> Base + q <= e
<1>1. /\ Base \in Int /\ pos \in Nat /\ Len(view) \in Nat /\ q \in Int /\ msg \in Messages
      /\ Base + pos \in Int /\ Base + q \in Int /\ Base + q - 1 \in Int
      /\ q - 1 \in pos .. Len(view) /\ Base + (q - 1) = Base + q - 1 /\ Base + pos < Base + q
  <2>1. Base \in Int /\ pos \in Nat /\ Len(view) \in Nat /\ msg \in Messages
    BY Window
  <2>2. q \in Int /\ pos < q /\ q <= Len(view)
    BY <2>1
  <2> QED BY <2>1, <2>2
<1>2. /\ e \in 1 .. Len(wire) /\ e \in Int /\ Base + pos <= e
      /\ Cardinality(EndsIn(Base + pos, e)) = n
      /\ Base + pos < e => ~wire[e].cont
  <2>1. PICK f \in 1 .. Len(wire) :
          /\ Final(ConstructOf(msg, c), f) /\ Base + pos <= f
          /\ Cardinality(EndsIn(Base + pos, f)) = n
          /\ Base + pos < f => ~wire[f].cont
    BY DEF Left
  <2>2. e = f /\ f \in Int
    BY <1>1, <2>1, ConstructsEnd, WireTyped
  <2> QED BY <2>1, <2>2
<1>0. PICK a, d : a = Base + pos /\ d = Base + q - 1
  OBVIOUS
<1> DEFINE A == EndsIn(a, e)
           B == EndsIn(a, d)
<1>3. Cardinality({x \in Ends(pos) : x < q}) = Cardinality(B)
  <2>1. \A x \in Ends(pos) : x <= q - 1 <=> x < q
    BY <1>1 DEF Ends
  <2>2. {x \in Ends(pos) : x <= q - 1} = {x \in Ends(pos) : x < q}
    BY <2>1
  <2>3. PICK z : z = q - 1
    OBVIOUS
  <2>4. Cardinality({x \in Ends(pos) : x <= z}) = Cardinality(EndsIn(Base + pos, Base + z))
    BY <1>1, <2>3, EndsSeen
  <2>5. Base + z = Base + q - 1 /\ {x \in Ends(pos) : x <= z} = {x \in Ends(pos) : x < q}
    BY <1>1, <2>2, <2>3
  <2> QED BY <1>0, <2>4, <2>5
<1>4. /\ IsFiniteSet(A) /\ IsFiniteSet(B) /\ Cardinality(A) = n /\ Cardinality(B) \in Nat
  <2>1. a \in Int /\ d \in Int /\ Cardinality(A) = n
    BY <1>0, <1>1, <1>2
  <2> QED BY <1>2, <2>1, FiniteEndsIn
<1>5. CASE Base + q <= e
  <2>1. e \in A /\ B \in SUBSET (A \ {e}) /\ Base + pos < e
    <3>1. a \in Int /\ d \in Int /\ a < e /\ d < e
      BY <1>0, <1>1, <1>2, <1>5
    <3>2. ~wire[e].cont
      BY <1>0, <1>2, <3>1
    <3> QED BY <1>0, <1>2, <3>1, <3>2 DEF EndsIn
  <2>2. IsFiniteSet(A \ {e}) /\ Cardinality(A \ {e}) = Cardinality(A) - 1
    <3> HIDE DEF A, B
    <3> QED BY <1>4, <2>1, FS_RemoveElement
  <2>3. Cardinality(B) <= Cardinality(A \ {e})
    <3> HIDE DEF A, B
    <3> QED BY <2>1, <2>2, FS_Subset
  <2>4. Cardinality(B) < n /\ n > 0
    <3> HIDE DEF A, B
    <3> QED BY <1>4, <2>2, <2>3
  <2> QED BY <1>3, <1>5, <2>4 DEF Reached
<1>6. CASE ~(Base + q <= e)
  <2>1. A \in SUBSET B
    <3>1. a \in Int /\ d \in Int /\ e <= d
      BY <1>0, <1>1, <1>2, <1>6
    <3> QED BY <1>2, <3>1 DEF EndsIn
  <2>2. Cardinality(A) <= Cardinality(B)
    <3> HIDE DEF A, B
    <3> QED BY <1>4, <2>1, FS_Subset
  <2>3. ~(Cardinality(B) < n)
    <3> HIDE DEF A, B
    <3> QED BY <1>4, <2>2
  <2> QED BY <1>3, <1>6, <2>3 DEF Reached
<1> QED BY <1>5, <1>6

LEMMA VarintsSeen ==
  ASSUME IInv, ~lost, Base + pos \in 1 .. Len(wire), NEW c, wire[Base + pos].c = c,
         \A i \in HeaderOf(msg, c) : i <= Base + pos,
         NEW n \in Nat, Left(Base + pos, c, n)
  PROVE  /\ \A vb : vb = Cardinality(Run(c, Base + pos, Base + pos)) =>
              (Malformed(pos, n, vb) <=>
                 \E b \in ValueOf(msg, c) : /\ Base + pos < b /\ b <= fed
                                            /\ Cardinality(Run(c, b, b - 1)) = VarintMax
                                            /\ wire[b].big)
         /\ (\E q \in Ends(pos) : Reached(pos, n, q) /\ at(q).bad) <=>
              \E b \in ValueOf(msg, c) : /\ Base + pos < b /\ b <= fed
                                         /\ ~wire[b].cont /\ wire[b].bad
<1>1. /\ Base \in Int /\ pos \in Nat /\ Len(view) \in Nat /\ msg \in Messages
      /\ Base + pos >= 0 /\ Base + Len(view) = fed /\ fed \in Nat
  BY Window
<1>2. PICK e \in 1 .. Len(wire) : Final(ConstructOf(msg, c), e)
  BY DEF Left
<1>3. /\ Base + pos + 1 .. e \subseteq ValueOf(msg, c) /\ e \in Int
      /\ \A b \in ConstructOf(msg, c) : b \in 1 .. Len(wire) /\ b <= e /\ b \in Int
  <2>1. PICK a : a = Base + pos
    OBVIOUS
  <2>2. /\ a + 1 .. e \subseteq ValueOf(msg, c)
        /\ \A b \in ConstructOf(msg, c) : b \in 1 .. Len(wire) /\ b <= e
    <3>1. a \in 1 .. Len(wire) /\ wire[a].c = c /\ \A i \in HeaderOf(msg, c) : i <= a
      BY <2>1
    <3> QED BY <1>1, <1>2, <3>1, ValueAhead
  <2> QED BY <1>2, <2>1, <2>2
(* The positions of the window that are read are those of the value.       *)
<1>4. ASSUME NEW q \in pos + 1 .. Len(view), Reached(pos, n, q)
      PROVE  /\ Base + q \in ValueOf(msg, c) /\ Base + pos < Base + q /\ Base + q <= fed
             /\ at(q) = wire[Base + q] /\ Base + pos + 1 .. Base + q \subseteq ValueOf(msg, c)
  <2>1. Base + q <= e
    BY <1>1, <1>2, <1>4, ReachedSeen
  <2>2. q \in Int /\ Base + q \in Base + pos + 1 .. e
    BY <1>1, <2>1
  <2>3. Base + pos + 1 .. Base + q \subseteq Base + pos + 1 .. e
    BY <1>1, <1>3, <2>1, <2>2
  <2> QED BY <1>1, <1>3, <2>2, <2>3, Seen
<1>5. ASSUME NEW b \in ValueOf(msg, c), Base + pos < b, b <= fed
      PROVE  /\ b - Base \in pos + 1 .. Len(view) /\ Base + (b - Base) = b
             /\ Reached(pos, n, b - Base)
  <2>1. b \in ConstructOf(msg, c) /\ b \in Int /\ b <= e
    BY <1>3 DEF ValueOf
  <2>2. b - Base \in pos + 1 .. Len(view) /\ Base + (b - Base) = b
    BY <1>1, <1>5, <2>1
  <2>3. PICK q : q = b - Base
    OBVIOUS
  <2> QED BY <1>1, <1>2, <2>1, <2>2, <2>3, ReachedSeen
<1>6. ASSUME NEW vb, vb = Cardinality(Run(c, Base + pos, Base + pos)),
             NEW q \in pos + 1 .. Len(view), Reached(pos, n, q)
      PROVE  Overlong(pos, vb, q) <=>
               Cardinality(Run(c, Base + q, Base + q - 1)) = VarintMax /\ wire[Base + q].big
  BY <1>1, <1>4, <1>6, OrdinalSeen DEF Overlong
<1>7. ASSUME NEW vb, vb = Cardinality(Run(c, Base + pos, Base + pos))
      PROVE  Malformed(pos, n, vb) <=>
                 \E b \in ValueOf(msg, c) : /\ Base + pos < b /\ b <= fed
                                            /\ Cardinality(Run(c, b, b - 1)) = VarintMax
                                            /\ wire[b].big
  <2>1. ASSUME NEW q \in pos + 1 .. Len(view), Reached(pos, n, q), Overlong(pos, vb, q)
        PROVE  \E b \in ValueOf(msg, c) : /\ Base + pos < b /\ b <= fed
                                          /\ Cardinality(Run(c, b, b - 1)) = VarintMax
                                          /\ wire[b].big
    <3>1. Cardinality(Run(c, Base + q, Base + q - 1)) = VarintMax /\ wire[Base + q].big
      BY <1>6, <1>7, <2>1
    <3>2. Base + q \in ValueOf(msg, c) /\ Base + pos < Base + q /\ Base + q <= fed
      BY <1>4, <2>1
    <3>3. PICK b : b = Base + q
      OBVIOUS
    <3>4. b - 1 = Base + q - 1
      BY <1>1, <3>3
    <3>5. Cardinality(Run(c, b, b - 1)) = VarintMax
      BY <3>1, <3>3, <3>4
    <3> QED BY <3>1, <3>2, <3>3, <3>5
  <2>2. ASSUME NEW b \in ValueOf(msg, c), Base + pos < b, b <= fed,
               Cardinality(Run(c, b, b - 1)) = VarintMax, wire[b].big
        PROVE  \E q \in pos + 1 .. Len(view) : Reached(pos, n, q) /\ Overlong(pos, vb, q)
    <3>1. PICK q \in pos + 1 .. Len(view) : Base + q = b /\ Reached(pos, n, q)
      BY <1>5, <2>2
    <3>2. Base + q - 1 = b - 1
      BY <1>1, <3>1
    <3>3. Cardinality(Run(c, Base + q, Base + q - 1)) = VarintMax /\ wire[Base + q].big
      BY <2>2, <3>1, <3>2
    <3>4. Overlong(pos, vb, q)
      BY <1>6, <1>7, <3>1, <3>3
    <3> QED BY <3>1, <3>4
  <2> QED BY <2>1, <2>2 DEF Malformed
<1>8. (\E q \in Ends(pos) : Reached(pos, n, q) /\ at(q).bad) <=>
              \E b \in ValueOf(msg, c) : /\ Base + pos < b /\ b <= fed
                                         /\ ~wire[b].cont /\ wire[b].bad
  <2>1. ASSUME NEW q \in Ends(pos), Reached(pos, n, q), at(q).bad
        PROVE  \E b \in ValueOf(msg, c) : /\ Base + pos < b /\ b <= fed
                                         /\ ~wire[b].cont /\ wire[b].bad
    <3>1. q \in pos + 1 .. Len(view) /\ ~at(q).cont
      BY DEF Ends
    <3> QED BY <1>4, <2>1, <3>1
  <2>2. ASSUME NEW b \in ValueOf(msg, c), Base + pos < b, b <= fed, ~wire[b].cont, wire[b].bad
        PROVE  \E q \in Ends(pos) : Reached(pos, n, q) /\ at(q).bad
    <3>1. PICK q \in pos + 1 .. Len(view) : Base + q = b /\ Reached(pos, n, q)
      BY <1>5, <2>2
    <3>2. at(q) = wire[b]
      BY <1>4, <3>1
    <3> QED BY <2>2, <3>1, <3>2 DEF Ends
  <2> QED BY <2>1, <2>2
<1> QED BY <1>7, <1>8

-----------------------------------------------------------------------------
(* Which bytes of a construct earn a verdict.                              *)

(* In the header only its last byte can.                                   *)
LEMMA RejectInHeader ==
  ASSUME msg \in Messages, NEW c \in 1 .. Len(Fields[msg]), NEW h, Final(HeaderOf(msg, c), h),
         NEW b \in Meaning!RejectBytes(msg, c), b <= h
  PROVE  Condemned(c) /\ b = h
<1>1. h \in 1 .. Len(wire) /\ h \in Int /\ \A i \in HeaderOf(msg, c) : i <= h /\ i \in Int
  BY WireTyped DEF Final, HeaderOf, ConstructOf, wire
<1>2. \A i \in ValueOf(msg, c) : ~(i <= h) /\ i \in Int
  <2>1. PICK e \in 1 .. Len(wire) : ValueOf(msg, c) = h + 1 .. e
    BY ValueSpan
  <2> QED BY <1>1, <2>1
<1>3. CASE Condemned(c)
  <2>1. Final(HeaderOf(msg, c), b)
    BY <1>3, RejectBytesAre
  <2>2. b <= h /\ h <= b /\ b \in Int
    BY <1>1, <2>1 DEF Final
  <2> QED BY <1>1, <1>3, <2>2
<1>4. CASE ~Condemned(c)
  <2>1. b \notin ValueOf(msg, c)
    BY <1>2
  <2>2. Final(ConstructOf(msg, c), b) /\ \E i \in ValueOf(msg, c) : wire[i].bad
    BY <1>4, <2>1, RejectBytesAre DEF TooLong
  <2>3. PICK i \in ValueOf(msg, c) : i <= b
    BY <2>2 DEF Final, ValueOf
  <2> QED BY <1>1, <1>2, <2>2, <2>3, RejectPlace
<1> QED BY <1>3, <1>4

(* Of a value nobody takes, only a varint that does not end.               *)
LEMMA RejectPassed ==
  ASSUME msg \in Messages, NEW c \in 1 .. Len(Fields[msg]), field(c).kind \in Values,
         ~Meaning!Heard(msg, c), NEW b
  PROVE  b \in Meaning!RejectBytes(msg, c) <=> TooLong(c, b)
<1>1. ~Condemned(c)
  BY DEF Condemned, Meaning!BadHeader, Values, field
<1> QED BY <1>1, RejectBytesAre

(* Of one that is taken, also what contradicts the schema.                 *)
LEMMA RejectTaken ==
  ASSUME msg \in Messages, NEW c \in 1 .. Len(Fields[msg]), field(c).kind \in Values,
         Meaning!Heard(msg, c), NEW b
  PROVE  /\ ~Meaning!BadHeader(msg, c)
         /\ field(c).over => Condemned(c)
         /\ ~field(c).over =>
              /\ ~Condemned(c)
              /\ b \in Meaning!RejectBytes(msg, c) <=>
                   \/ TooLong(c, b)
                   \/ /\ field(c).kind = "payload" /\ Final(ConstructOf(msg, c), b)
                      /\ \E i \in ValueOf(msg, c) : wire[i].bad
                   \/ /\ field(c).kind \in {"scalar", "varints"}
                      /\ b \in ValueOf(msg, c) /\ ~wire[b].cont /\ wire[b].bad
<1>1. ~Meaning!BadHeader(msg, c)
  BY DEF Meaning!BadHeader, Values, field
<1> QED BY <1>1, RejectBytesAre DEF Condemned

(* Inside one construct only its own bytes count.                          *)
LEMMA WithinClear ==
  ASSUME msg \in Messages, NEW a \in 1 .. Len(wire), NEW c, wire[a].c = c,
         NEW e, Final(ConstructOf(msg, c), e), NEW n \in Nat, n <= e,
         \A b \in Meaning!RejectBytes(msg, c) : ~(a < b /\ b <= n)
  PROVE  Clear(a, n)
<1>1. e \in 1 .. Len(wire) /\ wire[e].c = c /\ c \in 1 .. Len(Fields[msg])
  BY ConstructsEnd
<1>2. SUFFICES ASSUME NEW d \in 1 .. Len(Fields[msg]), NEW b \in Meaning!RejectBytes(msg, d),
                      a < b, b <= n
               PROVE  FALSE
  BY DEF Clear
<1>3. b \in 1 .. Len(wire) /\ wire[b].c = d
  BY RejectPlace
<1>4. b <= e
  BY <1>1, <1>2, <1>3, WireTyped
<1>5. c <= d
  BY <1>2, <1>3, WireTyped
<1>6. d <= c
  BY <1>1, <1>3, <1>4, WireTyped
<1>7. c = d
  BY <1>1, <1>5, <1>6, WireTyped
<1> QED BY <1>2, <1>7

(* Before a header has been read to its end nothing of it counts.          *)
LEMMA HeaderClear ==
  ASSUME msg \in Messages, NEW a \in Nat, NEW c \in 1 .. Len(Fields[msg]), NEW h,
         Final(HeaderOf(msg, c), h), NEW n \in Nat, n <= h,
         a + 1 .. n \subseteq HeaderOf(msg, c), n < h \/ ~Condemned(c)
  PROVE  Clear(a, n)
<1>1. SUFFICES ASSUME NEW d \in 1 .. Len(Fields[msg]), NEW b \in Meaning!RejectBytes(msg, d),
                      a < b, b <= n
               PROVE  FALSE
  BY DEF Clear
<1>2. b \in 1 .. Len(wire) /\ wire[b].c = d /\ b \in Nat
  BY RejectPlace
<1>3. b \in HeaderOf(msg, c)
  BY <1>1, <1>2
<1>4. d = c
  BY <1>2, <1>3 DEF HeaderOf, ConstructOf, wire
<1>5. h \in Nat
  BY WireTyped DEF Final, HeaderOf, ConstructOf, wire
<1>6. b <= h
  BY <1>1, <1>2, <1>5
<1>7. Condemned(c) /\ b = h
  BY <1>4, <1>6, RejectInHeader
<1> QED BY <1>1, <1>2, <1>5, <1>7

LEMMA ClearTo ==
  ASSUME msg \in Messages, NEW x \in Int, NEW y \in Int, Clear(x, y),
         \A c \in 1 .. Len(Fields[msg]) : \A b \in Meaning!RejectBytes(msg, c) : ~(b <= x)
  PROVE  \A c \in 1 .. Len(Fields[msg]) : \A b \in Meaning!RejectBytes(msg, c) : y < b
<1>1. TAKE c \in 1 .. Len(Fields[msg])
<1>2. TAKE b \in Meaning!RejectBytes(msg, c)
<1>3. b \in Nat
  BY RejectPlace
<1> QED BY <1>3 DEF Clear

-----------------------------------------------------------------------------
(* What a step keeps.                                                      *)

LEMMA JudgeNow ==
  ASSUME IInv, Located, Listening, Judged, ~lost, pc # "idle"
  PROVE  /\ Unjudged(Base + pos) /\ Placed(Base + pos) /\ Follows(Base + pos)
         /\ msg \in Messages /\ Base + pos \in 0 .. Len(wire) /\ Base + pos \in Nat
         /\ ~limit /\ status # "INVALID"
<1>1. Placed(Base + pos) /\ Follows(Base + pos) /\ msg \in Messages
      /\ Base + pos \in 0 .. Len(wire) /\ Base + pos \in Nat
  BY ListenNow
<1>2. ~limit /\ status # "INVALID"
  BY PlaceNow
<1>3. Consumed = Base + pos
  BY Window
<1>4. Unjudged(Base + pos)
  BY <1>2, <1>3 DEF Judged
<1> QED BY <1>1, <1>2, <1>4

LEMMA UnjudgedFrom ==
  ASSUME UNCHANGED msg, NEW a,
         \A c \in 1 .. Len(Fields[msg]) : \A b \in Meaning!RejectBytes(msg, c) :
           b <= a => Parked' /\ c = pending'.c,
         pc' = "idle" /\ ~broken' =>
           \A c \in 1 .. Len(Fields[msg]) : \A b \in Meaning!RejectBytes(msg, c) : fed' < b,
         resume' = "visit" => ~pending'.capped,
         \A x \in {a} : Discarding(x)'
  PROVE  Unjudged(a)'
  BY DEF Unjudged

LEMMA ClearOn ==
  ASSUME msg \in Messages, NEW x \in Int, NEW y \in Int, Clear(x, y),
         \A c \in 1 .. Len(Fields[msg]) : \A b \in Meaning!RejectBytes(msg, c) : ~(b <= x)
  PROVE  \A c \in 1 .. Len(Fields[msg]) : \A b \in Meaning!RejectBytes(msg, c) : ~(b <= y)
<1>1. TAKE c \in 1 .. Len(Fields[msg])
<1>2. TAKE b \in Meaning!RejectBytes(msg, c)
<1> QED BY RejectPlace DEF Clear

(* From a place behind which nothing earned a verdict, over bytes that     *)
(* earn none.                                                              *)
LEMMA UnjudgedNext ==
  ASSUME IInv, Located, Listening, Judged, ~lost, pc # "idle", UNCHANGED <<msg, fed>>,
         pending.capped => pc # "value" \/ resume # "none",
         NEW p \in pos .. Len(view), Clear(Base + pos, Base + p),
         pc' = "idle" /\ ~broken' => Clear(Base + pos, fed),
         resume' = "visit" => ~pending'.capped,
         \A x \in {Base + p} : Discarding(x)'
  PROVE  \A a \in {Base + p} : Unjudged(a)'
<1>1. Unjudged(Base + pos) /\ msg \in Messages /\ Base + pos \in Nat
  BY JudgeNow
<1>2. Base \in Int /\ p \in Int /\ fed \in Nat /\ Base + p \in Int
  BY Window
<1>3. \A c \in 1 .. Len(Fields[msg]) : \A b \in Meaning!RejectBytes(msg, c) : ~(b <= Base + pos)
  BY <1>1 DEF Unjudged, Parked
<1>4. \A c \in 1 .. Len(Fields[msg]) : \A b \in Meaning!RejectBytes(msg, c) : ~(b <= Base + p)
  BY <1>1, <1>2, <1>3, ClearOn
<1>5. pc' = "idle" /\ ~broken' =>
        \A c \in 1 .. Len(Fields[msg]) : \A b \in Meaning!RejectBytes(msg, c) : fed' < b
  BY <1>1, <1>2, <1>3, ClearTo
<1> QED BY <1>4, <1>5, UnjudgedFrom

LEMMA AdvanceJudged ==
  ASSUME IInv, Located, pc # "idle", pc' # "idle", NEW p \in pos .. Len(view), Advance(p),
         ~lost => \A a \in {Base + p} : Unjudged(a)'
  PROVE  Judged'
<1>1. Consumed' = Base + p /\ lost' = lost
  BY Window DEF Advance, Consumed, Base
<1>2. ~(limit \/ status = "INVALID")'
  BY DEF Advance, outcome, Located, IInv, Framed, Resumed
<1> QED BY <1>1, <1>2 DEF Judged

LEMMA RetainJudged ==
  ASSUME IInv, Located, UNCHANGED <<fed, limit>>, pc # "idle", NEW p \in pos .. Len(view), NEW r, Retain(p, r),
         status' # "INVALID",
         ~lost => \A a \in {Base + p} : Unjudged(a)'
  PROVE  Judged'
<1>1. ASSUME ~lost' PROVE ~lost /\ Consumed' = Base + p
  BY <1>1, RetainKeepsPlace
<1>2. ~limit'
  BY DEF Located
<1> QED BY <1>1, <1>2 DEF Judged

-----------------------------------------------------------------------------
(* A verdict.                                                              *)

(* Nothing before the construct at the cursor earned one.                  *)
LEMMA NothingBefore ==
  ASSUME IInv, Located, Listening, Judged, ~lost, pc # "idle",
         NEW d \in 1 .. Len(Fields[msg]), d <= Begun(msg, Base + pos),
         pending.tag # "none" => d < pending.c
  PROVE  Meaning!RejectBytes(msg, d) = {}
<1>1. /\ Unjudged(Base + pos) /\ Placed(Base + pos) /\ Follows(Base + pos)
      /\ msg \in Messages /\ Base + pos \in Nat
  BY JudgeNow
<1>2. SUFFICES ASSUME NEW b \in Meaning!RejectBytes(msg, d) PROVE FALSE
  OBVIOUS
<1>3. b \in 1 .. Len(wire) /\ wire[b].c = d /\ b \in Nat
  BY <1>1, RejectPlace
<1>4. CASE pending.tag # "none"
  <2>1. Base + pos \in 1 .. Len(wire) /\ wire[Base + pos].c = pending.c
    BY <1>1, <1>4 DEF Follows
  <2>2. ~(Base + pos < b) /\ Base + pos # b
    <3>1. PICK a : a = Base + pos
      OBVIOUS
    <3>2. a \in 1 .. Len(wire) /\ d < wire[a].c /\ wire[a].c \in Nat /\ d \in Nat
      BY <1>1, <1>4, <2>1, <3>1, WireTyped
    <3>3. a < b => wire[a].c <= wire[b].c
      BY <1>1, <1>3, <3>2, WireTyped
    <3>4. ~(a < b) /\ a # b
      BY <1>3, <3>2, <3>3
    <3> QED BY <3>1, <3>4
  <2>3. d = pending.c
    BY <1>1, <1>3, <2>2 DEF Unjudged
  <2> QED BY <1>4, <2>3
<1>5. CASE pending.tag = "none"
  <2>1. Boundary(Base + pos)
    BY <1>1, <1>5 DEF Placed, Values
  <2>2. PICK e \in 1 .. Len(wire) : Final(ConstructOf(msg, d), e)
    BY <1>1, ConstructsEnd
  <2>3. e <= Base + pos
    BY <1>1, <2>1, <2>2, EndedBy
  <2>4. b <= e
    BY <1>3, <2>2 DEF Final, ConstructOf, wire
  <2>5. b <= Base + pos
    BY <1>1, <1>3, <2>2, <2>3, <2>4, WireTyped
  <2>6. Parked
    BY <1>1, <2>5 DEF Unjudged
  <2> QED BY <1>5, <2>6 DEF Parked, IInv, Framed, SkipLevel, Values
<1> QED BY <1>4, <1>5

(* The construct at the cursor.                                            *)
Current == IF pending.tag = "none" THEN Begun(msg, Base + pos) + 1 ELSE pending.c

LEMMA CurrentTold ==
  ASSUME IInv, Located, Listening, Judged, ~lost, pc # "idle", Current \in 1 .. Len(Fields[msg])
  PROVE  /\ Named(events) = {d \in 1 .. Current - 1 : Meaning!Heard(msg, d)}
         /\ \A i, j \in 1 .. Len(events) : i < j => events[i].c < events[j].c
         /\ \A d \in 1 .. Len(Fields[msg]) : d < Current => Meaning!RejectBytes(msg, d) = {}
<1> DEFINE k == Begun(msg, Base + pos)
<1>1. /\ Placed(Base + pos) /\ Follows(Base + pos)
      /\ msg \in Messages /\ Base + pos \in 0 .. Len(wire) /\ Base + pos \in Nat
  BY JudgeNow
<1>2. k \in Nat /\ Told(msg, k, Awaited, events) /\ Len(Fields[msg]) \in Nat
  BY <1>1, BegunTyped, WireTyped DEF Follows
<1>3. pending.tag # "none" => k = pending.c
  <2>1. PICK a : a = Base + pos
    OBVIOUS
  <2> QED BY <1>1, <2>1, BegunTyped DEF Follows
<1>4. Current = (IF pending.tag = "none" THEN k + 1 ELSE k)
  BY <1>3 DEF Current
<1> HIDE DEF k
<1>5. Named(events) = {d \in 1 .. Current - 1 : Meaning!Heard(msg, d)}
  <2>1. CASE pending.tag = "none"
    BY <1>2, <1>4, <2>1 DEF Told, Awaited
  <2>2. CASE pending.tag # "none"
    <3>1. Awaited \in {{}, {k}} /\ (Awaited = {} => ~Meaning!Heard(msg, k))
      BY <1>1, <1>3, <2>2 DEF Awaited, Follows
    <3>2. \A d : d \in 1 .. Current - 1 <=> d \in 1 .. k /\ d # k
      BY <1>2, <1>4, <2>2
    <3> QED BY <1>2, <3>1, <3>2 DEF Told
  <2> QED BY <2>1, <2>2
<1>6. \A i, j \in 1 .. Len(events) : i < j => events[i].c < events[j].c
  BY <1>2 DEF Told
<1>7. \A d \in 1 .. Len(Fields[msg]) : d < Current => Meaning!RejectBytes(msg, d) = {}
  <2>1. ASSUME NEW d \in 1 .. Len(Fields[msg]), d < Current
        PROVE  d <= k /\ (pending.tag # "none" => d < pending.c)
    BY <1>2, <1>3, <1>4, <2>1
  <2> QED BY <2>1, NothingBefore DEF k
<1> QED BY <1>5, <1>6, <1>7

(* Everything before the construct at the cursor has been heard, so a      *)
(* verdict it earns is the message's.                                      *)
LEMMA Sentencing ==
  ASSUME IInv, Located, Listening, Judged, ~lost, pc # "idle", Current \in 1 .. Len(Fields[msg]),
         NEW b \in Meaning!RejectBytes(msg, Current), b <= fed
  PROVE  /\ Meaning!Offender(msg) = Current /\ Meaning!Rejected(msg, fed)
         /\ Meaning!Listing(Delivered, Meaning!HeardBy(msg, fed))
<1>1. /\ Named(events) = {d \in 1 .. Current - 1 : Meaning!Heard(msg, d)}
      /\ \A i, j \in 1 .. Len(events) : i < j => events[i].c < events[j].c
      /\ \A d \in 1 .. Len(Fields[msg]) : d < Current => Meaning!RejectBytes(msg, d) = {}
  BY CurrentTold
<1>2. msg \in Messages /\ fed \in Nat /\ Len(Fields[msg]) \in Nat /\ Current \in Nat
  BY Window, WireTyped
<1>3. Meaning!Offender(msg) = Current /\ Meaning!Rejected(msg, fed)
  BY <1>1, <1>2, OffenderAt
<1>4. b \in 1 .. Len(wire) /\ wire[b].c = Current
  BY <1>2, RejectPlace
<1>5. ASSUME NEW d \in 1 .. Current - 1
      PROVE  d \in 1 .. Len(Fields[msg]) /\ d < Current /\ Meaning!LastByte(msg, d) <= fed
  <2>1. d \in 1 .. Len(Fields[msg]) /\ d < Current
    BY <1>2
  <2>2. PICK e \in 1 .. Len(wire) : Final(ConstructOf(msg, d), e)
    BY <1>2, <2>1, ConstructsEnd
  <2>3. Meaning!LastByte(msg, d) = e /\ wire[e].c = d
    BY <1>2, <2>2, ConstructsEnd
  <2>4. e < b
    BY <1>2, <1>4, <2>1, <2>3, WireTyped
  <2> QED BY <1>2, <1>4, <2>1, <2>3, <2>4, WireTyped
<1>6. Meaning!HeardBy(msg, fed) = {d \in 1 .. Current - 1 : Meaning!Heard(msg, d)}
  <2>1. \A d : d \in Meaning!HeardBy(msg, fed) <=>
          /\ d \in 1 .. Len(Fields[msg]) /\ Meaning!Heard(msg, d)
          /\ Meaning!LastByte(msg, d) <= fed /\ d < Current
    BY <1>2, <1>3 DEF Meaning!HeardBy, Meaning!Index
  <2>2. \A d \in 1 .. Len(Fields[msg]) : d < Current => d \in 1 .. Current - 1
    BY <1>2
  <2> QED BY <1>5, <2>1, <2>2
<1>7. Len(events) \in Nat /\ Len(Delivered) = Len(events)
      /\ \A i \in 1 .. Len(events) : Delivered[i] = events[i].c
  <2>1. events \in Seq(Event)
    BY DEF IInv, Framed, FrameTyped
  <2> QED BY <2>1, LenProperties DEF Delivered
<1>8. {Delivered[i] : i \in 1 .. Len(Delivered)} = Named(events)
  BY <1>7 DEF Named
<1>9. \A i, j \in 1 .. Len(Delivered) : i < j => Delivered[i] < Delivered[j]
  BY <1>1, <1>7
<1> QED BY <1>1, <1>3, <1>6, <1>8, <1>9 DEF Meaning!Listing

LEMMA SameSentence ==
  ASSUME UNCHANGED <<msg, fed, events>>, Meaning!Rejected(msg, fed),
         Meaning!Listing(Delivered, Meaning!HeardBy(msg, fed)), Verdict' = Meaning!Verdict(msg)
  PROVE  Sentenced'
<1>1. Delivered' = Delivered
  BY DEF Delivered
<1> QED BY <1>1 DEF Sentenced

LEMMA RejectJudged ==
  ASSUME IInv, Located, Listening, Judged, pc # "idle", NEW v \in {"LIMIT", "INVALID"}, Reject(v),
         ~lost => /\ Current \in 1 .. Len(Fields[msg])
                  /\ \E b \in Meaning!RejectBytes(msg, Current) : b <= fed
                  /\ v = IF Condemned(Current) /\ ~Meaning!BadHeader(msg, Current)
                         THEN "LIMIT" ELSE "INVALID"
  PROVE  Judged'
<1>1. (limit \/ status = "INVALID")'
  BY DEF Reject
<1>2. ASSUME ~lost PROVE Sentenced'
  <2>1. /\ Meaning!Offender(msg) = Current /\ Meaning!Rejected(msg, fed)
        /\ Meaning!Listing(Delivered, Meaning!HeardBy(msg, fed))
    BY <1>2, Sentencing
  <2>2. Meaning!Verdict(msg) = v
    BY <1>2, <2>1, VerdictIs, Window
  <2>3. Verdict' = v
    BY <1>2, JudgeNow DEF Reject, Verdict
  <2> QED BY <2>1, <2>2, <2>3, SameSentence DEF Reject
<1> QED BY <1>1, <1>2 DEF Judged, Reject

-----------------------------------------------------------------------------
(* Headers.                                                                *)

(* The header the walk reads is that of the current construct, from its    *)
(* first byte to its last.                                                 *)
LEMMA CurrentHeader ==
  ASSUME IInv, Located, Listening, Judged, ~lost, AtHeader, NEW q \in pos + 1 .. Len(view),
         HeaderEnd(q)
  PROVE  /\ Current \in 1 .. Len(Fields[msg]) /\ at(q).c = Current
         /\ Final(HeaderOf(msg, Current), Base + q) /\ Base + q \in Nat /\ Base + q <= fed
         /\ Base + pos + 1 .. Base + q \subseteq HeaderOf(msg, Current)
         /\ FirstByte(pos + 1)
         /\ Meaning!OpenAfter(msg, Current - 1) = depth
<1>1. /\ pc # "idle" /\ pending.tag = "none" /\ resume = "none"
  BY DEF AtHeader, Walking, IInv, Framed, Resumed
<1>2. /\ Placed(Base + pos) /\ Follows(Base + pos)
      /\ msg \in Messages /\ Base + pos \in 0 .. Len(wire) /\ Base + pos \in Nat
  BY <1>1, JudgeNow
<1>3. /\ Base \in Int /\ pos \in Nat /\ Len(view) \in Nat /\ fed \in Nat /\ q \in Int
      /\ Base + Len(view) = fed /\ Base + q \in Int /\ Len(wire) \in Nat /\ fed <= Len(wire)
  BY Window
<1>4. PICK a, k : a = Base + pos /\ k = Begun(msg, a)
  OBVIOUS
<1>5. Boundary(a) /\ a \in Nat /\ a < Len(wire) /\ a < Base + q /\ Base + q <= fed
  BY <1>1, <1>2, <1>3, <1>4 DEF Placed, Values
<1>6. wire[a + 1].c = k + 1 /\ Current = k + 1 /\ k \in Nat /\ depth = Open(msg, k)
  BY <1>1, <1>2, <1>4, <1>5, NextConstruct, BegunTyped DEF Current, Follows
<1>7. /\ at(q).c \in 1 .. Len(Fields[msg]) /\ at(q).c = wire[a + 1].c
      /\ Final(HeaderOf(msg, at(q).c), Base + q)
  <2>1. Base + pos + 1 = a + 1
    BY <1>4
  <2> QED BY <2>1, HeaderSeen
<1>8. PICK h \in a + 1 .. Len(wire) :
        /\ Final(HeaderOf(msg, Current), h)
        /\ \A i \in a + 1 .. h : i \in HeaderOf(msg, Current)
  BY <1>2, <1>5, <1>6, HeaderFrom
<1>9. h = Base + q
  <2>1. h <= Base + q /\ Base + q <= h /\ h \in Int
    <3>1. h \in Int /\ h \in a + 1 .. h /\ at(q).c = Current
      BY <1>5, <1>6, <1>7, <1>8
    <3>2. h \in HeaderOf(msg, Current) /\ Base + q \in HeaderOf(msg, Current)
      BY <1>7, <1>8, <3>1 DEF Final
    <3> QED BY <1>7, <1>8, <3>1, <3>2 DEF Final
  <2> QED BY <1>3, <2>1
<1>10. FirstByte(pos + 1)
  <2>1. pos + 1 \in pos + 1 .. Len(view)
    BY <1>3
  <2>2. view[pos + 1] = a + 1 /\ at(pos + 1) = wire[a + 1]
    <3>1. view[pos + 1] = Base + (pos + 1) /\ at(pos + 1) = wire[Base + (pos + 1)]
      BY <1>2, <2>1, Seen
    <3>2. Base + (pos + 1) = a + 1
      BY <1>3, <1>4
    <3> QED BY <3>1, <3>2
  <2>3. a + 1 > 1 => wire[a].c < wire[a + 1].c /\ wire[a].c \in Nat
    <3>1. a + 1 > 1 => a \in 1 .. Len(wire) - 1 /\ a \in 1 .. Len(wire)
      BY <1>3, <1>5
    <3> QED BY <1>2, <1>5, <3>1, WireTyped DEF Boundary
  <2>4. a + 1 > 1 => wire[a].c # wire[a + 1].c
    BY <1>6, <2>3
  <2>5. (a + 1) - 1 = a
    BY <1>5
  <2> QED BY <2>2, <2>4, <2>5 DEF FirstByte
<1>11. Meaning!OpenAfter(msg, Current - 1) = depth
  BY <1>6 DEF Open
<1>12. at(q).c = Current /\ Current \in 1 .. Len(Fields[msg])
  BY <1>6, <1>7
<1>13. Final(HeaderOf(msg, Current), Base + q)
  BY <1>7, <1>12
<1>14. Base + q \in Nat /\ Base + q <= fed
  BY <1>3, <1>5
<1>15. Base + pos + 1 .. Base + q \subseteq HeaderOf(msg, Current)
  BY <1>4, <1>8, <1>9
<1> QED BY <1>10, <1>11, <1>12, <1>13, <1>14, <1>15

LEMMA InvalidHeaderJudged ==
  ASSUME IInv, Located, Listening, Judged, HeaderInvalid
  PROVE  Judged'
<1>1. pc # "idle" /\ Reject("INVALID") /\ AtHeader
  BY DEF HeaderInvalid, AtHeader, Walking
<1>2. PICK q \in pos + 1 .. Len(view) :
        /\ HeaderEnd(q)
        /\ \/ ~FirstByte(pos + 1)
           \/ field(at(q).c).kind = "bad"
           \/ field(at(q).c).kind = "end" /\ depth = 0
           \/ field(at(q).c).kind = "start" /\ depth >= MaxDepth
  BY DEF HeaderInvalid
<1>3. ASSUME ~lost
      PROVE  /\ Current \in 1 .. Len(Fields[msg])
             /\ \E b \in Meaning!RejectBytes(msg, Current) : b <= fed
             /\ Condemned(Current) /\ Meaning!BadHeader(msg, Current)
  <2>1. /\ Current \in 1 .. Len(Fields[msg]) /\ at(q).c = Current
        /\ Final(HeaderOf(msg, Current), Base + q) /\ Base + q <= fed
        /\ FirstByte(pos + 1)
        /\ Meaning!OpenAfter(msg, Current - 1) = depth
    BY <1>1, <1>2, <1>3, CurrentHeader
  <2>2. Condemned(Current) /\ Meaning!BadHeader(msg, Current)
    BY <1>2, <2>1 DEF Condemned, Meaning!BadHeader, field
  <2> QED BY <2>1, <2>2, RejectBytesAre, Window
<1> QED BY <1>1, <1>3, RejectJudged

(* A header that opens or closes a sequence is sound.                      *)
LEMMA FrameJudged ==
  ASSUME IInv, Located, Listening, Judged, NEW q \in pos + 1 .. Len(view),
         NEW c \in 1 .. Len(Fields[msg]),
         \/ Header(q, c, {"start"}) /\ depth < MaxDepth
         \/ Header(q, c, {"end"}) /\ depth > 0,
         UNCHANGED <<pending, resume>>, pc' \in {"walk", "skip"}
  PROVE  Judged'
<1>1. /\ AtHeader /\ HeaderEnd(q) /\ Advance(q) /\ c = at(q).c /\ pc # "idle" /\ pc # "value"
      /\ pending.tag = "none" /\ resume = "none" /\ UNCHANGED <<msg, fed>> /\ pc' # "idle"
      /\ \/ field(c).kind = "start" /\ depth < MaxDepth
         \/ field(c).kind = "end" /\ depth > 0
  BY DEF Header, AtHeader, Walking, IInv, Framed, Resumed, Advance
<1>2. q \in pos .. Len(view)
  BY Window
<1>3. ASSUME ~lost PROVE \A a \in {Base + q} : Unjudged(a)'
  <2>1. /\ c = Current
        /\ Final(HeaderOf(msg, c), Base + q) /\ Base + q \in Nat
        /\ Base + pos + 1 .. Base + q \subseteq HeaderOf(msg, c)
        /\ Meaning!OpenAfter(msg, c - 1) = depth
    BY <1>1, <1>3, CurrentHeader
  <2>2. ~Condemned(c)
    <3>1. depth \in Nat /\ MaxDepth \in Nat
      BY BoundsAssumption DEF IInv, Framed, FrameTyped
    <3> QED BY <1>1, <2>1, <3>1 DEF Condemned, Meaning!BadHeader, Values, field
  <2>3. Base + pos \in Nat /\ msg \in Messages
    BY <1>1, <1>3, JudgeNow
  <2>4. Clear(Base + pos, Base + q)
    <3>1. PICK a, h : a = Base + pos /\ h = Base + q
      OBVIOUS
    <3>2. /\ a \in Nat /\ h \in Nat /\ h <= h /\ Final(HeaderOf(msg, c), h)
          /\ a + 1 .. h \subseteq HeaderOf(msg, c)
      BY <2>1, <2>3, <3>1
    <3>3. Clear(a, h)
      BY <2>2, <2>3, <3>2, HeaderClear
    <3> QED BY <3>1, <3>3
  <2>5. \A x \in {Base + q} : Discarding(x)'
    BY <1>1 DEF Discarding
  <2> QED BY <1>1, <1>2, <1>3, <2>4, <2>5, UnjudgedNext
<1> QED BY <1>1, <1>2, <1>3, AdvanceJudged

(* That of a value may exceed a cap: it is parked, and the next step       *)
(* rejects it, if the handler takes it.                                    *)
LEMMA ValueHeaderJudged ==
  ASSUME IInv, Located, Listening, Judged, ValueHeader
  PROVE  Judged'
<1>1. PICK q \in pos + 1 .. Len(view), c \in 1 .. Len(Fields[msg]) :
        /\ Header(q, c, Values) /\ pending' = Park(c)
        /\ pc' = IF pc = "walk" /\ field(c).want THEN "value" ELSE pc
        /\ UNCHANGED resume
  BY DEF ValueHeader
<1>2. /\ AtHeader /\ HeaderEnd(q) /\ Advance(q) /\ c = at(q).c /\ pc # "idle" /\ pc # "value"
      /\ pending.tag = "none" /\ resume' = "none" /\ UNCHANGED <<msg, fed>> /\ pc' # "idle"
      /\ field(c).kind \in Values
  BY <1>1 DEF Header, AtHeader, Walking, IInv, Framed, Resumed, Advance
<1>3. q \in pos .. Len(view)
  BY Window
<1>4. pending'.tag # "discard" /\ pending'.c = c /\ pending'.capped = field(c).over
  BY <1>1, <1>2 DEF Park, Values
<1>5. ASSUME ~lost PROVE \A a \in {Base + q} : Unjudged(a)'
  <2>1. /\ c = Current /\ Final(HeaderOf(msg, c), Base + q) /\ Base + q \in Nat
        /\ Base + pos + 1 .. Base + q \subseteq HeaderOf(msg, c)
    BY <1>2, <1>5, CurrentHeader
  <2>2. Base + pos \in Nat /\ msg \in Messages /\ Unjudged(Base + pos)
    BY <1>2, <1>5, JudgeNow
  <2>3. Condemned(c) => Parked'
    <3>1. PICK k \in Nat :
            c = k + 1 /\ (Meaning!Heard(msg, k + 1) <=>
                            pc = "walk" /\ (field(c).kind = "end" \/ field(c).want))
      BY <1>1, <1>5, NextHeader
    <3>2. ~Meaning!BadHeader(msg, c)
      BY <1>2 DEF Meaning!BadHeader, Values, field
    <3>3. Condemned(c) => pc = "walk" /\ field(c).want /\ field(c).over
      BY <1>2, <3>1, <3>2 DEF Condemned, Values
    <3> QED BY <1>1, <1>2, <1>4, <3>3 DEF Parked
  <2>4. ASSUME NEW d \in 1 .. Len(Fields[msg]), NEW b \in Meaning!RejectBytes(msg, d), b <= Base + q
        PROVE  Parked' /\ d = pending'.c
    <3>1. b \in 1 .. Len(wire) /\ wire[b].c = d /\ b \in Nat
      BY <2>2, RejectPlace
    <3>2. ~(b <= Base + pos)
      BY <1>2, <2>2 DEF Unjudged, Parked
    <3>3. b \in HeaderOf(msg, c)
      BY <2>1, <2>2, <2>4, <3>1, <3>2
    <3>4. d = c
      BY <3>1, <3>3 DEF HeaderOf, ConstructOf, wire
    <3>5. Condemned(c)
      BY <2>1, <2>2, <2>4, <3>4, RejectInHeader
    <3> QED BY <1>4, <2>3, <3>4, <3>5
  <2>5. \A x \in {Base + q} : Discarding(x)'
    BY <1>4 DEF Discarding
  <2> QED BY <1>2, <2>4, <2>5, UnjudgedFrom
<1> QED BY <1>2, <1>3, <1>5, AdvanceJudged

(* In the middle of a header, or between two, nothing is decided.          *)
LEMMA PauseJudged ==
  ASSUME IInv, Located, Listening, Judged, CleanEnd \/ HeaderShort
  PROVE  Judged'
<1>1. /\ pc # "idle" /\ pc # "value" /\ pending.tag = "none" /\ AtHeader
      /\ UNCHANGED <<msg, fed, pending, limit>>
      /\ status' # "INVALID" /\ resume' # "visit" /\ keep = pos /\ pos \in pos .. Len(view)
  <2>1. keep = pos /\ pos \in pos .. Len(view)
    BY Window
  <2>2. CASE CleanEnd
    BY <2>1, <2>2 DEF CleanEnd, AtHeader, Walking, framing, IInv, Framed, Resumed
  <2>3. CASE HeaderShort
    BY <2>1, <2>3 DEF HeaderShort, Suspend, RunOut, SkipInFlight, AtHeader, Walking
  <2> QED BY <2>2, <2>3
<1>2. PICK r : Retain(pos, r)
  BY <1>1 DEF CleanEnd, HeaderShort, Suspend, RunOut
<1>3. ASSUME ~lost PROVE Clear(Base + pos, fed)
  <2>1. /\ Base + pos \in Nat /\ msg \in Messages /\ fed \in Nat
        /\ Base \in Int /\ pos \in Nat /\ Len(view) \in Nat /\ Base + Len(view) = fed
    BY <1>1, <1>3, JudgeNow, Window
  <2>2. CASE pos = Len(view)
    BY <2>1, <2>2, RejectPlace DEF Clear
  <2>3. CASE pos # Len(view)
    <3>1. Ends(pos) = {} /\ pos < Len(view)
      BY <2>1, <2>3, Window DEF CleanEnd, HeaderShort
    <3>2. PICK c \in 1 .. Len(Fields[msg]) : Base + pos + 1 .. fed \subseteq HeaderOf(msg, c)
      BY <1>1, <1>3, <3>1, HeaderCut
    <3>3. PICK h \in HeaderOf(msg, c) :
            Final(HeaderOf(msg, c), h) /\ \A i \in HeaderOf(msg, c) : wire[i].cont <=> i # h
      BY <2>1, EncodingAssumption DEF wire
    <3>4. fed \in HeaderOf(msg, c)
      <4>1. fed \in Base + pos + 1 .. fed
        BY <2>1, <3>1
      <4> QED BY <3>2, <4>1
    <3>5. wire[fed].cont
      <4>1. Len(view) \in pos + 1 .. Len(view) /\ Base + Len(view) = fed /\ Base + pos >= 0
        BY <2>1, <3>1
      <4>2. at(Len(view)) = wire[fed]
        BY <1>3, <4>1, Seen
      <4> QED BY <3>1, <4>1, <4>2 DEF Ends
    <3>6. fed <= h /\ fed # h /\ h \in Nat
      BY <3>3, <3>4, <3>5, WireTyped DEF Final, HeaderOf, ConstructOf
    <3> QED BY <2>1, <3>2, <3>3, <3>6, HeaderClear
  <2> QED BY <2>2, <2>3
<1>4. ASSUME ~lost PROVE \A a \in {Base + pos} : Unjudged(a)'
  <2>1. Clear(Base + pos, Base + pos)
    BY <1>1, <1>4, JudgeNow, RejectPlace DEF Clear
  <2>2. \A x \in {Base + pos} : Discarding(x)'
    BY <1>1 DEF Discarding
  <2> QED BY <1>1, <1>3, <1>4, <2>1, <2>2, UnjudgedNext
<1> QED BY <1>1, <1>2, <1>4, RetainJudged

-----------------------------------------------------------------------------
(* Values nobody takes.                                                    *)

LEMMA NoRunYet ==
  ASSUME msg \in Messages, NEW c \in 1 .. Len(Fields[msg]), NEW h, Final(HeaderOf(msg, c), h)
  PROVE  Cardinality(Run(c, h, h)) = 0
<1>1. PICK e \in 1 .. Len(wire) : ValueOf(msg, c) = h + 1 .. e
  BY ValueSpan
<1>2. h \in Int
  BY WireTyped DEF Final, HeaderOf, ConstructOf
<1>3. Run(c, h, h) = {}
  BY <1>1, <1>2 DEF Run
<1> QED BY <1>3, FS_EmptySet

(* What the walk knows of the varints that are pending.                    *)
LEMMA VarintsNow ==
  ASSUME IInv, Located, Listening, Judged, ~lost, pc # "idle",
         pending.tag \in {"scalar", "varints"} \/ (pending.tag = "discard" /\ pending.bytes = 0),
         NEW vb, vb = IF pending.tag = "discard" THEN pending.vb ELSE 0
  PROVE  /\ pending.c \in 1 .. Len(Fields[msg]) /\ msg \in Messages /\ pending.vars \in Nat
         /\ Base + pos \in 1 .. Len(wire) /\ wire[Base + pos].c = pending.c
         /\ \A i \in HeaderOf(msg, pending.c) : i <= Base + pos
         /\ Left(Base + pos, pending.c, pending.vars)
         /\ field(pending.c).kind \in Values
         /\ vb = Cardinality(Run(pending.c, Base + pos, Base + pos))
         /\ Malformed(pos, pending.vars, vb) <=>
              \E b : TooLong(pending.c, b) /\ Base + pos < b /\ b <= fed
<1>1. /\ Unjudged(Base + pos) /\ Placed(Base + pos) /\ Follows(Base + pos)
      /\ msg \in Messages /\ Base + pos \in Nat /\ pending.tag # "none"
  BY JudgeNow
<1>2. pending.vars \in Nat
  BY DEF IInv, Framed, FrameTyped, Pending
<1>3. Base + pos \in 1 .. Len(wire) /\ wire[Base + pos].c = pending.c
  BY <1>1 DEF Follows
<1>4. /\ pending.c \in 1 .. Len(Fields[msg])
      /\ \A i \in HeaderOf(msg, pending.c) : i <= Base + pos
      /\ Left(Base + pos, pending.c, pending.vars)
      /\ field(pending.c).kind \in Values
      /\ vb = Cardinality(Run(pending.c, Base + pos, Base + pos))
      /\ pending.vars > 0 => field(pending.c).kind \in {"scalar", "varints"}
  <2>1. CASE pending.tag = "discard"
    <3>1. pending.bytes = 0
      BY <2>1
    <3>2. Discarding(Base + pos)
      BY <1>1 DEF Unjudged
    <3>3. pending.c \in 1 .. Len(Fields[msg]) /\ Left(Base + pos, pending.c, pending.vars)
      BY <1>1, <2>1, <3>1 DEF Placed, Values
    <3> QED BY <2>1, <3>1, <3>2, <3>3 DEF Discarding
  <2>2. CASE pending.tag \in {"scalar", "varints"}
    <3>1. /\ pending.c \in 1 .. Len(Fields[msg]) /\ pending.tag = field(pending.c).kind
          /\ Final(HeaderOf(msg, pending.c), Base + pos)
          /\ Left(Base + pos, pending.c, pending.vars)
      BY <2>2, ValuePlace DEF Values
    <3>2. vb = 0 /\ Cardinality(Run(pending.c, Base + pos, Base + pos)) = 0
      BY <1>1, <2>2, <3>1, NoRunYet
    <3> QED BY <2>2, <3>1, <3>2 DEF Final, Values
  <2> QED BY <2>1, <2>2
<1>5. Malformed(pos, pending.vars, vb) <=>
        \E b \in ValueOf(msg, pending.c) : /\ Base + pos < b /\ b <= fed
                                           /\ Cardinality(Run(pending.c, b, b - 1)) = VarintMax
                                           /\ wire[b].big
  BY <1>2, <1>3, <1>4, VarintsSeen
<1>6. Malformed(pos, pending.vars, vb) => field(pending.c).kind \in {"scalar", "varints"}
  BY <1>4 DEF Malformed, Reached
<1> QED BY <1>1, <1>2, <1>3, <1>4, <1>5, <1>6 DEF TooLong

(* A value nobody takes, as far as it has been dropped.                    *)
LEMMA PassedClear ==
  ASSUME IInv, Located, Listening, Judged, ~lost, Walking, pending.tag # "none",
         pending.c \in 1 .. Len(Fields[msg]), field(pending.c).kind \in Values
  PROVE  /\ \A b : b \in Meaning!RejectBytes(msg, pending.c) <=> TooLong(pending.c, b)
         /\ ~Condemned(pending.c)
         /\ (\A b : TooLong(pending.c, b) => ~(Base + pos < b /\ b <= fed)) =>
              \A e : Final(ConstructOf(msg, pending.c), e) =>
                \A n \in Nat : n <= e /\ n <= fed => Clear(Base + pos, n)
<1>1. /\ Follows(Base + pos) /\ msg \in Messages /\ resume = "none" /\ pc # "value"
  BY JudgeNow DEF Walking, IInv, Framed, Resumed
<1>2. ~Meaning!Heard(msg, pending.c) /\ Base + pos \in 1 .. Len(wire) /\ wire[Base + pos].c = pending.c
  BY <1>1 DEF Follows, Awaited
<1>3. \A b : b \in Meaning!RejectBytes(msg, pending.c) <=> TooLong(pending.c, b)
  BY <1>1, <1>2, RejectPassed
<1>4. ~Condemned(pending.c)
  BY <1>2 DEF Condemned, Meaning!BadHeader, Values, field
<1>5. ASSUME \A b : TooLong(pending.c, b) => ~(Base + pos < b /\ b <= fed),
             NEW e, Final(ConstructOf(msg, pending.c), e), NEW n \in Nat, n <= e, n <= fed
      PROVE  Clear(Base + pos, n)
  <2>1. \A b \in Meaning!RejectBytes(msg, pending.c) : ~(Base + pos < b /\ b <= n)
    <3>1. TAKE b \in Meaning!RejectBytes(msg, pending.c)
    <3>2. b \in Nat /\ TooLong(pending.c, b) /\ fed \in Nat
      BY <1>1, <1>3, RejectPlace, Window
    <3> QED BY <1>5, <3>2
  <2> QED BY <1>1, <1>2, <1>5, <2>1, WithinClear
<1> QED BY <1>3, <1>4, <1>5

LEMMA DroppedJudged ==
  ASSUME IInv, Located, Listening, Judged, Walking, NEW q \in pos .. Len(view), Advance(q),
         pending' = NoPending, UNCHANGED <<resume, pc>>,
         ~lost => Clear(Base + pos, Base + q)
  PROVE  Judged'
<1>1. /\ pc # "idle" /\ pc # "value" /\ pc' # "idle" /\ resume' # "visit" /\ UNCHANGED <<msg, fed>>
      /\ pending'.tag # "discard"
  BY DEF Walking, IInv, Framed, Resumed, Advance, NoPending
<1>2. ASSUME ~lost PROVE \A a \in {Base + q} : Unjudged(a)'
  <2>1. \A x \in {Base + q} : Discarding(x)'
    BY <1>1 DEF Discarding
  <2> QED BY <1>1, <1>2, <2>1, UnjudgedNext
<1> QED BY <1>1, <1>2, AdvanceJudged

LEMMA DroppingJudged ==
  ASSUME IInv, Located, Listening, Judged, Walking, UNCHANGED <<msg, fed>>,
         NEW q \in pos .. Len(view), RunOut(q), SkipInFlight,
         ~lost => /\ Clear(Base + pos, fed) /\ Clear(Base + pos, Base + q)
                  /\ \A x \in {Base + q} : Discarding(x)'
  PROVE  Judged'
<1>1. /\ pc # "idle" /\ pc # "value" /\ resume' # "visit" /\ Retain(q, "INCOMPLETE")
      /\ status' # "INVALID" /\ UNCHANGED limit
  BY DEF Walking, SkipInFlight, RunOut
<1>2. ASSUME ~lost PROVE \A a \in {Base + q} : Unjudged(a)'
  BY <1>1, <1>2, UnjudgedNext
<1> QED BY <1>1, <1>2, RetainJudged

(* A varint too long ends the feed, whoever would have read it.            *)
LEMMA OverlongJudged ==
  ASSUME IInv, Located, Listening, Judged, Walking, Reject("INVALID"),
         pending.tag = "scalar" \/ (pending.tag = "discard" /\ pending.bytes = 0),
         Malformed(pos, pending.vars, IF pending.tag = "discard" THEN pending.vb ELSE 0)
  PROVE  Judged'
<1>1. pc # "idle" /\ pending.tag # "none"
  BY DEF Walking
<1>2. ASSUME ~lost
      PROVE  /\ Current \in 1 .. Len(Fields[msg])
             /\ \E b \in Meaning!RejectBytes(msg, Current) : b <= fed
             /\ ~Condemned(Current)
  <2>1. PICK vb : vb = IF pending.tag = "discard" THEN pending.vb ELSE 0
    OBVIOUS
  <2>2. /\ pending.c \in 1 .. Len(Fields[msg]) /\ field(pending.c).kind \in Values
        /\ Malformed(pos, pending.vars, vb) =>
              \E b : TooLong(pending.c, b) /\ Base + pos < b /\ b <= fed
    BY <1>1, <1>2, <2>1, VarintsNow
  <2>3. /\ \A b : b \in Meaning!RejectBytes(msg, pending.c) <=> TooLong(pending.c, b)
        /\ ~Condemned(pending.c)
    BY <1>1, <1>2, <2>2, PassedClear
  <2>4. Malformed(pos, pending.vars, vb)
    BY <2>1
  <2>5. Current = pending.c
    BY <1>1 DEF Current
  <2> QED BY <2>2, <2>3, <2>4, <2>5
<1> QED BY <1>1, <1>2, RejectJudged

LEMMA SkipScalarJudged ==
  ASSUME IInv, Located, Listening, Judged, SkipScalar
  PROVE  Judged'
<1>1. Walking /\ pc # "idle" /\ pending.tag = "scalar" /\ pending.tag # "none"
  BY DEF SkipScalar, Walking
<1>2. /\ Base \in Int /\ pos \in Nat /\ Len(view) \in Nat /\ pos <= Len(view) /\ fed \in Nat
      /\ Base + Len(view) = fed /\ pos \in pos .. Len(view) /\ keep = pos /\ msg \in Messages
  BY Window
<1>3. ASSUME ~lost
      PROVE  /\ pending.vars = 1 /\ pending.c \in 1 .. Len(Fields[msg])
             /\ field(pending.c).kind \in Values /\ Base + pos \in Nat
             /\ Malformed(pos, 1, 0) <=> \E b : TooLong(pending.c, b) /\ Base + pos < b /\ b <= fed
  <2>1. pending.vars = 1
    BY <1>1, <1>3, ValuePlace DEF Values
  <2> QED BY <1>1, <1>3, <2>1, VarintsNow, JudgeNow
<1>4. CASE Malformed(pos, 1, 0) /\ Reject("INVALID")
  <2>1. ~lost => Malformed(pos, pending.vars, IF pending.tag = "discard" THEN pending.vb ELSE 0)
    BY <1>1, <1>3, <1>4
  <2>2. CASE ~lost
    BY <1>1, <1>4, <2>1, <2>2, OverlongJudged
  <2>3. CASE lost
    BY <1>1, <1>4, <2>3, RejectJudged
  <2> QED BY <2>2, <2>3
<1>5. ASSUME ~Malformed(pos, 1, 0), NEW q \in pos + 1 .. Len(view), EndsAt(pos, 1, q), Advance(q),
             pending' = NoPending, UNCHANGED <<depth, skipDepth, resume, pc, events>>
      PROVE  Judged'
  <2>1. q \in pos .. Len(view) /\ q \in Int /\ Base + q <= fed
    BY <1>2
  <2>2. ASSUME ~lost PROVE Clear(Base + pos, Base + q)
    <3>1. ValueEnd(q)
      BY <1>1, <1>3, <1>5, <2>2 DEF ValueEnd
    <3>2. Final(ConstructOf(msg, pending.c), Base + q)
      BY <1>1, <2>1, <2>2, <3>1, ValueSeen DEF Values
    <3>3. PICK n : n = Base + q
      OBVIOUS
    <3>4. n \in Nat /\ n <= n /\ n <= fed
      BY <1>2, <1>3, <2>1, <2>2, <3>3
    <3>5. \A b : TooLong(pending.c, b) => ~(Base + pos < b /\ b <= fed)
      BY <1>3, <1>5, <2>2
    <3>6. \A e : Final(ConstructOf(msg, pending.c), e) =>
                \A m \in Nat : m <= e /\ m <= fed => Clear(Base + pos, m)
      BY <1>1, <1>3, <2>2, <3>5, PassedClear
    <3> QED BY <3>2, <3>3, <3>4, <3>6
  <2> QED BY <1>1, <1>5, <2>1, <2>2, DroppedJudged
<1>6. CASE /\ ~Malformed(pos, 1, 0) /\ Ends(pos) = {} /\ Suspend /\ SkipInFlight
           /\ UNCHANGED <<msg, fed, pending, depth, skipDepth, events>>
  <2>1. ASSUME ~lost PROVE Clear(Base + pos, fed) /\ Clear(Base + pos, Base + pos)
    <3>1. \A q \in pos .. Len(view) : ~EndsAt(pos, pending.vars, q)
      BY <1>3, <1>6, <2>1 DEF EndsAt
    <3>2. PICK e \in 1 .. Len(wire) : Final(ConstructOf(msg, pending.c), e) /\ fed < e
      BY <1>1, <2>1, <3>1, ValueUnfinished DEF Values
    <3>3. \A b : TooLong(pending.c, b) => ~(Base + pos < b /\ b <= fed)
      BY <1>3, <1>6, <2>1
    <3>4. \A m \in Nat : m <= e /\ m <= fed => Clear(Base + pos, m)
      BY <1>1, <1>3, <2>1, <3>2, <3>3, PassedClear
    <3>5. fed <= e /\ fed <= fed
      BY <1>2, <3>2, WireTyped
    <3>6. Clear(Base + pos, fed)
      BY <1>2, <3>4, <3>5
    <3>7. Clear(Base + pos, Base + pos)
      BY <1>2, <1>3, <2>1, RejectPlace DEF Clear
    <3> QED BY <3>6, <3>7
  <2>2. \A x \in {Base + pos} : Discarding(x)'
    BY <1>1, <1>6 DEF Discarding
  <2> QED BY <1>1, <1>2, <1>6, <2>1, <2>2, DroppingJudged DEF Suspend
<1> QED BY <1>4, <1>5, <1>6 DEF SkipScalar

LEMMA DiscardJudged ==
  ASSUME IInv, Located, Listening, Judged, Discard
  PROVE  Judged'
<1>1. /\ Walking /\ pc # "idle" /\ pc # "value" /\ resume # "visit"
      /\ pending.tag \in {"payload", "varints"} /\ pending.tag \in Values
      /\ pending' = [pending EXCEPT !.tag = "discard", !.capped = FALSE]
      /\ UNCHANGED <<msg, fed, buffer, window, resume, outcome, pc, events, lost>>
      /\ pending \in Pending
  BY DEF Discard, Walking, IInv, Framed, FrameTyped, Resumed, Values
<1>2. /\ pending'.tag = "discard" /\ pending'.bytes = pending.bytes /\ pending'.vars = pending.vars
      /\ pending'.vb = pending.vb /\ pending'.c = pending.c /\ ~pending'.capped
  BY <1>1 DEF Pending
<1>3. Consumed' = Consumed /\ Consumed = Base + pos
  BY <1>1, Window DEF Consumed, window, buffer, held
<1>4. ASSUME ~lost PROVE \A a \in {Base + pos} : Unjudged(a)'
  <2>1. /\ Unjudged(Base + pos) /\ Placed(Base + pos) /\ msg \in Messages /\ Base + pos \in Nat
    BY <1>1, <1>4, JudgeNow
  <2>2. /\ pending.c \in 1 .. Len(Fields[msg]) /\ pending.tag = field(pending.c).kind
        /\ Final(HeaderOf(msg, pending.c), Base + pos)
    BY <1>1, <1>4, ValuePlace
  <2>3. pending = Park(pending.c)
    BY <1>1, <2>1 DEF Placed, Values
  <2>4. /\ pending.vb = 0
        /\ pending.bytes > 0 => field(pending.c).kind = "payload"
        /\ pending.vars > 0 => field(pending.c).kind = "varints"
    BY <1>1, <2>2, <2>3 DEF Park
  <2>5. Cardinality(Run(pending.c, Base + pos, Base + pos)) = 0
    BY <2>1, <2>2, NoRunYet
  <2>6. \A i \in HeaderOf(msg, pending.c) : i <= Base + pos
    BY <2>2 DEF Final
  <2>7. field(pending.c)' = field(pending.c) /\ field(pending.c).kind \in Values
    BY <1>1, <2>2 DEF field
  <2>8. \A a : Run(pending.c, a, a)' = Run(pending.c, a, a) /\ HeaderOf(msg', pending.c) = HeaderOf(msg, pending.c)
    BY <1>1, <1>2 DEF Run, wire
  <2>9. \A x \in {Base + pos} : Discarding(x)'
    BY <1>1, <1>2, <2>4, <2>5, <2>6, <2>7, <2>8 DEF Discarding, field, Run, wire
  <2>10. Clear(Base + pos, Base + pos)
    BY <2>1, RejectPlace DEF Clear
  <2> QED BY <1>1, <1>4, <2>9, <2>10, Window, UnjudgedNext
<1>5. ~(limit \/ status = "INVALID")'
  BY <1>1 DEF outcome, Located, IInv, Framed, Resumed
<1> QED BY <1>1, <1>3, <1>4, <1>5 DEF Judged

(* A discarded payload has nothing in it that could earn a verdict.        *)
LEMMA DrainBytesJudged ==
  ASSUME IInv, Located, Listening, Judged, DrainBytes
  PROVE  Judged'
<1>1. /\ Walking /\ pc # "idle" /\ pending.tag = "discard" /\ pending.tag # "none"
      /\ pending.bytes > 0 /\ pending \in Pending
  BY DEF DrainBytes, Walking, IInv, Framed, FrameTyped
<1>2. /\ Base \in Int /\ pos \in Nat /\ Len(view) \in Nat /\ pos <= Len(view) /\ fed \in Nat
      /\ Base + Len(view) = fed /\ pending.bytes \in Nat /\ Len(view) \in pos .. Len(view)
  BY <1>1, Window DEF Pending
<1>3. ASSUME ~lost
      PROVE  /\ Base + pos \in Nat /\ Discarding(Base + pos)
             /\ pending.c \in 1 .. Len(Fields[msg])
             /\ Final(ConstructOf(msg, pending.c), Base + pos + pending.bytes)
             /\ \A n \in Nat : n <= Base + pos + pending.bytes /\ n <= fed => Clear(Base + pos, n)
  <2>1. Unjudged(Base + pos) /\ Placed(Base + pos) /\ Base + pos \in Nat
    BY <1>1, <1>3, JudgeNow
  <2>2. /\ pending.c \in 1 .. Len(Fields[msg])
        /\ Final(ConstructOf(msg, pending.c), Base + pos + pending.bytes)
    BY <1>1, <2>1 DEF Placed, Values
  <2>3. Discarding(Base + pos)
    BY <2>1 DEF Unjudged
  <2>4. field(pending.c).kind = "payload" /\ field(pending.c).kind \in Values
    BY <1>1, <2>3 DEF Discarding
  <2>5. \A b : ~TooLong(pending.c, b)
    BY <2>4 DEF TooLong
  <2> QED BY <1>1, <1>3, <2>1, <2>2, <2>3, <2>4, <2>5, PassedClear
<1>4. ASSUME pos + pending.bytes <= Len(view), Advance(pos + pending.bytes),
             pending' = NoPending, UNCHANGED <<depth, skipDepth, resume, pc, events>>
      PROVE  Judged'
  <2>1. PICK q : q = pos + pending.bytes
    OBVIOUS
  <2>2. q \in pos .. Len(view) /\ Base + q = Base + pos + pending.bytes /\ Advance(q) /\ Base + q <= fed
    BY <1>2, <1>4, <2>1
  <2>3. ASSUME ~lost PROVE Clear(Base + pos, Base + q)
    <3>1. PICK n : n = Base + q
      OBVIOUS
    <3>2. n \in Nat /\ n <= Base + pos + pending.bytes /\ n <= fed
      BY <1>2, <1>3, <2>2, <2>3, <3>1
    <3> QED BY <1>3, <2>3, <3>1, <3>2
  <2> QED BY <1>1, <1>4, <2>2, <2>3, DroppedJudged
<1>5. ASSUME pos + pending.bytes > Len(view), RunOut(Len(view)),
             pending' = [pending EXCEPT !.bytes = Undrained], SkipInFlight,
             UNCHANGED <<msg, fed, depth, skipDepth, events>>
      PROVE  Judged'
  <2>1. /\ pending'.tag = "discard" /\ pending'.c = pending.c /\ pending'.vars = pending.vars
        /\ pending'.bytes = Undrained
    BY <1>1, <1>5 DEF Pending
  <2>2. Undrained > 0 /\ Base + pos <= fed
    BY <1>2, <1>5 DEF Undrained
  <2>3. ASSUME ~lost
        PROVE  Clear(Base + pos, fed) /\ \A x \in {fed} : Discarding(x)'
    <3>1. fed <= Base + pos + pending.bytes /\ fed <= fed
      BY <1>2, <1>5
    <3>2. Clear(Base + pos, fed)
      BY <1>2, <1>3, <2>3, <3>1
    <3>3. \A i \in HeaderOf(msg, pending.c) : i <= fed
      <4>1. \A i \in HeaderOf(msg, pending.c) : i <= Base + pos /\ i \in Int
        <5>1. \A i \in HeaderOf(msg, pending.c) : i <= Base + pos
          BY <1>1, <1>3, <2>3 DEF Discarding
        <5>2. \A i \in HeaderOf(msg, pending.c) : i \in Int
          BY DEF HeaderOf, ConstructOf
        <5> QED BY <5>1, <5>2
      <4> QED BY <1>2, <1>3, <2>2, <2>3, <4>1
    <3>4. Discarding(Base + pos)
      BY <1>3, <2>3
    <3>5. \A x \in {fed} : Discarding(x)'
      BY <1>1, <1>2, <1>5, <2>1, <2>2, <3>3, <3>4 DEF Discarding, field, HeaderOf, ConstructOf
    <3> QED BY <3>2, <3>5
  <2>4. PICK q : q = Len(view)
    OBVIOUS
  <2>5. q \in pos .. Len(view) /\ Base + q = fed /\ RunOut(q)
    BY <1>2, <1>5, <2>4
  <2> QED BY <1>1, <1>5, <2>3, <2>5, DroppingJudged
<1> QED BY <1>4, <1>5 DEF DrainBytes

LEMMA DrainVarintsJudged ==
  ASSUME IInv, Located, Listening, Judged, DrainVarints
  PROVE  Judged'
<1>1. /\ Walking /\ pc # "idle" /\ pending.tag = "discard" /\ pending.tag # "none"
      /\ pending.bytes = 0 /\ pending \in Pending
  BY DEF DrainVarints, Walking, IInv, Framed, FrameTyped
<1>2. /\ Base \in Int /\ pos \in Nat /\ Len(view) \in Nat /\ pos <= Len(view) /\ fed \in Nat
      /\ Base + Len(view) = fed /\ Len(view) \in pos .. Len(view) /\ pending.vars \in Nat
      /\ msg \in Messages
  BY <1>1, Window DEF Pending
<1>3. ASSUME ~lost
      PROVE  /\ Base + pos \in 1 .. Len(wire) /\ Base + pos \in Nat /\ Base + pos >= 0
             /\ wire[Base + pos].c = pending.c
             /\ pending.c \in 1 .. Len(Fields[msg]) /\ field(pending.c).kind \in Values
             /\ \A i \in HeaderOf(msg, pending.c) : i <= Base + pos
             /\ Left(Base + pos, pending.c, pending.vars) /\ Discarding(Base + pos)
             /\ pending.vb = Cardinality(Run(pending.c, Base + pos, Base + pos))
             /\ Malformed(pos, pending.vars, pending.vb) <=>
                  \E b : TooLong(pending.c, b) /\ Base + pos < b /\ b <= fed
  <2>1. Unjudged(Base + pos) /\ Base + pos \in Nat
    BY <1>1, <1>3, JudgeNow
  <2> QED BY <1>1, <1>3, <2>1, VarintsNow DEF Unjudged
<1>4. CASE Malformed(pos, pending.vars, pending.vb) /\ Reject("INVALID")
  BY <1>1, <1>4, OverlongJudged
(* What is dropped, as far as it is here.                                  *)
<1>5. ASSUME ~lost, ~Malformed(pos, pending.vars, pending.vb),
             NEW e, Final(ConstructOf(msg, pending.c), e), NEW n \in Nat, n <= e, n <= fed
      PROVE  Clear(Base + pos, n)
  <2>1. \A b : TooLong(pending.c, b) => ~(Base + pos < b /\ b <= fed)
    BY <1>3, <1>5
  <2> QED BY <1>1, <1>3, <1>5, <2>1, PassedClear
<1>6. ASSUME ~Malformed(pos, pending.vars, pending.vb),
             NEW q \in pos .. Len(view), EndsAt(pos, pending.vars, q), Advance(q),
             pending' = NoPending, UNCHANGED <<depth, skipDepth, resume, pc, events>>
      PROVE  Judged'
  <2>1. q \in Int /\ Base + q <= fed /\ pos <= q
    BY <1>2
  <2>2. ASSUME ~lost PROVE Clear(Base + pos, Base + q)
    <3>1. Final(ConstructOf(msg, pending.c), Base + q)
      BY <1>2, <1>3, <1>6, <2>2, LeftEnds
    <3>2. PICK n : n = Base + q
      OBVIOUS
    <3>3. n \in Nat /\ n <= n /\ n <= fed
      <4>1. Base + pos \in Nat /\ pos \in Int /\ Base \in Int
        BY <1>2, <1>3, <2>2
      <4> QED BY <2>1, <3>2, <4>1
    <3> QED BY <1>5, <1>6, <2>2, <3>1, <3>2, <3>3
  <2> QED BY <1>1, <1>6, <2>2, DroppedJudged
<1>7. ASSUME ~Malformed(pos, pending.vars, pending.vb), Cardinality(Ends(pos)) < pending.vars,
             RunOut(Len(view)),
             pending' = [pending EXCEPT !.vars = @ - Cardinality(Ends(pos)), !.vb = InFlight],
             SkipInFlight, UNCHANGED <<msg, fed, depth, skipDepth, events>>
      PROVE  Judged'
  <2>1. /\ pending'.tag = "discard" /\ pending'.c = pending.c /\ pending'.bytes = 0
        /\ pending'.vb = InFlight
    BY <1>1, <1>7 DEF Pending
  <2>2. pending.vars > 0
    BY <1>2, <1>7, FiniteEnds DEF IInv
  <2>3. ASSUME ~lost
        PROVE  Clear(Base + pos, fed) /\ \A x \in {fed} : Discarding(x)'
    <3>1. PICK n : n = pending.vars - Cardinality(Ends(pos))
      OBVIOUS
    <3>2. Left(fed, pending.c, n)
      BY <1>2, <1>3, <1>7, <2>3, <3>1, LeftDropped
    <3>3. PICK e \in 1 .. Len(wire) : Final(ConstructOf(msg, pending.c), e) /\ fed <= e
      BY <3>2 DEF Left
    <3>4. Clear(Base + pos, fed)
      BY <1>2, <1>5, <1>7, <2>3, <3>3
    <3>5. InFlight = Cardinality(Run(pending.c, fed, fed))
      <4>1. PICK a : a = Base + pos
        OBVIOUS
      <4>2. a + 1 .. e \subseteq ValueOf(msg, pending.c)
        BY <1>2, <1>3, <2>3, <3>3, <4>1, ValueAhead
      <4>3. a + 1 .. fed \subseteq a + 1 .. e
        <5>1. e \in Int /\ a \in Int
          BY <1>3, <2>3, <3>3, <4>1
        <5> QED BY <1>2, <3>3, <5>1
      <4>4. a + 1 .. fed \subseteq ValueOf(msg, pending.c)
        BY <4>2, <4>3
      <4> QED BY <1>3, <2>3, <4>1, <4>4, InFlightSeen
    <3>6. \A i \in HeaderOf(msg, pending.c) : i <= fed
      <4>1. Base + pos <= fed
        BY <1>2
      <4>2. \A i \in HeaderOf(msg, pending.c) : i <= Base + pos /\ i \in Int
        BY <1>2, <1>3, <2>3, WireTyped DEF HeaderOf, ConstructOf
      <4> QED BY <1>2, <1>3, <2>3, <4>1, <4>2
    <3>7. field(pending.c).kind = "varints" /\ field(pending.c).kind \in Values
      BY <1>1, <1>3, <2>2, <2>3 DEF Discarding
    <3>8. \A x \in {fed} : Discarding(x)'
      BY <1>7, <2>1, <3>5, <3>6, <3>7
         DEF Discarding, field, HeaderOf, ConstructOf, ValueOf, Run, wire
    <3> QED BY <3>4, <3>8
  <2>4. PICK q : q = Len(view)
    OBVIOUS
  <2>5. q \in pos .. Len(view) /\ Base + q = fed /\ RunOut(q)
    BY <1>2, <1>7, <2>4
  <2> QED BY <1>1, <1>7, <2>3, <2>5, DroppingJudged
<1> QED BY <1>4, <1>6, <1>7 DEF DrainVarints

-----------------------------------------------------------------------------
(* Values the handler takes.                                               *)

LEMMA TakenNow ==
  ASSUME IInv, Located, Listening, Judged, ~lost, pc = "value"
  PROVE  /\ pending.c \in 1 .. Len(Fields[msg]) /\ msg \in Messages
         /\ pending.tag \in Values /\ pending.tag = field(pending.c).kind
         /\ Meaning!Heard(msg, pending.c) /\ pending.capped = field(pending.c).over
         /\ Final(HeaderOf(msg, pending.c), Base + pos)
         /\ Base + pos \in 1 .. Len(wire) /\ wire[Base + pos].c = pending.c /\ Base + pos \in Nat
         /\ \A i \in HeaderOf(msg, pending.c) : i <= Base + pos
         /\ Current = pending.c
<1>1. pc # "idle" /\ pending.tag \in Values /\ pending.tag # "none" /\ pending.tag # "discard"
  BY DEF IInv, Framed, SkipLevel, Values
<1>2. /\ Placed(Base + pos) /\ Follows(Base + pos) /\ msg \in Messages /\ Base + pos \in Nat
  BY <1>1, JudgeNow
<1>3. Base + pos \in 1 .. Len(wire) /\ wire[Base + pos].c = pending.c
  BY <1>1, <1>2 DEF Follows
<1>4. /\ pending.c \in 1 .. Len(Fields[msg]) /\ pending.tag = field(pending.c).kind
      /\ Final(HeaderOf(msg, pending.c), Base + pos)
  BY <1>1, ValuePlace
<1>5. pending = Park(pending.c)
  BY <1>1, <1>2 DEF Placed
<1>6. pending.capped = field(pending.c).over
  BY <1>5 DEF Park
<1>7. Awaited = {pending.c}
  BY <1>1 DEF Awaited
<1>8. Meaning!Heard(msg, pending.c)
  BY <1>2, <1>7 DEF Follows, Told
<1> QED BY <1>1, <1>2, <1>3, <1>4, <1>6, <1>8 DEF Final, Current

(* A payload that has not all come is not judged yet ...                   *)
LEMMA PayloadPending ==
  ASSUME IInv, Located, Listening, Judged, ~lost, pc = "value", ~pending.capped,
         pending.tag = "payload", Len(view) - pos < pending.bytes,
         NEW b \in Meaning!RejectBytes(msg, pending.c)
  PROVE  ~(b <= fed)
<1>1. /\ pending.c \in 1 .. Len(Fields[msg]) /\ msg \in Messages
      /\ pending.tag = field(pending.c).kind /\ pending.tag \in Values
      /\ Meaning!Heard(msg, pending.c) /\ pending.capped = field(pending.c).over
  BY TakenNow
<1>2. Final(ConstructOf(msg, pending.c), b)
  BY <1>1, RejectTaken DEF TooLong
<1>3. PICK e \in 1 .. Len(wire) : Final(ConstructOf(msg, pending.c), e) /\ fed < e
  BY <1>1, ValueUnfinished
<1>4. b = e
  BY <1>1, <1>2, <1>3, ConstructsEnd
<1> QED BY <1>1, <1>3, <1>4, Window

(* ... and one that has is judged as the message says, like an array, of   *)
(* which each element is judged when it has come.                          *)
LEMMA UnacceptableSeen ==
  ASSUME IInv, Located, Listening, Judged, ~lost, Reading, ~pending.capped
  PROVE  Unacceptable <=>
           \E b \in Meaning!RejectBytes(msg, pending.c) : Base + pos < b /\ b <= fed
<1>1. pc = "value" /\ pc # "idle"
  BY DEF Reading
<1>2. /\ pending.c \in 1 .. Len(Fields[msg]) /\ msg \in Messages
      /\ pending.tag = field(pending.c).kind /\ pending.tag \in Values
      /\ Meaning!Heard(msg, pending.c) /\ pending.capped = field(pending.c).over
      /\ Final(HeaderOf(msg, pending.c), Base + pos)
      /\ Base + pos \in 1 .. Len(wire) /\ wire[Base + pos].c = pending.c /\ Base + pos \in Nat
      /\ \A i \in HeaderOf(msg, pending.c) : i <= Base + pos
  BY <1>1, TakenNow
<1>3. /\ Base \in Int /\ pos \in Nat /\ Len(view) \in Nat /\ pos <= Len(view) /\ fed \in Nat
      /\ Base + Len(view) = fed
  BY Window
<1>4. CASE pending.tag = "payload"
  <2>1. Final(ConstructOf(msg, pending.c), Base + pos + pending.bytes) /\ pending.bytes \in Nat
    BY <1>1, <1>2, <1>4, ValuePlace
  <2>2. CASE Len(view) - pos < pending.bytes
    <3>1. ~(pos + pending.bytes <= Len(view))
      BY <1>3, <2>1, <2>2
    <3> QED BY <1>1, <1>4, <2>2, <3>1, PayloadPending DEF Unacceptable
  <2>3. CASE pos + pending.bytes <= Len(view)
    <3>1. PICK e : e = Base + pos + pending.bytes
      OBVIOUS
    <3>2. e \in 1 .. Len(wire) /\ e <= fed /\ Final(ConstructOf(msg, pending.c), e)
      BY <1>2, <1>3, <2>1, <2>3, <3>1, ConstructsEnd
    <3>3. \A b : b \in Meaning!RejectBytes(msg, pending.c) <=>
                   b = e /\ \E i \in ValueOf(msg, pending.c) : wire[i].bad
      <4>1. \A b : Final(ConstructOf(msg, pending.c), b) <=> b = e
        BY <1>2, <3>2, ConstructsEnd
      <4> QED BY <1>2, <1>4, <4>1, RejectTaken DEF TooLong
    <3>4. ValueOf(msg, pending.c) = Base + pos + 1 .. e
      <4>1. PICK f \in 1 .. Len(wire) :
              Final(ConstructOf(msg, pending.c), f) /\ ValueOf(msg, pending.c) = Base + pos + 1 .. f
        <5>1. PICK h : h = Base + pos
          OBVIOUS
        <5> QED BY <1>2, <5>1, ValueSpan
      <4>2. f = e
        BY <1>2, <3>2, <4>1, ConstructsEnd
      <4> QED BY <4>1, <4>2
    <3>5. (\E i \in ValueOf(msg, pending.c) : wire[i].bad) <=>
            \E q \in pos + 1 .. pos + pending.bytes : at(q).bad
      <4>1. ASSUME NEW q \in pos + 1 .. pos + pending.bytes
            PROVE  Base + q \in ValueOf(msg, pending.c) /\ at(q) = wire[Base + q]
        <5>1. q \in pos + 1 .. Len(view) /\ Base + q \in Base + pos + 1 .. e
          <6>1. q \in Int /\ pos + 1 <= q /\ q <= pos + pending.bytes
            BY <1>3, <2>1
          <6> QED BY <1>3, <2>1, <2>3, <3>1, <6>1
        <5>2. Base + q \in ValueOf(msg, pending.c)
          BY <3>4, <5>1
        <5>3. at(q) = wire[Base + q]
          BY <1>2, <5>1, Seen
        <5> QED BY <5>2, <5>3
      <4>2. ASSUME NEW i \in ValueOf(msg, pending.c)
            PROVE  i - Base \in pos + 1 .. pos + pending.bytes /\ Base + (i - Base) = i
        <5>1. i \in Base + pos + 1 .. e
          BY <3>4
        <5>2. i \in Int /\ Base + pos + 1 <= i /\ i <= Base + pos + pending.bytes
          BY <1>3, <2>1, <3>1, <5>1
        <5>3. i - Base \in Int /\ pos + 1 <= i - Base /\ i - Base <= pos + pending.bytes
          BY <1>3, <2>1, <5>2
        <5> QED BY <1>3, <2>1, <5>2, <5>3
      <4> QED BY <4>1, <4>2
    <3>6. (\E i \in ValueOf(msg, pending.c) : wire[i].bad) => Base + pos < e
      BY <1>2, <1>3, <3>2, <3>4
    <3>7. Unacceptable <=> \E q \in pos + 1 .. pos + pending.bytes : at(q).bad
      BY <1>4, <2>3 DEF Unacceptable
    <3> QED BY <3>2, <3>3, <3>5, <3>6, <3>7
  <2> QED BY <1>3, <2>1, <2>2, <2>3
<1>5. CASE pending.tag # "payload"
  <2>1. pending.tag \in {"scalar", "varints"} /\ pending.tag # "discard"
    BY <1>2, <1>5 DEF Values
  <2>2. PICK vb : vb = IF pending.tag = "discard" THEN pending.vb ELSE 0
    OBVIOUS
  <2>3. /\ pending.vars \in Nat /\ Left(Base + pos, pending.c, pending.vars)
        /\ Malformed(pos, pending.vars, vb) <=>
              \E b : TooLong(pending.c, b) /\ Base + pos < b /\ b <= fed
    BY <1>1, <2>1, <2>2, VarintsNow
  <2>4. (\E q \in Ends(pos) : Reached(pos, pending.vars, q) /\ at(q).bad) <=>
          \E b \in ValueOf(msg, pending.c) : /\ Base + pos < b /\ b <= fed
                                             /\ ~wire[b].cont /\ wire[b].bad
    BY <1>2, <2>3, VarintsSeen
  <2>5. \A b : b \in Meaning!RejectBytes(msg, pending.c) <=>
                 \/ TooLong(pending.c, b)
                 \/ b \in ValueOf(msg, pending.c) /\ ~wire[b].cont /\ wire[b].bad
    BY <1>2, <2>1, RejectTaken
  <2>6. vb = 0
    BY <2>1, <2>2
  <2> QED BY <1>5, <2>3, <2>4, <2>5, <2>6 DEF Unacceptable
<1> QED BY <1>4, <1>5

(* A value above the receiver's cap is refused before any of it is read,   *)
(* and only for the cap.                                                   *)
LEMMA OverCapJudged ==
  ASSUME IInv, Located, Listening, Judged, OverCap
  PROVE  Judged'
<1>1. pc = "value" /\ pc # "idle" /\ pending.capped /\ Reject("LIMIT")
  BY DEF OverCap, Reading
<1>2. ASSUME ~lost
      PROVE  /\ Current \in 1 .. Len(Fields[msg])
             /\ \E b \in Meaning!RejectBytes(msg, Current) : b <= fed
             /\ Condemned(Current) /\ ~Meaning!BadHeader(msg, Current)
  <2>1. /\ pending.c \in 1 .. Len(Fields[msg]) /\ msg \in Messages
        /\ pending.tag \in Values /\ pending.tag = field(pending.c).kind
        /\ Meaning!Heard(msg, pending.c) /\ pending.capped = field(pending.c).over
        /\ Final(HeaderOf(msg, pending.c), Base + pos) /\ Current = pending.c
    BY <1>1, <1>2, TakenNow
  <2>2. Condemned(pending.c) /\ ~Meaning!BadHeader(msg, pending.c)
    BY <1>1, <2>1, RejectTaken
  <2>3. Base + pos \in Meaning!RejectBytes(msg, pending.c)
    BY <2>1, <2>2, RejectBytesAre
  <2>4. Base + pos <= fed
    BY Window
  <2> QED BY <2>1, <2>2, <2>3, <2>4
<1> QED BY <1>1, <1>2, RejectJudged

(* A value is refused for what it says when the byte that says it is here. *)
LEMMA ValueInvalidJudged ==
  ASSUME IInv, Located, Listening, Judged, ValueInvalid
  PROVE  Judged'
<1>1. /\ pc = "value" /\ pc # "idle" /\ Reading /\ ~pending.capped /\ Unacceptable
      /\ Reject("INVALID")
  BY DEF ValueInvalid, Reading
<1>2. ASSUME ~lost
      PROVE  /\ Current \in 1 .. Len(Fields[msg])
             /\ \E b \in Meaning!RejectBytes(msg, Current) : b <= fed
             /\ ~Condemned(Current)
  <2>1. /\ pending.c \in 1 .. Len(Fields[msg]) /\ msg \in Messages
        /\ pending.tag \in Values /\ pending.tag = field(pending.c).kind
        /\ Meaning!Heard(msg, pending.c) /\ pending.capped = field(pending.c).over
        /\ Current = pending.c
    BY <1>1, <1>2, TakenNow
  <2>2. PICK b \in Meaning!RejectBytes(msg, pending.c) : b <= fed
    BY <1>1, <1>2, UnacceptableSeen
  <2>3. ~Condemned(pending.c)
    BY <1>1, <2>1, RejectTaken
  <2> QED BY <2>1, <2>2, <2>3
<1> QED BY <1>1, <1>2, RejectJudged

(* A value the handler gets holds no byte that earns a verdict.            *)
LEMMA TakenClear ==
  ASSUME IInv, Located, Listening, Judged, ~lost, Reading, ~pending.capped, ~Unacceptable,
         NEW n \in Nat, n <= fed,
         \A e : Final(ConstructOf(msg, pending.c), e) => n <= e
  PROVE  Clear(Base + pos, n)
<1>1. pc = "value"
  BY DEF Reading
<1>2. /\ pending.c \in 1 .. Len(Fields[msg]) /\ msg \in Messages
      /\ Base + pos \in 1 .. Len(wire) /\ wire[Base + pos].c = pending.c
  BY <1>1, TakenNow
<1>3. PICK a : a = Base + pos
  OBVIOUS
<1>4. PICK e \in 1 .. Len(wire) : Final(ConstructOf(msg, pending.c), e)
  BY <1>2, ConstructsEnd
<1>5. \A b \in Meaning!RejectBytes(msg, pending.c) : ~(a < b /\ b <= fed)
  BY <1>3, UnacceptableSeen
<1>6. \A b \in Meaning!RejectBytes(msg, pending.c) : ~(a < b /\ b <= n)
  <2>1. TAKE b \in Meaning!RejectBytes(msg, pending.c)
  <2>2. b \in Nat /\ fed \in Nat
    BY <1>2, RejectPlace, Window
  <2> QED BY <1>5, <2>2
<1> QED BY <1>2, <1>3, <1>4, <1>6, WithinClear

LEMMA TakeJudged ==
  ASSUME IInv, Located, Listening, Judged, TakeValue
  PROVE  Judged'
<1>1. PICK q \in pos .. Len(view) :
        /\ ValueEnd(q)
        /\ \/ Advance(q) /\ pc' = "walk"
           \/ /\ Retain(q, "RAISED") /\ broken' = TRUE
              /\ UNCHANGED <<msg, fed, status, limit>>
  BY DEF TakeValue
<1>2. /\ pc = "value" /\ pc # "idle" /\ Reading /\ ~pending.capped /\ ~Unacceptable
      /\ pending.tag \in Values /\ resume' = "none" /\ pending'.tag = "none"
      /\ UNCHANGED <<msg, fed>>
  BY <1>1 DEF TakeValue, Reading, NoPending, Advance, IInv, Framed, SkipLevel
<1>3. pc' = "idle" => broken'
  BY <1>1 DEF Advance
<1>4. ASSUME ~lost PROVE \A a \in {Base + q} : Unjudged(a)'
  <2>1. Final(ConstructOf(msg, pending.c), Base + q)
    BY <1>1, <1>2, <1>4, ValueSeen
  <2>2. msg \in Messages
    BY Window
  <2>3. /\ Base + q \in Nat /\ Base + q <= fed
        /\ \A e : Final(ConstructOf(msg, pending.c), e) => Base + q <= e
    <3>1. PICK n : n = Base + q
      OBVIOUS
    <3>2. n \in 1 .. Len(wire) /\ \A e : Final(ConstructOf(msg, pending.c), e) => n = e
      BY <2>1, <2>2, <3>1, ConstructsEnd
    <3>3. n \in Nat /\ n <= fed
      BY <3>1, <3>2, Window
    <3> QED BY <3>1, <3>2, <3>3
  <2>4. Clear(Base + pos, Base + q)
    BY <1>2, <1>4, <2>3, TakenClear
  <2>5. \A x \in {Base + q} : Discarding(x)'
    BY <1>2 DEF Discarding
  <2> QED BY <1>2, <1>3, <1>4, <2>4, <2>5, UnjudgedNext
<1>5. CASE Advance(q) /\ pc' = "walk"
  BY <1>2, <1>4, <1>5, AdvanceJudged
<1>6. CASE Retain(q, "RAISED") /\ UNCHANGED <<msg, fed, status, limit>>
  <2>1. status' # "INVALID"
    BY <1>2, <1>6 DEF IInv, Framed, Resumed
  <2> QED BY <1>2, <1>4, <1>6, <2>1, RetainJudged
<1> QED BY <1>1, <1>5, <1>6

(* Waiting for the rest of a value: what has come of it earns no verdict.  *)
LEMMA WaitJudged ==
  ASSUME IInv, Located, Listening, Judged, StillShort \/ ValueShort
  PROVE  Judged'
<1>1. /\ pc = "value" /\ pc # "idle" /\ Retain(pos, "INCOMPLETE") /\ status' = "INCOMPLETE"
      /\ resume' = "visit" /\ pos \in pos .. Len(view)
      /\ UNCHANGED <<msg, fed, pending, limit>>
  BY Window DEF StillShort, ValueShort, Reading, Suspend, RunOut, framing
<1>2. pending.tag \in Values /\ pending.bytes \in Nat
  BY <1>1 DEF IInv, Framed, FrameTyped, Pending, SkipLevel
<1>3. IF pending.tag = "payload" THEN Len(view) - pos < pending.bytes
      ELSE \A q \in pos .. Len(view) : ~EndsAt(pos, pending.vars, q)
  <2>1. CASE StillShort
    BY <2>1 DEF StillShort, Located, StillAwaited
  <2>2. CASE ValueShort
    <3>1. CASE pending.tag = "payload"
      <4>1. pos + pending.bytes \notin pos .. Len(view)
        BY <2>2, <3>1 DEF ValueShort, ValueEnd
      <4> QED BY <1>2, <3>1, <4>1, Window
    <3>2. CASE pending.tag # "payload"
      BY <2>2, <3>2 DEF ValueShort, ValueEnd
    <3> QED BY <3>1, <3>2
  <2> QED BY <2>1, <2>2
<1>4. ASSUME ~lost PROVE \A a \in {Base + pos} : Unjudged(a)'
  <2>1. ~pending.capped
    <3>1. CASE StillShort
      BY <1>1, <1>4, <3>1, JudgeNow DEF StillShort, Unjudged
    <3>2. CASE ValueShort
      BY <3>2 DEF ValueShort
    <3> QED BY <3>1, <3>2
  <2>2. PICK e \in 1 .. Len(wire) : Final(ConstructOf(msg, pending.c), e) /\ fed < e
    BY <1>1, <1>2, <1>3, <1>4, ValueUnfinished
  <2>3. /\ pending.c \in 1 .. Len(Fields[msg]) /\ msg \in Messages
        /\ Base + pos \in 1 .. Len(wire) /\ wire[Base + pos].c = pending.c /\ Base + pos \in Nat
    BY <1>1, <1>4, TakenNow
  <2>4. /\ fed \in Nat /\ Base \in Int /\ pos \in Nat /\ Base + pos <= fed
        /\ \A f : Final(ConstructOf(msg, pending.c), f) => fed <= f
    BY <2>2, <2>3, ConstructsEnd, Window
  <2>5. Clear(Base + pos, fed)
    <3>1. CASE StillShort
      <4>1. PICK a : a = Base + pos
        OBVIOUS
      <4>2. pending.tag = "payload"
        BY <3>1 DEF StillShort, Located, StillAwaited
      <4>3. \A b \in Meaning!RejectBytes(msg, pending.c) : ~(a < b /\ b <= fed)
        BY <1>1, <1>3, <1>4, <2>1, <4>2, PayloadPending
      <4> QED BY <2>2, <2>3, <2>4, <4>1, <4>3, WithinClear
    <3>2. CASE ValueShort
      BY <1>4, <2>4, <3>2, TakenClear DEF ValueShort
    <3> QED BY <3>1, <3>2
  <2>6. Clear(Base + pos, Base + pos)
    <3>1. PICK a : a = Base + pos
      OBVIOUS
    <3>2. \A c \in 1 .. Len(Fields[msg]) : \A b \in Meaning!RejectBytes(msg, c) : ~(a < b /\ b <= a)
      BY <2>3, <3>1, RejectPlace
    <3> QED BY <3>1, <3>2 DEF Clear
  <2>7. \A x \in {Base + pos} : Discarding(x)'
    BY <1>1, <1>2 DEF Discarding, Values
  <2>8. pending.capped => pc # "value" \/ resume # "none"
    BY <2>1
  <2>9. ~pending'.capped
    BY <1>1, <2>1
  <2> QED BY <1>1, <1>4, <2>5, <2>6, <2>7, <2>8, <2>9, UnjudgedNext
<1> QED BY <1>1, <1>4, RetainJudged

-----------------------------------------------------------------------------
(* Feeds, resets and the whole.                                            *)

LEMMA SameJudged ==
  ASSUME Judged, Consumed' = Consumed,
         UNCHANGED <<msg, fed, pending, resume, status, limit, pc, events, broken, lost>>
  PROVE  Judged'
<1>1. ASSUME NEW a, Unjudged(a) PROVE Unjudged(a)'
  <2>1. Discarding(a)'
    BY <1>1 DEF Unjudged, Discarding, Run, HeaderOf, ValueOf, ConstructOf, wire, field
  <2>2. Parked' <=> Parked
    BY DEF Parked
  <2>3. \A x \in {a} : Discarding(x)'
    BY <2>1
  <2>4. \A c \in 1 .. Len(Fields[msg]) : \A b \in Meaning!RejectBytes(msg, c) :
          b <= a => Parked' /\ c = pending'.c
    BY <1>1, <2>2 DEF Unjudged
  <2>5. pc' = "idle" /\ ~broken' =>
          \A c \in 1 .. Len(Fields[msg]) : \A b \in Meaning!RejectBytes(msg, c) : fed' < b
    BY <1>1 DEF Unjudged
  <2>6. resume' = "visit" => ~pending'.capped
    BY <1>1 DEF Unjudged
  <2> QED BY <2>3, <2>4, <2>5, <2>6, UnjudgedFrom
<1>2. ASSUME Sentenced PROVE Sentenced'
  BY <1>2, SameSentence DEF Sentenced, Verdict
<1> QED BY <1>1, <1>2 DEF Judged

LEMMA FeedJudged ==
  ASSUME IInv, IInv', Judged, Feed
  PROVE  Judged'
<1>1. CASE Feedable /\ (\E v : Enter(v)) /\ Consumed' = fed - held
  <2>1. /\ pc = "idle" /\ ~limit /\ status # "INVALID" /\ Consumed = fed - held
        /\ UNCHANGED <<msg, pending, status, limit, lost>>
    BY <1>1 DEF Feedable, Enter, Consumed
  <2>2. pc' # "idle" /\ (resume' = "visit" => resume = "visit")
    <3>1. /\ pc' = CASE resume = "none"  -> "walk"
                     [] resume = "skip"  -> "skip"
                     [] resume = "visit" -> "value"
          /\ resume' = "visit" => resume = "visit"
      BY <1>1, Zenon DEF Enter
    <3>2. resume \in {"none", "skip", "visit"}
      BY DEF IInv, Framed, FrameTyped
    <3> QED BY <3>1, <3>2
  <2>3. ASSUME ~lost PROVE \A a \in {Consumed} : Unjudged(a)'
    <3>1. PICK a : a = Consumed
      OBVIOUS
    <3>2. Unjudged(a)
      BY <2>1, <2>3, <3>1 DEF Judged
    <3>3. Discarding(a)'
      BY <2>1, <3>2 DEF Unjudged, Discarding, Run, HeaderOf, ValueOf, ConstructOf, wire, field
    <3>4. \A x \in {a} : Discarding(x)'
      BY <3>3
    <3>5. \A c \in 1 .. Len(Fields[msg]) : \A b \in Meaning!RejectBytes(msg, c) : ~(b <= a)
      BY <2>1, <3>2 DEF Unjudged, Parked
    <3>6. resume' = "visit" => ~pending'.capped
      BY <2>1, <2>2, <3>2 DEF Unjudged
    <3> QED BY <2>1, <2>2, <3>1, <3>4, <3>5, <3>6, UnjudgedFrom
  <2> QED BY <1>1, <2>1, <2>3 DEF Judged
<1>2. CASE /\ UNCHANGED <<msg, fed, view, pos, pending, depth, skipDepth, resume, status, limit,
                         pc, events, broken, lost>>
           /\ Consumed' = Consumed
  BY <1>2, SameJudged
<1> QED BY <1>1, <1>2, FeedKeepsPlace

LEMMA FreshJudged == Fresh /\ ~limit /\ resume = "none" => Judged
<1> SUFFICES ASSUME Fresh, ~limit, resume = "none" PROVE Unjudged(0)
  BY DEF Judged, Fresh, Consumed
<1>1. \A c \in 1 .. Len(Fields[msg]) : \A b \in Meaning!RejectBytes(msg, c) : 0 < b /\ ~(b <= 0)
  BY RejectPlace DEF Fresh
<1> QED BY <1>1 DEF Unjudged, Discarding, Fresh

LEMMA ResetJudged == (Fresh /\ ~limit /\ resume = "none")' => Judged'
  BY FreshJudged, PTL

LEMMA InitJudged == Init => Judged
<1> SUFFICES ASSUME Init PROVE Fresh /\ ~limit /\ resume = "none"
  BY FreshJudged
<1> QED BY DEF Init, Fresh, held, NoPending

LEMMA NextJudged == IInv /\ Located /\ Listening /\ Judged /\ [Next]_vars => Judged'
<1> SUFFICES ASSUME IInv, Located, Listening, Judged, [Next]_vars PROVE Judged'
  OBVIOUS
<1>1. IInv'
  BY NextIInv
<1>2. CASE UNCHANGED vars
  <2>1. UNCHANGED <<msg, fed, rstart, rend, view, pos, pending, depth, skipDepth, resume, status,
                    limit, pc, events, broken, lost>>
    BY <1>2 DEF vars, buffer, window, framing, outcome
  <2>2. Consumed' = Consumed
    BY <2>1 DEF Consumed, held
  <2> QED BY <2>1, <2>2, SameJudged
<1>3. CASE Reset
  <2>1. /\ msg' \in Messages /\ fed' = 0 /\ held' = 0 /\ pc' = "idle" /\ pending'.tag = "none"
        /\ depth' = 0 /\ skipDepth' = -1 /\ events' = <<>> /\ status' = "COMPLETE"
        /\ limit' = FALSE /\ resume' = "none"
    BY <1>3, <1>1 DEF Reset, held, NoPending, IInv, Framed, FrameTyped
  <2>2. (Fresh /\ ~limit /\ resume = "none")'
    BY <2>1 DEF Fresh
  <2> QED BY <2>2, ResetJudged
<1>4. CASE SequenceStart \/ SequenceEnd
  <2>1. pc \in {"walk", "skip"}
    BY <1>4 DEF SequenceStart, SequenceEnd, Header, AtHeader, Walking
  <2>2. CASE SequenceStart
    BY <2>1, <2>2, FrameJudged DEF SequenceStart
  <2>3. CASE SequenceEnd
    BY <2>1, <2>3, FrameJudged DEF SequenceEnd
  <2> QED BY <1>4, <2>2, <2>3
<1>5. CASE Walk
  BY <1>4, <1>5, WaitJudged, SkipScalarJudged, DiscardJudged, DrainBytesJudged, DrainVarintsJudged,
     PauseJudged, InvalidHeaderJudged, ValueHeaderJudged, OverCapJudged, ValueInvalidJudged,
     TakeJudged DEF Walk
<1> QED BY <1>1, <1>2, <1>3, <1>5, FeedJudged DEF Next

LEMMA JudgedTells == IInv /\ Located /\ Listening /\ Judged => ChunkInvariance
<1> SUFFICES ASSUME IInv, Located, Listening, Judged, pc = "idle", ~lost, ~broken
             PROVE  /\ Meaning!Listing(Delivered, Meaning!HeardBy(msg, fed))
                    /\ Verdict = Meaning!Outcome(msg, fed)
  BY DEF ChunkInvariance
<1>1. msg \in Messages /\ fed \in Nat
  BY Window
<1>2. CASE limit \/ status = "INVALID"
  BY <1>2 DEF Judged, Sentenced, Meaning!Outcome
<1>3. CASE ~limit /\ status # "INVALID"
  <2>1. PICK a : a = Consumed
    OBVIOUS
  <2>2. Unjudged(a)
    BY <1>3, <2>1 DEF Judged
  <2>3. ~Meaning!Rejected(msg, fed)
    <3>1. \A c \in 1 .. Len(Fields[msg]) : \A b \in Meaning!RejectBytes(msg, c) : fed < b /\ b \in Nat
      BY <1>1, <2>2, RejectPlace DEF Unjudged
    <3> QED BY <1>1, <3>1, RejectedIff
  <2>4. /\ {Delivered[i] : i \in 1 .. Len(events)} =
             {c \in Meaning!Index(msg) : Meaning!Heard(msg, c) /\ Meaning!LastByte(msg, c) <= fed}
        /\ \A i, j \in 1 .. Len(events) : i < j => Delivered[i] < Delivered[j]
        /\ status = "COMPLETE" <=>
             fed = 0 \/ \E c \in Meaning!Index(msg) :
                          Meaning!LastByte(msg, c) = fed /\ Meaning!OpenAfter(msg, c) = 0
    BY <1>3, ListeningHears DEF HeardAsSent
  <2>5. Meaning!HeardBy(msg, fed) =
          {c \in Meaning!Index(msg) : Meaning!Heard(msg, c) /\ Meaning!LastByte(msg, c) <= fed}
    BY <1>1, <2>3, BeforeOffender DEF Meaning!HeardBy, Meaning!Index
  <2>6. Len(Delivered) = Len(events)
    BY LenProperties DEF Delivered, IInv, Framed, FrameTyped
  <2>7. Meaning!Listing(Delivered, Meaning!HeardBy(msg, fed))
    BY <2>4, <2>5, <2>6 DEF Meaning!Listing
  <2>8. Verdict = IF status = "COMPLETE" THEN "COMPLETE" ELSE "INCOMPLETE"
    BY <1>3 DEF Verdict, IInv, Framed, OutcomeTyped
  <2> QED BY <2>3, <2>4, <2>7, <2>8 DEF Meaning!Outcome
<1> QED BY <1>2, <1>3

(* Chunk invariance: however the caller cuts a message into chunks, when   *)
(* feed returns the handler has heard exactly what the bytes fed so far    *)
(* hold for it, in order, and the decoder's answer, a verdict included, is *)
(* the one those bytes call for.                                           *)
THEOREM ChunksDoNotMatter == Spec => []ChunkInvariance
<1>1. Spec => [](IInv /\ Located /\ Listening /\ Judged)
  <2>1. Init => IInv /\ Located /\ Listening /\ Judged
    BY InitIInv, InitLocated, InitFollows, InitJudged
  <2>2. IInv /\ Located /\ Listening /\ Judged /\ [Next]_vars
          => (IInv /\ Located /\ Listening /\ Judged)'
    BY NextIInv, NextLocated, NextFollows, NextJudged
  <2> QED BY <2>1, <2>2, PTL DEF Spec
<1> QED BY <1>1, JudgedTells, PTL

-----------------------------------------------------------------------------
(* DecodePromise, implemented.  Its reading of the message is this one.    *)

LEMMA SameCountPromise == \A S : Promise!Cardinality(S) = Cardinality(S)
  BY SMT DEF Promise!Cardinality, Cardinality

LEMMA SameMeaning ==
  ASSUME NEW m, NEW n
  PROVE  /\ Promise!HeardBy(m, n) = Meaning!HeardBy(m, n)
         /\ Promise!Rejected(m, n) <=> Meaning!Rejected(m, n)
         /\ Promise!Verdict(m) = Meaning!Verdict(m)
         /\ \A s : \A S : Promise!Listing(s, S) <=> Meaning!Listing(s, S)
<1>1. \A c : Promise!Of(m, c) = Meaning!Of(m, c)
  BY DEF Promise!Of, Meaning!Of
<1>2. \A c : \A k : Promise!OfItem(m, c, k) = Meaning!OfItem(m, c, k)
  BY <1>1 DEF Promise!OfItem, Meaning!OfItem
<1>3. \A S : Promise!Highest(S) = Meaning!Highest(S) /\ Promise!Lowest(S) = Meaning!Lowest(S)
  BY DEF Promise!Highest, Meaning!Highest, Promise!Lowest, Meaning!Lowest
<1>4. \A c : /\ Promise!LastByte(m, c) = Meaning!LastByte(m, c)
             /\ Promise!LastHeaderByte(m, c) = Meaning!LastHeaderByte(m, c)
  BY <1>1, <1>2, <1>3 DEF Promise!LastByte, Meaning!LastByte, Promise!LastHeaderByte,
                          Meaning!LastHeaderByte
<1>5. \A c : Promise!OpenAfter(m, c) = Meaning!OpenAfter(m, c)
  BY SameCount, SameCountPromise DEF Promise!OpenAfter, Meaning!OpenAfter
<1>6. \A c : Promise!Skipped(m, c) <=> Meaning!Skipped(m, c)
  BY <1>5 DEF Promise!Skipped, Meaning!Skipped
<1>7. \A c : /\ Promise!Heard(m, c) <=> Meaning!Heard(m, c)
             /\ Promise!IsValue(m, c) <=> Meaning!IsValue(m, c)
             /\ Promise!BadHeader(m, c) <=> Meaning!BadHeader(m, c)
  BY <1>5, <1>6 DEF Promise!Heard, Meaning!Heard, Promise!IsValue, Meaning!IsValue,
                    Promise!BadHeader, Meaning!BadHeader
<1>8. \A c : /\ Promise!OverlongBytes(m, c) = Meaning!OverlongBytes(m, c)
             /\ Promise!ContraryBytes(m, c) = Meaning!ContraryBytes(m, c)
  BY <1>1, <1>2, <1>7, SameCount, SameCountPromise
     DEF Promise!OverlongBytes, Meaning!OverlongBytes, Promise!ContraryBytes, Meaning!ContraryBytes
<1>9. \A c : Promise!RejectBytes(m, c) = Meaning!RejectBytes(m, c)
  BY <1>4, <1>7, <1>8 DEF Promise!RejectBytes, Meaning!RejectBytes
<1>10. Promise!Index(m) = Meaning!Index(m)
  BY DEF Promise!Index, Meaning!Index
<1>11. Promise!Offender(m) = Meaning!Offender(m)
  BY <1>3, <1>9, <1>10 DEF Promise!Offender, Meaning!Offender
<1>12. Promise!HeardBy(m, n) = Meaning!HeardBy(m, n)
  BY <1>4, <1>7, <1>10, <1>11 DEF Promise!HeardBy, Meaning!HeardBy
<1>13. Promise!Rejected(m, n) <=> Meaning!Rejected(m, n)
  BY <1>3, <1>9, <1>11 DEF Promise!Rejected, Meaning!Rejected
<1>14. Promise!Verdict(m) = Meaning!Verdict(m)
  BY <1>7, <1>11 DEF Promise!Verdict, Meaning!Verdict
<1>15. \A s : \A S : Promise!Listing(s, S) <=> Meaning!Listing(s, S)
  BY DEF Promise!Listing, Meaning!Listing
<1> QED BY <1>12, <1>13, <1>14, <1>15

(* What the promise sees of the verdict.                                   *)
Decided == IF limit THEN "LIMIT" ELSE IF status = "INVALID" THEN "INVALID" ELSE "open"

(* The whole inductive invariant.                                          *)
Sound == IInv /\ Located /\ Listening /\ Judged

LEMMA InitSound == Init => Sound
  BY InitIInv, InitLocated, InitFollows, InitJudged DEF Sound

LEMMA NextSound == Sound /\ [Next]_vars => Sound'
  BY NextIInv, NextLocated, NextFollows, NextJudged DEF Sound

LEMMA InitPromised == Init => Promise!Init
  BY DEF Init, Promise!Init, Delivered

(* Bytes arrive.                                                           *)
LEMMA FeedPromised ==
  ASSUME IInv, Feed
  PROVE  Promise!Supply \/ UNCHANGED <<msg, fed, Delivered, Decided>>
<1>1. PICK n \in 0 .. MaxChunk : FeedAdopt(n) \/ FeedAppend(n) \/ FeedRefuse(n)
  BY DEF Feed
<1>2. MaxChunk \in Nat /\ fed \in Nat /\ Len(wire) \in Nat
  BY BoundsAssumption, Window
<1>3. CASE FeedAdopt(n) \/ FeedAppend(n)
  <2>1. /\ ~limit /\ status # "INVALID" /\ fed' = fed + n /\ fed + n <= Len(wire)
        /\ UNCHANGED <<msg, events, status, limit>>
    BY <1>3 DEF FeedAdopt, FeedAppend, Feedable, Enter
  <2>2. fed' \in fed .. Len(Bytes[msg])
    BY <1>2, <2>1 DEF wire
  <2>3. Delivered' = Delivered
    BY <2>1 DEF Delivered
  <2> QED BY <2>1, <2>2, <2>3 DEF Promise!Supply
<1>4. CASE FeedRefuse(n)
  <2>1. UNCHANGED <<msg, fed, events, status, limit>>
    BY <1>4 DEF FeedRefuse
  <2> QED BY <2>1 DEF Delivered, Decided
<1> QED BY <1>1, <1>3, <1>4

LEMMA ResetPromised ==
  ASSUME Reset, IInv'
  PROVE  Promise!NewMessage
<1>1. /\ msg' \in Messages /\ fed' = 0 /\ events' = <<>> /\ status' = "COMPLETE" /\ limit' = FALSE
  BY DEF Reset, IInv, Framed, FrameTyped
<1> QED BY <1>1 DEF Promise!NewMessage, Delivered

(* A verdict is given when the message earns it, after everything before.  *)
LEMMA RejectPromised ==
  ASSUME Sound, Judged', ~lost, pc # "idle", NEW v \in {"LIMIT", "INVALID"}, Reject(v)
  PROVE  Promise!Decide
<1>1. /\ ~limit /\ status # "INVALID"
      /\ UNCHANGED <<msg, fed, events, lost>>
      /\ (limit \/ status = "INVALID")'
      /\ Verdict' = IF limit' THEN "LIMIT" ELSE "INVALID"
  BY DEF Sound, Reject, IInv, Framed, Resumed, Located, Verdict
<1>2. Sentenced'
  BY <1>1 DEF Judged
<1>3. Delivered' = Delivered
  BY <1>1 DEF Delivered
<1>4. /\ Meaning!Rejected(msg, fed) /\ Verdict' = Meaning!Verdict(msg)
      /\ Meaning!Listing(Delivered, Meaning!HeardBy(msg, fed))
  BY <1>1, <1>2, <1>3 DEF Sentenced
<1> QED BY <1>1, <1>3, <1>4, SameMeaning DEF Promise!Decide

(* A hook call is a delivery: of the construct that ends in the byte the   *)
(* decoder has got to, when all the handler was to hear before it has been *)
(* delivered.                                                              *)
LEMMA HookPromised ==
  ASSUME Sound, Sound', ~lost, ~lost', pc # "idle", UNCHANGED <<msg, fed>>,
         NEW e \in Event, events' = Append(events, e),
         NEW a, Consumed' = a, Final(ConstructOf(msg, e.c), a), a <= fed,
         Awaited' = {}, ~Parked', ~limit', status' # "INVALID"
  PROVE  Promise!Deliver
<1>1. /\ ~limit /\ status # "INVALID" /\ msg \in Messages /\ events \in Seq(Event) /\ fed \in Nat
  BY Window DEF Sound, IInv, Framed, FrameTyped, Resumed, Located
<1> DEFINE c == e.c
<1>2. /\ c \in 1 .. Len(Fields[msg]) /\ a \in 1 .. Len(wire) /\ wire[a].c = c
      /\ Boundary(a) /\ a \in Nat /\ c \in Nat /\ Begun(msg, a) = c /\ Len(Fields[msg]) \in Nat
  <2>1. c \in 1 .. Len(Fields[msg]) /\ a \in 1 .. Len(wire) /\ wire[a].c = c /\ Boundary(a)
    BY <1>1, ConstructsEnd, EndIsBoundary
  <2>2. Len(wire) \in Nat /\ Len(Fields[msg]) \in Nat
    BY <1>1, WireTyped
  <2>3. a # 0
    BY <2>1
  <2> QED BY <2>1, <2>2, <2>3 DEF Begun, wire
<1>3. Told(msg, c, {}, events')
  <2>1. \A x \in {a} : Follows(x)'
    BY DEF Sound, Listening
  <2> QED BY <1>2, <2>1 DEF Follows
<1>4. ~Meaning!Rejected(msg, a)
  <2>1. \A x \in {a} : Unjudged(x)'
    BY DEF Sound, Judged
  <2>2. \A d \in 1 .. Len(Fields[msg]) : \A b \in Meaning!RejectBytes(msg, d) : ~(b <= a)
    BY <2>1 DEF Unjudged
  <2> QED BY <1>1, <1>2, <2>2, RejectedIff
<1>5. \A d \in 1 .. Len(Fields[msg]) :
        /\ Meaning!LastByte(msg, d) \in Nat
        /\ Meaning!LastByte(msg, d) <= a <=> d <= c
        /\ d <= c /\ Meaning!Offender(msg) # 0 => d < Meaning!Offender(msg)
  <2>1. TAKE d \in 1 .. Len(Fields[msg])
  <2>2. PICK f \in 1 .. Len(wire) : Final(ConstructOf(msg, d), f) /\ Meaning!LastByte(msg, d) = f
    BY <1>1, ConstructsEnd
  <2>3. f <= a <=> d <= c
    BY <1>1, <1>2, <2>2, EndedBy
  <2> QED BY <1>1, <1>2, <1>4, <2>2, <2>3, BeforeOffender
<1>6. Meaning!Heard(msg, c)
  <2>1. PICK t : t = events'
    OBVIOUS
  <2>2. Named(t) = Named(events) \cup {e.c}
    BY <1>1, <2>1, NamedAppend
  <2> QED BY <1>3, <2>1, <2>2 DEF Told
<1>7. c \in Meaning!HeardBy(msg, fed)
  BY <1>1, <1>2, <1>5, <1>6 DEF Meaning!HeardBy, Meaning!Index
<1>8. {d \in Meaning!HeardBy(msg, fed) : d <= c} = {d \in 1 .. c : Meaning!Heard(msg, d)}
  BY <1>1, <1>2, <1>5 DEF Meaning!HeardBy, Meaning!Index
<1>9. /\ Delivered' = Append(Delivered, c)
      /\ Delivered' = [i \in 1 .. Len(events') |-> events'[i].c] /\ Len(Delivered') = Len(events')
  <2>1. /\ Len(events) \in Nat /\ events' \in Seq(Event) /\ Len(events') = Len(events) + 1
        /\ \A i \in 1 .. Len(events) : events'[i] = events[i] /\ events[i] \in Event
        /\ events'[Len(events) + 1] = e
    BY <1>1, AppendProperties, LenProperties, ElementOfSeq
  <2>2. Delivered = [i \in 1 .. Len(events) |-> events[i].c]
    BY DEF Delivered
  <2>3. Delivered' = [i \in 1 .. Len(events') |-> events'[i].c]
    BY DEF Delivered
  <2>4. Delivered \in Seq(Nat) /\ Len(Delivered) = Len(events)
    BY <2>1, <2>2 DEF Event
  <2>5. Delivered' \in Seq(Nat) /\ Len(Delivered') = Len(events) + 1
    <3>1. \A i \in 1 .. Len(events') : events'[i].c \in Nat
      BY <2>1, ElementOfSeq DEF Event
    <3> QED BY <2>1, <2>3, <3>1
  <2>6. /\ Append(Delivered, c) \in Seq(Nat) /\ Len(Append(Delivered, c)) = Len(events) + 1
        /\ \A i \in 1 .. Len(events) : Append(Delivered, c)[i] = Delivered[i]
        /\ Append(Delivered, c)[Len(events) + 1] = c
    BY <1>2, <2>4, AppendProperties
  <2>7. \A i \in 1 .. Len(events) + 1 : Delivered'[i] = Append(Delivered, c)[i]
    BY <2>1, <2>2, <2>3, <2>6
  <2> QED BY <2>1, <2>3, <2>5, <2>6, <2>7, SeqEqual
<1>10. Meaning!Listing(Delivered', {d \in Meaning!HeardBy(msg, fed) : d <= c})
  BY <1>3, <1>8, <1>9 DEF Told, Named, Meaning!Listing
<1> HIDE DEF c
<1>11. /\ c \in Promise!HeardBy(msg, fed) /\ Delivered' = Append(Delivered, c)
       /\ Promise!Listing(Delivered', {d \in Promise!HeardBy(msg, fed) : d <= c})
  BY <1>7, <1>9, <1>10, SameMeaning
<1> QED BY <1>1, <1>11 DEF Promise!Deliver

LEMMA FramePromised ==
  ASSUME Sound, Sound', ~lost, ~lost', SequenceStart \/ SequenceEnd
  PROVE  Promise!Deliver \/ UNCHANGED <<msg, fed, Delivered, Decided>>
<1>1. PICK q \in pos + 1 .. Len(view), c \in 1 .. Len(Fields[msg]), what \in {"open", "close"} :
        /\ Header(q, c, {"start"}) \/ Header(q, c, {"end"})
        /\ Heard(c, what, <<>>) \/ UNCHANGED events
  BY DEF SequenceStart, SequenceEnd
<1>2. /\ pc # "idle" /\ pending.tag = "none" /\ Advance(q) /\ pc' \in {"walk", "skip"}
      /\ pending' = pending /\ q \in pos .. Len(view) /\ UNCHANGED <<msg, fed, status, limit>>
  <2>1. /\ pc \in {"walk", "skip"} /\ pending.tag = "none" /\ Advance(q)
    BY <1>1 DEF Header, AtHeader, Walking
  <2>2. pc' \in {"walk", "skip"} /\ pending' = pending
    BY <2>1 DEF SequenceStart, SequenceEnd
  <2>3. q \in pos .. Len(view)
    BY <1>1, Window DEF Sound
  <2>4. UNCHANGED <<msg, fed, status, limit>>
    BY <2>1 DEF Advance, outcome
  <2> QED BY <2>1, <2>2, <2>3, <2>4
<1>3. CASE UNCHANGED events
  BY <1>2, <1>3 DEF Delivered, Decided
<1>4. CASE Heard(c, what, <<>>)
  <2>1. Final(ConstructOf(msg, c), Base + q)
    BY <1>1, HeaderTaken DEF Values, Sound
  <2>2. PICK e : e = [c |-> c, what |-> what, bytes |-> <<>>]
    OBVIOUS
  <2>3. e \in Event /\ e.c = c /\ events' = Append(events, e)
    BY <1>4, <2>2, WireTyped, Window DEF Heard, Event, Sound
  <2>4. Awaited' = {} /\ ~Parked' /\ pc' # "idle"
    BY <1>2 DEF Awaited, Parked
  <2>5. PICK a : a = Base + q
    OBVIOUS
  <2>6. Consumed' = a /\ a <= fed /\ ~limit' /\ status' # "INVALID"
    BY <1>2, <2>4, <2>5, Window DEF Consumed, Base, Advance, Sound, IInv, Framed, Resumed, Located
  <2> QED BY <1>2, <2>1, <2>3, <2>4, <2>5, <2>6, HookPromised
<1> QED BY <1>1, <1>3, <1>4

LEMMA TakePromised ==
  ASSUME Sound, Sound', ~lost, ~lost', TakeValue
  PROVE  Promise!Deliver
<1>1. PICK q \in pos .. Len(view) :
        /\ ValueEnd(q)
        /\ Heard(pending.c, "value", SubSeq(view, pos + 1, q))
        /\ \/ Advance(q) /\ pc' = "walk"
           \/ /\ Retain(q, "RAISED") /\ pc' = "idle"
              /\ UNCHANGED <<msg, fed, status, limit>>
  BY DEF TakeValue, Retain
<1>2. /\ pc # "idle" /\ pending.tag \in Values /\ pending'.tag = "none" /\ pending.c \in Nat
      /\ UNCHANGED <<msg, fed, status, limit>>
      /\ pc' # "value" /\ status # "INVALID" /\ ~limit
  BY <1>1 DEF TakeValue, Reading, NoPending, Advance, outcome, Sound, IInv, Framed, FrameTyped,
              Pending, SkipLevel, Resumed, Located
<1>3. Final(ConstructOf(msg, pending.c), Base + q)
  BY <1>1, <1>2, ValueSeen DEF Sound
<1>4. PICK e : e = [c |-> pending.c, what |-> "value", bytes |-> SubSeq(view, pos + 1, q)]
  OBVIOUS
<1>5. e \in Event /\ e.c = pending.c /\ events' = Append(events, e)
  <2>1. /\ view \in Seq(Nat) /\ pos \in Nat /\ q \in Int /\ Len(view) \in Nat /\ q <= Len(view)
    BY Window DEF Sound
  <2>2. \A i \in pos + 1 .. q : view[i] \in Nat
    BY <2>1, ElementOfSeq
  <2>3. SubSeq(view, pos + 1, q) \in Seq(Nat)
    BY <2>1, <2>2, SubSeqProperties
  <2> QED BY <1>1, <1>2, <1>4, <2>3 DEF Event, Heard
<1>6. Awaited' = {} /\ ~Parked'
  BY <1>2 DEF Awaited, Parked
<1>7. PICK a : a = Base + q
  OBVIOUS
<1>8. Consumed' = a /\ a <= fed
  <2>1. CASE Advance(q) /\ pc' = "walk"
    BY <1>7, <2>1, Window DEF Consumed, Base, Advance, Sound
  <2>2. CASE Retain(q, "RAISED")
    <3>1. Consumed' = Base + q
      BY <1>2, <2>2, RetainKeepsPlace DEF Sound
    <3> QED BY <1>7, <3>1, Window DEF Sound
  <2> QED BY <1>1, <2>1, <2>2
<1> QED BY <1>2, <1>3, <1>5, <1>6, <1>7, <1>8, HookPromised

(* The steps the handler does not see.                                     *)
LEMMA SilentPromised ==
  ASSUME Sound, Sound', ~lost, Walk
  PROVE  \/ SequenceStart \/ SequenceEnd \/ TakeValue
         \/ \E v \in {"LIMIT", "INVALID"} : Reject(v)
         \/ UNCHANGED <<msg, fed, Delivered, Decided>>
<1>1. pc # "idle" => ~limit /\ status # "INVALID"
  BY DEF Sound, IInv, Framed, Resumed, Located
<1>2. ASSUME pc # "idle", UNCHANGED <<msg, fed, events, limit>>, status' # "INVALID"
      PROVE  UNCHANGED <<msg, fed, Delivered, Decided>>
  BY <1>1, <1>2 DEF Delivered, Decided
<1>3. CASE StillShort \/ ValueShort \/ CleanEnd \/ HeaderShort
  <2>1. pc # "idle" /\ UNCHANGED <<msg, fed, events, limit>> /\ status' # "INVALID"
    BY <1>3 DEF StillShort, ValueShort, CleanEnd, HeaderShort, AtHeader, Walking, Reading, Suspend,
                RunOut
  <2> QED BY <1>2, <2>1
<1>4. CASE ValueHeader
  <2>1. pc # "idle" /\ UNCHANGED <<msg, fed, events, limit, status>>
    BY <1>4 DEF ValueHeader, Header, AtHeader, Walking, Advance, outcome
  <2> QED BY <1>1, <1>2, <2>1
<1>5. CASE SkipScalar \/ Discard \/ DrainBytes \/ DrainVarints
  <2>1. \/ Reject("INVALID")
        \/ /\ pc # "idle" /\ UNCHANGED <<msg, fed, events, limit>>
           /\ status' = status \/ status' = "INCOMPLETE"
    BY <1>5 DEF SkipScalar, Discard, DrainBytes, DrainVarints, Walking, Suspend, RunOut, Advance,
                outcome
  <2> QED BY <1>1, <1>2, <2>1
<1>6. CASE HeaderInvalid \/ OverCap \/ ValueInvalid
  BY <1>6 DEF HeaderInvalid, OverCap, ValueInvalid
<1> QED BY <1>3, <1>4, <1>5, <1>6 DEF Walk

LEMMA NextPromised ==
  Sound /\ Sound' /\ ~lost /\ ~lost' /\ [Next]_vars => [Promise!Next]_(Promise!vars)
<1> SUFFICES ASSUME Sound, Sound', ~lost, ~lost', [Next]_vars
             PROVE  \/ Promise!Supply \/ Promise!Deliver \/ Promise!Decide \/ Promise!NewMessage
                    \/ UNCHANGED <<msg, fed, Delivered, Decided>>
  BY DEF Promise!Next, Promise!vars, Decided
<1>1. CASE UNCHANGED vars
  BY <1>1 DEF vars, outcome, Delivered, Decided
<1>2. CASE Walk
  <2>1. pc # "idle"
    BY <1>2 DEF Walk, StillShort, SkipScalar, Discard, DrainBytes, DrainVarints, CleanEnd,
                HeaderShort, HeaderInvalid, SequenceStart, SequenceEnd, ValueHeader, OverCap,
                ValueInvalid, TakeValue, ValueShort, Header, AtHeader, Walking, Reading
  <2>2. ASSUME NEW v \in {"LIMIT", "INVALID"}, Reject(v) PROVE Promise!Decide
    BY <2>1, <2>2, RejectPromised DEF Sound
  <2> QED BY <1>2, <2>2, SilentPromised, FramePromised, TakePromised
<1> QED BY <1>1, <1>2, FeedPromised, ResetPromised DEF Next, Sound

(* What was lost of a message stays lost until the decoder is reset.       *)
LEMMA LossStays ==
  ASSUME lost, Next
  PROVE  lost' \/ Reset
<1>1. CASE Feed
  BY <1>1 DEF Feed, FeedAdopt, FeedAppend, FeedRefuse, Enter, outcome
<1>2. ASSUME NEW p, NEW r, Retain(p, r)
      PROVE  lost'
  BY <1>2 DEF Retain
<1>3. ASSUME NEW v, Reject(v)
      PROVE  lost'
  BY <1>3 DEF Reject
<1>4. CASE StillShort \/ ValueShort \/ CleanEnd \/ HeaderShort
  BY <1>2, <1>4 DEF StillShort, ValueShort, CleanEnd, HeaderShort, Suspend, RunOut
<1>5. CASE SkipScalar \/ Discard \/ DrainBytes \/ DrainVarints
  BY <1>2, <1>3, <1>5 DEF SkipScalar, Discard, DrainBytes, DrainVarints, Suspend, RunOut, Advance
<1>6. CASE HeaderInvalid \/ OverCap \/ ValueInvalid
  BY <1>3, <1>6 DEF HeaderInvalid, OverCap, ValueInvalid
<1>7. CASE SequenceStart \/ SequenceEnd \/ ValueHeader \/ TakeValue
  BY <1>2, <1>7 DEF SequenceStart, SequenceEnd, ValueHeader, TakeValue, Header, Advance
<1> QED BY <1>1, <1>4, <1>5, <1>6, <1>7 DEF Next, Walk

(* Push-feed decoding keeps its promise, for every message, cutting and    *)
(* reassembly buffer, with every step in which no carry was refused.       *)
THEOREM PromiseKept == Spec => KeepsPromise
<1>1. Spec => []Sound
  BY InitSound, NextSound, PTL DEF Spec
<1>2. Sound /\ Sound' /\ [Next]_vars => [Promise!Next \/ lost']_(Promise!vars)
  <2> SUFFICES ASSUME Sound, Sound', [Next]_vars, ~lost'
               PROVE  [Promise!Next]_(Promise!vars)
    OBVIOUS
  <2>1. CASE ~lost
    BY <2>1, NextPromised
  <2>2. CASE lost
    <3>1. Reset
      BY <2>2, LossStays DEF vars
    <3>2. Promise!NewMessage
      BY <3>1, ResetPromised DEF Sound
    <3> QED BY <3>2 DEF Promise!Next
  <2> QED BY <2>1, <2>2
<1> QED BY <1>1, <1>2, InitPromised, PTL DEF Spec, KeepsPromise

-----------------------------------------------------------------------------
(* When no carry is refused.                                               *)

(* What the code asks of the buffer's size: it holds the largest header    *)
(* and the largest value this receiver reads (a skipped scalar is read     *)
(* too), and no hook breaks a feed off.                                    *)
Roomy ==
  \A m \in Messages : \A c \in 1 .. Len(Fields[m]) :
    /\ Cardinality(HeaderOf(m, c)) <= Reassembly
    /\ Fields[m][c].kind = "scalar" \/ Meaning!Heard(m, c) =>
         Cardinality(ValueOf(m, c)) <= Reassembly
    /\ Meaning!Heard(m, c) => ~Fields[m][c].raises

(* The chunk being read is no longer than the longest there is.            *)
Narrow == pc # "idle" /\ ~inPlace => Len(view) <= MaxChunk

LEMMA CutFits ==
  ASSUME msg \in Messages, NEW a \in Int, NEW b \in Int, a <= b, NEW c, NEW S,
         S \in {HeaderOf(msg, c), ValueOf(msg, c)}, a + 1 .. b \subseteq S
  PROVE  b - a <= Cardinality(S)
<1>1. S \subseteq 1 .. Len(wire) /\ Len(wire) \in Nat
  BY WireTyped DEF HeaderOf, ValueOf, ConstructOf, wire
<1>2. IsFiniteSet(S)
  <2>1. IsFiniteSet(1 .. Len(wire))
    BY <1>1, FS_Interval
  <2> QED BY <1>1, <2>1, FS_Subset
<1>3. Cardinality(a + 1 .. b) <= Cardinality(S)
  BY <1>2, FS_Subset
<1>4. Cardinality(a + 1 .. b) = b - a
  <2>1. Cardinality(a + 1 .. b) = IF a + 1 > b THEN 0 ELSE b - (a + 1) + 1
    BY FS_Interval
  <2> QED BY <2>1
<1> QED BY <1>3, <1>4

LEMMA LossIsRefusal ==
  ASSUME IInv, ~lost, NEW p \in pos .. Len(view), NEW r, Retain(p, r), lost'
  PROVE  ~inPlace /\ Len(view) - p > Reassembly
  BY DEF Retain

(* A carry is a part of a header, or of a value that is read.              *)
LEMMA RoomyCarries ==
  ASSUME Roomy, Sound, ~lost, Walk, lost'
  PROVE  FALSE
<1>1. /\ msg \in Messages /\ Base \in Int /\ pos \in Nat /\ Len(view) \in Nat /\ pos <= Len(view)
      /\ Base + Len(view) = fed /\ fed \in Nat /\ keep = pos /\ Reassembly \in Nat
  BY Window, ReassemblyAssumption DEF Sound
<1>2. ASSUME NEW c \in 1 .. Len(Fields[msg]), NEW r, Retain(pos, r),
             NEW S, S \in {HeaderOf(msg, c), ValueOf(msg, c)}, Cardinality(S) <= Reassembly,
             Base + pos + 1 .. fed \subseteq S
      PROVE  FALSE
  <2>1. PICK a : a = Base + pos
    OBVIOUS
  <2>2. Cardinality(S) \in Nat
    <3>1. S \subseteq 1 .. Len(wire)
      BY <1>2 DEF HeaderOf, ValueOf, ConstructOf, wire
    <3>2. IsFiniteSet(1 .. Len(wire))
      BY <1>1, WireTyped, FS_Interval
    <3>3. IsFiniteSet(S)
      BY <3>1, <3>2, FS_Subset
    <3> QED BY <3>3, FS_CardinalityType
  <2>3. fed - a <= Cardinality(S)
    <3>1. a \in Int /\ fed \in Int /\ a <= fed /\ a + 1 .. fed \subseteq S
      BY <1>1, <1>2, <2>1
    <3> QED BY <1>1, <1>2, <3>1, CutFits
  <2>4. Len(view) - pos > Reassembly
    BY <1>1, <1>2, LossIsRefusal DEF Sound
  <2> QED BY <1>1, <1>2, <2>1, <2>2, <2>3, <2>4
<1>3. CASE CleanEnd \/ HeaderShort
  <2>1. /\ AtHeader /\ \E r : Retain(pos, r)
        /\ pos < Len(view) => Ends(pos) = {}
    BY <1>1, <1>3 DEF CleanEnd, HeaderShort, Suspend, RunOut
  <2>2. pos < Len(view)
    BY <1>1, <2>1, LossIsRefusal DEF Sound
  <2>3. PICK c \in 1 .. Len(Fields[msg]) : Base + pos + 1 .. fed \subseteq HeaderOf(msg, c)
    BY <2>1, <2>2, HeaderCut DEF Sound
  <2>4. Cardinality(HeaderOf(msg, c)) <= Reassembly
    BY <1>1 DEF Roomy
  <2> QED BY <1>2, <2>1, <2>3, <2>4
<1>4. CASE SkipScalar \/ StillShort \/ ValueShort
  <2>1. /\ pc # "idle" /\ pending.tag \in Values /\ \E r : Retain(pos, r)
        /\ IF pending.tag = "payload" THEN Len(view) - pos < pending.bytes
           ELSE \A q \in pos .. Len(view) : ~EndsAt(pos, pending.vars, q)
        /\ pending.tag = "scalar" \/ pc = "value"
    <3>1. CASE SkipScalar
      <4>1. /\ pc # "idle" /\ pending.tag = "scalar" /\ \E r : Retain(pos, r) /\ Ends(pos) = {}
        BY <1>1, <3>1 DEF SkipScalar, Walking, Suspend, RunOut, Reject, Advance
      <4>2. pending.vars = 1
        BY <4>1, ValuePlace DEF Sound, Values
      <4> QED BY <4>1, <4>2 DEF EndsAt, Values
    <3>2. CASE StillShort
      BY <3>2 DEF StillShort, RunOut, Sound, Located, StillAwaited, Values
    <3>3. CASE ValueShort
      <4>1. /\ pc = "value" /\ pending.tag \in Values /\ \E r : Retain(pos, r)
            /\ pending.bytes \in Nat /\ \A q \in pos .. Len(view) : ~ValueEnd(q)
        BY <1>1, <3>3 DEF ValueShort, Reading, Suspend, RunOut, Sound, IInv, Framed, FrameTyped,
                          Pending, SkipLevel
      <4>2. pending.tag = "payload" => Len(view) - pos < pending.bytes
        <5>1. pending.tag = "payload" => pos + pending.bytes \notin pos .. Len(view)
          BY <4>1 DEF ValueEnd
        <5> QED BY <1>1, <4>1, <5>1
      <4> QED BY <4>1, <4>2 DEF ValueEnd
    <3> QED BY <1>4, <3>1, <3>2, <3>3
  <2>2. PICK e \in 1 .. Len(wire) : Final(ConstructOf(msg, pending.c), e) /\ fed < e
    BY <2>1, ValueUnfinished DEF Sound
  <2>3. /\ pending.c \in 1 .. Len(Fields[msg]) /\ pending.tag = field(pending.c).kind
        /\ Final(HeaderOf(msg, pending.c), Base + pos)
    BY <2>1, ValuePlace DEF Sound
  <2>4. Base + pos + 1 .. fed \subseteq ValueOf(msg, pending.c)
    <3>1. PICK a : a = Base + pos
      OBVIOUS
    <3>2. PICK f \in 1 .. Len(wire) :
            Final(ConstructOf(msg, pending.c), f) /\ ValueOf(msg, pending.c) = a + 1 .. f
      BY <1>1, <2>3, <3>1, ValueSpan
    <3>3. f = e
      BY <1>1, <2>2, <3>2, ConstructsEnd
    <3> QED BY <1>1, <2>2, <3>1, <3>2, <3>3
  <2>5. pending.tag = "scalar" \/ Meaning!Heard(msg, pending.c)
    BY <2>1, TakenNow DEF Sound
  <2>6. Cardinality(ValueOf(msg, pending.c)) <= Reassembly
    BY <1>1, <2>3, <2>5 DEF Roomy, field
  <2> QED BY <1>2, <2>1, <2>3, <2>4, <2>6
<1>5. CASE TakeValue
  <2>1. pc = "value" /\ field(pending.c).raises
    BY <1>5 DEF TakeValue, Reading, Advance
  <2>2. pending.c \in 1 .. Len(Fields[msg]) /\ Meaning!Heard(msg, pending.c)
    BY <2>1, TakenNow DEF Sound
  <2> QED BY <1>1, <2>1, <2>2 DEF Roomy, field
<1>6. CASE DrainBytes \/ DrainVarints
  <2>1. \E r : Retain(Len(view), r)
    BY <1>6 DEF DrainBytes, DrainVarints, RunOut, Reject, Advance
  <2> QED BY <1>1, <2>1, LossIsRefusal DEF Sound
<1> QED BY <1>3, <1>4, <1>5, <1>6
        DEF Walk, Discard, HeaderInvalid, SequenceStart, SequenceEnd, ValueHeader, OverCap,
            ValueInvalid, Header, Advance, Reject

LEMMA NextNarrow == IInv /\ Narrow /\ [Next]_vars => Narrow'
<1> SUFFICES ASSUME IInv, Narrow, [Next]_vars PROVE Narrow'
  OBVIOUS
<1>1. ASSUME \/ UNCHANGED <<view, inPlace, pc>>
             \/ pc' = "idle"
             \/ pc # "idle" /\ UNCHANGED <<view, inPlace>>
      PROVE  Narrow'
  BY <1>1 DEF Narrow
<1>2. CASE UNCHANGED vars
  BY <1>1, <1>2 DEF vars, window
<1>3. CASE Walk
  <2>1. pc # "idle" /\ (pc' = "idle" \/ UNCHANGED <<view, inPlace>>)
    BY <1>3 DEF Walk, StillShort, SkipScalar, Discard, DrainBytes, DrainVarints, CleanEnd,
                HeaderShort, HeaderInvalid, SequenceStart, SequenceEnd, ValueHeader, OverCap,
                ValueInvalid, TakeValue, ValueShort, Header, AtHeader, Walking, Reading,
                Suspend, RunOut, Retain, Reject, Advance, window
  <2> QED BY <1>1, <2>1
<1>4. CASE Reset
  BY <1>1, <1>4 DEF Reset, window
<1>5. ASSUME NEW n \in 0 .. MaxChunk, FeedAdopt(n) PROVE Narrow'
  <2>1. view' = Chunk(n) /\ n \in Nat /\ n <= MaxChunk
    BY <1>5, BoundsAssumption DEF FeedAdopt, Enter
  <2>2. Len(Chunk(n)) = n
    BY <2>1 DEF Chunk
  <2> QED BY <2>1, <2>2 DEF Narrow
<1>6. ASSUME NEW n \in 0 .. MaxChunk, FeedAppend(n) PROVE Narrow'
  BY <1>6 DEF FeedAppend, Narrow
<1>7. ASSUME NEW n \in 0 .. MaxChunk, FeedRefuse(n) PROVE Narrow'
  BY <1>1, <1>7 DEF FeedRefuse, window
<1> QED BY <1>2, <1>3, <1>4, <1>5, <1>6, <1>7 DEF Next, Feed

LEMMA NextNothingLost ==
  ASSUME Roomy \/ MaxChunk <= Reassembly
  PROVE  Sound /\ Narrow /\ ~lost /\ [Next]_vars => ~lost'
<1> SUFFICES ASSUME Sound, Narrow, ~lost, [Next]_vars, lost' PROVE FALSE
  OBVIOUS
<1>1. CASE UNCHANGED vars
  BY <1>1 DEF vars
<1>2. CASE Feed \/ Reset
  BY <1>2 DEF Feed, FeedAdopt, FeedAppend, FeedRefuse, Enter, Reset
<1>3. CASE Walk
  <2>1. CASE Roomy
    BY <1>3, <2>1, RoomyCarries
  <2>2. CASE MaxChunk <= Reassembly
    <3>1. /\ pos \in Nat /\ Len(view) \in Nat /\ keep = pos /\ pos <= Len(view)
          /\ Reassembly \in Nat /\ MaxChunk \in Nat
      BY Window, ReassemblyAssumption, BoundsAssumption DEF Sound
    <3>2. pc # "idle" /\ \E p \in pos .. Len(view) : \E r : Retain(p, r)
      <4>1. CASE StillShort \/ ValueShort \/ CleanEnd \/ HeaderShort
        BY <3>1, <4>1 DEF StillShort, ValueShort, CleanEnd, HeaderShort, AtHeader, Walking,
                          Reading, Suspend, RunOut
      <4>2. CASE SkipScalar
        <5>1. pc # "idle" /\ (lost' = lost \/ Retain(keep, "INCOMPLETE"))
          BY <4>2 DEF SkipScalar, Walking, Suspend, RunOut, Reject, Advance
        <5>2. pos \in pos .. Len(view)
          BY <3>1
        <5> QED BY <3>1, <5>1, <5>2
      <4>3. CASE DrainBytes \/ DrainVarints
        <5>1. pc # "idle" /\ (lost' = lost \/ Retain(Len(view), "INCOMPLETE"))
          BY <4>3 DEF DrainBytes, DrainVarints, Walking, RunOut, Reject, Advance
        <5>2. Len(view) \in pos .. Len(view)
          BY <3>1
        <5> QED BY <3>1, <5>1, <5>2
      <4>4. CASE TakeValue
        BY <4>4 DEF TakeValue, Reading, Advance
      <4> QED BY <1>3, <4>1, <4>2, <4>3, <4>4
              DEF Walk, Discard, HeaderInvalid, SequenceStart, SequenceEnd, ValueHeader, OverCap,
                  ValueInvalid, Header, Advance, Reject
    <3> QED BY <2>2, <3>1, <3>2, LossIsRefusal DEF Narrow, Sound
  <2> QED BY <2>1, <2>2
<1> QED BY <1>1, <1>2, <1>3 DEF Next

(* A buffer that holds the largest header and the largest value this       *)
(* receiver reads, or the longest chunk, loses nothing of any message.     *)
THEOREM NothingLost ==
  ASSUME Roomy \/ MaxChunk <= Reassembly
  PROVE  Spec => []~lost
<1>1. Init => Sound /\ Narrow /\ ~lost
  BY InitSound DEF Init, Narrow
<1>2. Sound /\ Narrow /\ ~lost /\ [Next]_vars => (Sound /\ Narrow /\ ~lost)'
  BY NextSound, NextNarrow, NextNothingLost DEF Sound
<1> QED BY <1>1, <1>2, PTL DEF Spec

(* With such a buffer every step is one of the promise's: the decoder      *)
(* implements DecodePromise.                                               *)
COROLLARY PromiseKeptInRoom ==
  ASSUME Roomy \/ MaxChunk <= Reassembly
  PROVE  Spec => Promise!Spec
<1>1. Spec => []~lost
  BY NothingLost
<1>2. ~lost' /\ [Promise!Next \/ lost']_(Promise!vars) => [Promise!Next]_(Promise!vars)
  OBVIOUS
<1> QED BY <1>1, <1>2, PromiseKept, PTL DEF KeepsPromise, Promise!Spec
=============================================================================
