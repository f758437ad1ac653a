------------------------ MODULE OutputBuffer_proofs ------------------------
(***************************************************************************)
(* Proofs about the output buffer: the stream is intact for any buffers,   *)
(* any offsets, any sink and any writes.                                   *)
(*                                                                         *)
(* The invariant adds to StreamIntact what its proof needs at each pc: the *)
(* locals of _put and of the array loop name the installed buffer, a kept  *)
(* slice lies over it, and a buffer a sink has taken is not it, except     *)
(* between the taking and the installation that follows.                   *)
(***************************************************************************)
EXTENDS OutputBuffer, TLAPS, SequenceTheorems

(* The units us are sound and follow one another when memory holds m.      *)
Sound(u, m) ==
  /\ u.lo <= u.hi
  /\ \A i \in 1 .. u.hi - u.lo :
       (IF u.buf = 0 THEN u.data[i] ELSE m[u.buf][u.room + i]) = u.lo + i

HiOf(us) == IF us = <<>> THEN 0 ELSE us[Len(us)].hi

Chain(us, m) ==
  \A i \in 1 .. Len(us) :
    Sound(us[i], m) /\ us[i].lo = IF i = 1 THEN 0 ELSE us[i - 1].hi

(* What has been dealt with by the sink no longer stands.                  *)
Dealt == pc = "sink" /\ handed.dealt /\ ~handed.swapped

Stands ==
  /\ room <= Cursor /\ Cursor <= Sizes[fixed]
  /\ Dealt => Drained = written
  /\ ~Dealt => /\ Drained + (Cursor - room) = written
               /\ \A i \in 1 .. Cursor - room : mem[fixed][room + i] = Drained + i

(* A taken unit lies within its buffer.                                    *)
Within ==
  \A i \in 1 .. Len(units) :
    units[i].buf # 0 =>
      /\ units[i].buf \in Buffers
      /\ units[i].room + (units[i].hi - units[i].lo) <= Sizes[units[i].buf]

LetGo == fixed \in Held => Dealt

Locals ==
  /\ flushView \in {0, fixed}
  /\ pc = "put" => put.mv = fixed
  /\ pc = "array" => loop.buf = fixed
  /\ pc = "sink" /\ ~handed.swapped => handed.buf = fixed /\ handed.n = cursor
  /\ pc = "sink" => mode = "sink" /\ (handed.swapped => handed.dealt)
  /\ overflowed => mode = "none" /\ Cursor = Sizes[fixed]

(* What the buffers and the units hold ...                                 *)
Kept == Chain(units, mem) /\ Within /\ LetGo /\ Stands /\ HeaderRoomKept

(* ... and everything the proof carries along.                             *)
IInv == TypeOK /\ Kept /\ Locals

-----------------------------------------------------------------------------
(* Sequences of units.                                                     *)

(* The invariant says what the property says.                              *)
LEMMA ChainIsStream ==
  ASSUME IInv PROVE StreamIntact
<1>1. \A i \in 1 .. Len(units) :
        UnitIntact(units[i]) /\ units[i].lo = IF i = 1 THEN 0 ELSE units[i - 1].hi
  BY DEF IInv, Kept, Chain, Sound, UnitIntact
<1>2. (pc = "sink" /\ handed.dealt /\ ~handed.swapped) <=> Dealt
  BY DEF Dealt
<1> QED BY <1>1, <1>2 DEF IInv, Kept, Stands, StreamIntact

(* A sound unit that takes up where the last one ended extends the chain.  *)
LEMMA AppendChain ==
  ASSUME NEW us \in Seq(Unit), NEW m, Chain(us, m),
         NEW u \in Unit, Sound(u, m), u.lo = HiOf(us)
  PROVE  /\ Append(us, u) \in Seq(Unit)
         /\ Chain(Append(us, u), m)
         /\ HiOf(Append(us, u)) = u.hi
<1> DEFINE vs == Append(us, u)
<1>1. /\ vs \in Seq(Unit) /\ Len(vs) = Len(us) + 1 /\ vs[Len(us) + 1] = u
      /\ \A i \in 1 .. Len(us) : vs[i] = us[i]
  OBVIOUS
<1>2. Len(us) \in Nat
  OBVIOUS
<1>3. ASSUME NEW i \in 1 .. Len(vs)
      PROVE  Sound(vs[i], m) /\ vs[i].lo = IF i = 1 THEN 0 ELSE vs[i - 1].hi
  <2>1. CASE i <= Len(us)
    <3>1. i \in 1 .. Len(us) /\ (i # 1 => i - 1 \in 1 .. Len(us))
      BY <1>1, <1>2, <2>1
    <3> QED BY <1>1, <3>1 DEF Chain
  <2>2. CASE i = Len(us) + 1
    <3>1. CASE us = <<>>
      <4>1. Len(us) = 0
        BY <3>1
      <4> QED BY <1>1, <2>2, <3>1, <4>1 DEF HiOf
    <3>2. CASE us # <<>>
      <4>1. Len(us) \in 1 .. Len(us) /\ i - 1 = Len(us) /\ i # 1
        BY <1>2, <2>2, <3>2, EmptySeq
      <4>2. vs[i - 1] = us[Len(us)]
        BY <1>1, <4>1
      <4> QED BY <1>1, <2>2, <3>2, <4>1, <4>2 DEF HiOf
    <3> QED BY <3>1, <3>2
  <2> QED BY <1>1, <1>2, <2>1, <2>2
<1>4. vs # <<>>
  BY <1>1, <1>2
<1>5. HiOf(vs) = u.hi
  BY <1>1, <1>4 DEF HiOf
<1>6. Chain(vs, m)
  BY <1>3 DEF Chain
<1> QED BY <1>1, <1>5, <1>6

(* A chain only reads the buffers its units were taken in.                 *)
LEMMA ChainElsewhere ==
  ASSUME NEW us, NEW m1, NEW m2, Chain(us, m1),
         \A i \in 1 .. Len(us) : us[i].buf # 0 => m2[us[i].buf] = m1[us[i].buf]
  PROVE  Chain(us, m2)
BY DEF Chain, Sound

-----------------------------------------------------------------------------
(* Memory.                                                                 *)

LEMMA SizesNat == ASSUME NEW b \in Buffers PROVE Sizes[b] \in Nat
BY SizesAssumption DEF Buffers

LEMMA CellsTyped ==
  ASSUME TypeOK, NEW b \in Buffers, NEW c \in Nat, NEW n \in Nat, c + n <= Sizes[b]
  PROVE  /\ Cells(b, c, n) \in Seq(Nat) /\ Len(Cells(b, c, n)) = n
         /\ \A i \in 1 .. n : Cells(b, c, n)[i] = mem[b][c + i]
<1>1. mem[b] \in [1 .. Sizes[b] -> Nat] /\ Sizes[b] \in Nat
  BY SizesNat DEF TypeOK
<1>2. \A i \in 1 .. n : c + i \in 1 .. Sizes[b]
  BY <1>1
<1>3. Cells(b, c, n) \in [1 .. n -> Nat]
  BY <1>1, <1>2 DEF Cells
<1>4. Cells(b, c, n) \in Seq(Nat) /\ Len(Cells(b, c, n)) = n
  BY <1>3, SeqDef, LenProperties
<1> QED BY <1>4 DEF Cells

LEMMA DrainedNat == ASSUME TypeOK PROVE Drained \in Nat
<1>1. CASE units = <<>>
  BY <1>1 DEF Drained
<1>2. CASE units # <<>>
  <2>1. units \in Seq(Unit) /\ Len(units) \in 1 .. Len(units)
    BY <1>2, EmptySeq, LenProperties DEF TypeOK
  <2>2. units[Len(units)] \in Unit
    BY <2>1, ElementOfSeq
  <2> QED BY <1>2, <2>2 DEF Drained, Unit
<1> QED BY <1>1, <1>2

(* Filling n cells of a buffer leaves every other cell as it was.          *)
LEMMA FillMem ==
  ASSUME TypeOK, NEW b \in Buffers, NEW c \in Nat, NEW n \in Nat,
         c + n <= Sizes[b], Fill(b, c, n)
  PROVE  /\ DOMAIN mem' = Buffers
         /\ \A d \in Buffers : mem'[d] \in [1 .. Sizes[d] -> Nat]
         /\ \A d \in Buffers : d # b => mem'[d] = mem[d]
         /\ \A i \in 1 .. Sizes[b] : i \notin c + 1 .. c + n => mem'[b][i] = mem[b][i]
         /\ \A i \in c + 1 .. c + n : mem'[b][i] = written + (i - c)
         /\ written' = written + n /\ written' \in Nat
<1>1. DOMAIN mem = Buffers /\ mem[b] \in [1 .. Sizes[b] -> Nat] /\ Sizes[b] \in Nat
      /\ written \in Nat
  BY SizesNat DEF TypeOK
<1> DEFINE g == [i \in DOMAIN mem[b] |->
                   IF i \in c + 1 .. c + n THEN written + (i - c) ELSE mem[b][i]]
<1>2. mem' = [mem EXCEPT ![b] = g]
  BY DEF Fill
<1>3. g \in [1 .. Sizes[b] -> Nat]
  BY <1>1
<1>4. mem'[b] = g /\ DOMAIN mem' = Buffers /\ \A d \in Buffers : d # b => mem'[d] = mem[d]
  BY <1>1, <1>2
<1>5. \A d \in Buffers : mem'[d] \in [1 .. Sizes[d] -> Nat]
  BY <1>3, <1>4 DEF TypeOK
<1>6. \A i \in c + 1 .. c + n : i \in DOMAIN mem[b]
  BY <1>1
<1>7. DOMAIN mem[b] = 1 .. Sizes[b]
  BY <1>1
<1>8. written' = written + n
  BY DEF Fill
<1> QED BY <1>1, <1>4, <1>5, <1>6, <1>7, <1>8

(* buffer_set touches no buffer but the one it installs.                   *)
LEMMA InstallMem ==
  ASSUME TypeOK, NEW b \in Buffers, NEW o \in 0 .. Sizes[b], Install(b, o)
  PROVE  /\ DOMAIN mem' = Buffers
         /\ \A d \in Buffers : mem'[d] \in [1 .. Sizes[d] -> Nat]
         /\ \A d \in Buffers : d # b => mem'[d] = mem[d]
         /\ \A i \in 1 .. o : mem'[b][i] = 0
         /\ fixed' = b /\ cursor' = o /\ room' = o /\ flushView' = 0
<1>1. DOMAIN mem = Buffers /\ mem[b] \in [1 .. Sizes[b] -> Nat] /\ Sizes[b] \in Nat
  BY SizesNat DEF TypeOK
<1> DEFINE g == [i \in DOMAIN mem[b] |-> IF i <= o THEN 0 ELSE mem[b][i]]
<1>2. mem' = [mem EXCEPT ![b] = g]
  BY DEF Install
<1>3. g \in [1 .. Sizes[b] -> Nat]
  BY <1>1
<1>4. mem'[b] = g /\ DOMAIN mem' = Buffers /\ \A d \in Buffers : d # b => mem'[d] = mem[d]
  BY <1>1, <1>2
<1>5. \A d \in Buffers : mem'[d] \in [1 .. Sizes[d] -> Nat]
  BY <1>3, <1>4 DEF TypeOK
<1>6. \A i \in 1 .. o : i \in DOMAIN mem[b] /\ i <= o
  BY <1>1
<1> QED BY <1>4, <1>5, <1>6 DEF Install

-----------------------------------------------------------------------------
(* What the kinds of step do to what is kept.                              *)

(* A step that moves no byte and leaves the cursor in use where it was.    *)
LEMMA QuietStep ==
  ASSUME IInv, UNCHANGED <<mem, units, fixed, room, written>>,
         Cursor' = Cursor, Dealt' = Dealt
  PROVE  Kept'
<1>1. Within' /\ LetGo' /\ Stands'
  BY DEF IInv, Kept, Within, LetGo, Held, Stands, Drained
<1>2. Chain(units, mem)' /\ HeaderRoomKept'
  BY DEF IInv, Kept, Chain, Sound, HeaderRoomKept
<1> QED BY <1>1, <1>2 DEF Kept

(* n more bytes at the cursor in use.                                      *)
LEMMA FillStep ==
  ASSUME IInv, ~Dealt, ~Dealt', NEW n \in Nat, Cursor \in Nat,
         Cursor + n <= Sizes[fixed], Fill(fixed, Cursor, n),
         units' = units, fixed' = fixed, room' = room, Cursor' = Cursor + n
  PROVE  /\ Kept'
         /\ DOMAIN mem' = Buffers
         /\ \A d \in Buffers : mem'[d] \in [1 .. Sizes[d] -> Nat]
         /\ written' \in Nat
<1>1. /\ TypeOK /\ fixed \in Buffers /\ Sizes[fixed] \in Nat /\ written \in Nat
      /\ room \in Nat /\ room <= Cursor
      /\ units \in Seq(Unit)
  BY SizesNat DEF IInv, TypeOK, Kept, Stands
<1>2. /\ DOMAIN mem' = Buffers
      /\ \A d \in Buffers : mem'[d] \in [1 .. Sizes[d] -> Nat]
      /\ \A d \in Buffers : d # fixed => mem'[d] = mem[d]
      /\ \A i \in 1 .. Sizes[fixed] : i \notin Cursor + 1 .. Cursor + n => mem'[fixed][i] = mem[fixed][i]
      /\ \A i \in Cursor + 1 .. Cursor + n : mem'[fixed][i] = written + (i - Cursor)
      /\ written' = written + n /\ written' \in Nat
  BY <1>1, FillMem
<1>3. ASSUME NEW i \in 1 .. Len(units), units[i].buf # 0
      PROVE  mem'[units[i].buf] = mem[units[i].buf]
  <2>1. units[i].buf \in Buffers /\ units[i].buf # fixed
    BY <1>3 DEF IInv, Kept, Within, LetGo, Held
  <2> QED BY <1>2, <2>1
<1>4. Chain(units, mem)'
  <2>1. Chain(units, mem)
    BY DEF IInv, Kept
  <2>2. Chain(units, mem')
    BY <1>3, <2>1, ChainElsewhere
  <2> QED BY <2>2
<1>5. Within' /\ LetGo'
  BY DEF IInv, Kept, Within, LetGo, Held
<1>6. Drained \in Nat
  BY <1>1, DrainedNat
<1>7. Stands'
  <2>1. Drained' = Drained
    BY DEF Drained
  <2>2. Drained + (Cursor - room) = written
    BY DEF IInv, Kept, Stands
  <2>3. ASSUME NEW i \in 1 .. Cursor + n - room
        PROVE  mem'[fixed][room + i] = Drained + i
    <3>1. CASE i <= Cursor - room
      <4>1. i \in 1 .. Cursor - room /\ room + i \in 1 .. Sizes[fixed]
            /\ room + i \notin Cursor + 1 .. Cursor + n
        BY <1>1, <3>1
      <4>2. mem[fixed][room + i] = Drained + i
        BY <4>1 DEF IInv, Kept, Stands
      <4> QED BY <1>2, <4>1, <4>2
    <3>2. CASE i > Cursor - room
      <4>1. PICK j \in Cursor + 1 .. Cursor + n : j = room + i
        BY <1>1, <3>2
      <4>2. mem'[fixed][j] = written + (j - Cursor)
        BY <1>2
      <4>3. written + (j - Cursor) = Drained + i
        BY <1>1, <1>6, <2>2, <4>1
      <4> QED BY <4>1, <4>2, <4>3
    <3> QED BY <1>1, <3>1, <3>2
  <2>4. room' <= Cursor' /\ Cursor' <= Sizes[fixed']
    BY <1>1
  <2>5. Drained' + (Cursor' - room') = written'
    BY <1>1, <1>2, <1>6, <2>1, <2>2
  <2>6. Cursor' - room' = Cursor + n - room
    BY <1>1
  <2>7. \A i \in 1 .. Cursor' - room' : mem'[fixed'][room' + i] = Drained' + i
    BY <2>1, <2>3, <2>6
  <2> QED BY <2>4, <2>5, <2>7 DEF Stands
<1>8. HeaderRoomKept'
  <2>1. \A i \in 1 .. room : i \in 1 .. Sizes[fixed] /\ i \notin Cursor + 1 .. Cursor + n
    BY <1>1
  <2>2. \A i \in 1 .. room' : mem'[fixed'][i] = 0
    BY <1>2, <2>1 DEF IInv, Kept, HeaderRoomKept
  <2>3. \A i \in 1 .. Len(units') : units'[i].buf # 0 =>
          \A j \in 1 .. units'[i].room : mem'[units'[i].buf][j] = 0
    BY <1>3 DEF IInv, Kept, HeaderRoomKept
  <2> QED BY <2>2, <2>3 DEF HeaderRoomKept
<1> QED BY <1>2, <1>4, <1>5, <1>7, <1>8 DEF Kept

(* What stands, as a unit: copied, or left in the buffer.                  *)
LEMMA StandingUnit ==
  ASSUME IInv, ~Dealt, NEW u \in {Copied(fixed, Cursor), Taken(fixed, Cursor)}
  PROVE  /\ u \in Unit /\ Sound(u, mem)
         /\ u.lo = Drained /\ u.hi = written
         /\ u.buf # 0 => /\ u.buf = fixed /\ u.room = room
                         /\ u.room + (u.hi - u.lo) <= Sizes[fixed]
<1>1. /\ TypeOK /\ fixed \in Buffers /\ Sizes[fixed] \in Nat /\ written \in Nat
      /\ room \in Nat /\ Cursor \in Nat /\ units \in Seq(Unit)
  BY SizesNat DEF IInv, TypeOK, Cursor
<1>2. /\ room <= Cursor /\ Cursor <= Sizes[fixed]
      /\ Drained + (Cursor - room) = written
      /\ \A i \in 1 .. Cursor - room : mem[fixed][room + i] = Drained + i
  BY DEF IInv, Kept, Stands
<1>3. Drained \in Nat
  BY <1>1, DrainedNat
<1> DEFINE n == Cursor - room
<1>4. n \in Nat /\ room + n <= Sizes[fixed] /\ written = Drained + n
      /\ written - Drained = n
  BY <1>1, <1>2, <1>3
<1>5. /\ Cells(fixed, room, n) \in Seq(Nat)
      /\ \A i \in 1 .. n : Cells(fixed, room, n)[i] = mem[fixed][room + i]
  BY <1>1, <1>4, CellsTyped
<1>6. CASE u = Copied(fixed, Cursor)
  <2>1. u = [buf |-> 0, room |-> room, lo |-> Drained, hi |-> Drained + n,
             data |-> Cells(fixed, room, n)]
    BY <1>6 DEF Copied
  <2>2. u \in Unit
    BY <2>1, <1>1, <1>3, <1>4, <1>5 DEF Unit
  <2>3. u.buf = 0 /\ u.lo = Drained /\ u.hi = written /\ u.data = Cells(fixed, room, n)
    BY <2>1, <1>4
  <2>4. u.hi - u.lo = n /\ u.lo <= u.hi
    BY <2>3, <1>3, <1>4
  <2>5. Sound(u, mem)
    BY <2>3, <2>4, <1>2, <1>5 DEF Sound
  <2> QED BY <2>2, <2>3, <2>5
<1>7. CASE u = Taken(fixed, Cursor)
  <2>1. u = [buf |-> fixed, room |-> room, lo |-> Drained, hi |-> Drained + n,
             data |-> <<>>]
    BY <1>7 DEF Taken
  <2>2. u \in Unit
    BY <2>1, <1>1, <1>3, <1>4 DEF Unit, Buffers
  <2>3. u.buf = fixed /\ u.room = room /\ u.lo = Drained /\ u.hi = written /\ fixed # 0
    BY <2>1, <1>1, <1>4 DEF Buffers
  <2>4. u.hi - u.lo = n /\ u.lo <= u.hi
    BY <2>3, <1>3, <1>4
  <2>5. Sound(u, mem)
    BY <2>3, <2>4, <1>2 DEF Sound
  <2> QED BY <2>2, <2>3, <2>4, <2>5, <1>4
<1> QED BY <1>6, <1>7

(* A sound unit follows what was drained.                                  *)
LEMMA DeliverStep ==
  ASSUME IInv, NEW u \in Unit, Sound(u, mem), u.lo = Drained, Deliver(u)
  PROVE  /\ units' \in Seq(Unit) /\ Chain(units', mem) /\ Drained' = u.hi
         /\ Len(units') = Len(units) + 1 /\ units'[Len(units) + 1] = u
         /\ \A i \in 1 .. Len(units) : units'[i] = units[i]
<1>1. units \in Seq(Unit) /\ Chain(units, mem) /\ Drained = HiOf(units)
  BY DEF IInv, TypeOK, Kept, Drained, HiOf
<1>2. units' = Append(units, u)
  BY DEF Deliver
<1>3. Drained' = HiOf(units')
  BY DEF Drained, HiOf
<1> QED BY <1>1, <1>2, <1>3, AppendChain

(* One unit more, no buffer of it held: what was held is held.             *)
LEMMA CopyOut ==
  ASSUME IInv, NEW u \in Unit, Sound(u, mem), u.lo = Drained, u.buf = 0, Deliver(u)
  PROVE  /\ units' \in Seq(Unit) /\ Chain(units', mem) /\ Drained' = u.hi
         /\ Within'
         /\ \A i \in 1 .. Len(units') : units'[i].buf # 0 =>
              /\ units'[i].buf \in Held
              /\ \A j \in 1 .. units'[i].room : mem[units'[i].buf][j] = 0
<1>1. /\ units' \in Seq(Unit) /\ Chain(units', mem) /\ Drained' = u.hi
      /\ Len(units') = Len(units) + 1 /\ units'[Len(units) + 1] = u
      /\ \A i \in 1 .. Len(units) : units'[i] = units[i]
      /\ Len(units) \in Nat
  BY DeliverStep, LenProperties DEF IInv, TypeOK
<1>2. ASSUME NEW i \in 1 .. Len(units'), units'[i].buf # 0
      PROVE  i \in 1 .. Len(units) /\ units'[i] = units[i]
  BY <1>1, <1>2
<1>3. Within'
  BY <1>2 DEF IInv, Kept, Within
<1>4. \A i \in 1 .. Len(units') : units'[i].buf # 0 =>
        /\ units'[i].buf \in Held
        /\ \A j \in 1 .. units'[i].room : mem[units'[i].buf][j] = 0
  BY <1>2 DEF IInv, Kept, HeaderRoomKept, Held
<1> QED BY <1>1, <1>3, <1>4

(* buffer_set, once all that was written has been dealt with.              *)
LEMMA InstallStep ==
  ASSUME IInv, NEW b \in Buffers, NEW o \in 0 .. Sizes[b], Install(b, o),
         Within', Chain(units', mem), Drained' = written', ~Dealt', Cursor' = cursor',
         written' \in Nat,
         \A i \in 1 .. Len(units') : units'[i].buf # 0 =>
              /\ units'[i].buf # b
              /\ \A j \in 1 .. units'[i].room : mem[units'[i].buf][j] = 0
  PROVE  Kept'
<1>1. TypeOK /\ Sizes[b] \in Nat /\ o \in Nat
  BY SizesNat DEF IInv
<1>2. /\ \A d \in Buffers : d # b => mem'[d] = mem[d]
      /\ \A i \in 1 .. o : mem'[b][i] = 0
      /\ fixed' = b /\ cursor' = o /\ room' = o
  BY <1>1, InstallMem
<1>3. \A i \in 1 .. Len(units') : units'[i].buf # 0 => mem'[units'[i].buf] = mem[units'[i].buf]
  BY <1>2 DEF Within
<1>4. Chain(units', mem')
  BY <1>3, ChainElsewhere
<1>5. LetGo'
  <2>1. b # 0
    BY DEF Buffers
  <2> QED BY <1>2, <2>1 DEF LetGo, Held
<1>6. Stands'
  <2>1. Cursor' - room' = 0
    BY <1>1, <1>2
  <2>2. room' <= Cursor' /\ Cursor' <= Sizes[fixed']
    BY <1>1, <1>2
  <2>3. Drained' + (Cursor' - room') = written'
    BY <2>1
  <2>4. \A i \in 1 .. Cursor' - room' : FALSE
    BY <2>1
  <2> QED BY <2>2, <2>3, <2>4 DEF Stands
<1>7. HeaderRoomKept'
  <2>1. \A i \in 1 .. Len(units') : units'[i].buf # 0 =>
          \A j \in 1 .. units'[i].room : mem'[units'[i].buf][j] = 0
    BY <1>3
  <2> QED BY <1>2, <2>1 DEF HeaderRoomKept
<1> QED BY <1>4, <1>5, <1>6, <1>7 DEF Kept

(* The buffer starts over, all that stood in it dealt with.                *)
LEMMA StartOver ==
  ASSUME IInv, Within', Chain(units', mem), Drained' = written', ~Dealt',
         mem' = mem, fixed' = fixed, Cursor' = 0, room' = 0, written' \in Nat,
         \A i \in 1 .. Len(units') : units'[i].buf # 0 =>
              /\ units'[i].buf # fixed
              /\ \A j \in 1 .. units'[i].room : mem[units'[i].buf][j] = 0
  PROVE  Kept'
<1>1. fixed \in Buffers /\ Sizes[fixed] \in Nat
  BY SizesNat DEF IInv, TypeOK
<1>2. LetGo'
  <2>1. fixed # 0
    BY <1>1 DEF Buffers
  <2> QED BY <2>1 DEF LetGo, Held
<1>3. Stands'
  <2>1. Cursor' - room' = 0
    OBVIOUS
  <2>2. room' <= Cursor' /\ Cursor' <= Sizes[fixed']
    BY <1>1
  <2>3. Drained' + (Cursor' - room') = written'
    <3>1. \A d \in Nat : d + (Cursor' - room') = d
      BY <2>1
    <3>2. Drained' \in Nat /\ Drained' = written'
      OBVIOUS
    <3> QED BY <3>1, <3>2
  <2>4. \A i \in 1 .. Cursor' - room' : FALSE
    BY <2>1
  <2> QED BY <2>2, <2>3, <2>4 DEF Stands
<1>4. HeaderRoomKept'
  BY DEF HeaderRoomKept
<1> QED BY <1>2, <1>3, <1>4 DEF Kept

-----------------------------------------------------------------------------
(* The invariant holds at first, and every action preserves it.            *)

LEMMA InitHolds == Init => IInv
<1> SUFFICES ASSUME Init PROVE IInv
  OBVIOUS
<1>1. 1 \in Buffers /\ \A b \in Buffers : Sizes[b] \in Nat
  BY SizesAssumption, SizesNat, EmptySeq, LenProperties DEF Buffers
<1>2. fixed = 1 /\ Sizes[1] \in Nat /\ cursor \in 0 .. Sizes[1] /\ room = cursor
  BY <1>1, SizesAssumption DEF Init
<1>3. /\ DOMAIN mem = Buffers
      /\ \A b \in Buffers : mem[b] = [i \in 1 .. Sizes[b] |-> 0]
  BY DEF Init
<1>4. units = <<>> /\ units \in Seq(Unit) /\ Len(units) = 0
  BY DEF Init
<1>5. TypeOK
  <2>1. \A b \in Buffers : mem[b] \in [1 .. Sizes[b] -> Nat]
    BY <1>3
  <2>2. NoLoop \in [buf : Buffers, cursor : Nat]
    BY <1>1 DEF NoLoop
  <2>3. Idle \in [mv : Buffers, left : Nat, array : BOOLEAN]
    BY <1>1 DEF Idle
  <2>4. NotHanded \in [buf : {0} \cup Buffers, n : Nat, dealt : BOOLEAN, swapped : BOOLEAN]
    BY DEF NotHanded
  <2>5. fixed \in Buffers /\ cursor \in 0 .. Sizes[fixed] /\ room \in Nat
    BY <1>1, <1>2
  <2> QED BY <1>3, <1>4, <2>1, <2>2, <2>3, <2>4, <2>5 DEF Init, TypeOK
<1>6. Cursor = cursor /\ ~Dealt /\ Drained = 0 /\ written = 0
  BY <1>4 DEF Init, Cursor, Dealt, Drained
<1>7. Chain(units, mem) /\ Within /\ LetGo
  BY <1>4 DEF Chain, Within, LetGo, Held
<1>8. Stands
  <2>1. Cursor - room = 0 /\ Drained + (Cursor - room) = written
    BY <1>2, <1>6
  <2> QED BY <1>2, <1>6, <2>1 DEF Stands
<1>9. HeaderRoomKept
  BY <1>1, <1>2, <1>3, <1>4 DEF HeaderRoomKept
<1>10. Locals
  BY <1>2 DEF Init, Locals
<1> QED BY <1>5, <1>7, <1>8, <1>9, <1>10 DEF IInv, Kept

(* A write that stays at the encoder: varints, runs and array loops.       *)
LEMMA VarintKeeps == ASSUME IInv, NEW n \in Nat, Varint(n) PROVE IInv'
<1>1. /\ TypeOK /\ Locals /\ Kept /\ pc = "idle" /\ n \in 1 .. VarintMax
      /\ Cursor = cursor /\ ~Dealt /\ cursor \in Nat /\ Sizes[fixed] \in Nat
      /\ fixed \in Buffers
  BY SizesNat DEF Varint, IInv, TypeOK, Cursor, Dealt
<1>2. CASE FitsInline(fixed, cursor)
  <2>1. /\ Fill(fixed, cursor, n) /\ cursor' = cursor + n /\ pc' = "idle"
        /\ UNCHANGED <<mode, fixed, flushView, room, units, put, loop, handed, overflowed>>
    BY <1>1, <1>2 DEF Varint
  <2>1a. cursor + n <= Sizes[fixed] /\ cursor < Sizes[fixed]
    BY <1>1, <1>2, StreamBounds DEF FitsInline
  <2>2. Cursor' = Cursor + n /\ ~Dealt'
    BY <1>1, <2>1 DEF Cursor, Dealt
  <2>3. /\ Kept' /\ DOMAIN mem' = Buffers
        /\ \A d \in Buffers : mem'[d] \in [1 .. Sizes[d] -> Nat]
        /\ written' \in Nat
    BY <1>1, <2>1, <2>1a, <2>2, FillStep
  <2>4. TypeOK'
    BY <1>1, <2>1, <2>1a, <2>3 DEF TypeOK
  <2>5. Locals'
    BY <1>1, <2>1, <2>1a DEF Locals
  <2> QED BY <2>3, <2>4, <2>5 DEF IInv
<1>3. CASE ~FitsInline(fixed, cursor)
  <2>1. /\ EnterPut(n, FALSE)
        /\ UNCHANGED <<mode, cursor, loop, handed, overflowed>>
    BY <1>3 DEF Varint
  <2>2. Cursor' = Cursor /\ Dealt' = Dealt
    BY <1>1, <2>1 DEF EnterPut, Cursor, Dealt
  <2>3. Kept'
    BY <2>1, <2>2, QuietStep DEF EnterPut
  <2>4. TypeOK'
    BY <1>1, <2>1 DEF EnterPut, TypeOK
  <2>5. Locals'
    BY <1>1, <2>1, <2>2 DEF EnterPut, Locals
  <2> QED BY <2>3, <2>4, <2>5 DEF IInv
<1> QED BY <1>2, <1>3

LEMMA RunKeeps == ASSUME IInv, NEW n \in Nat, Run(n) PROVE IInv'
<1>1. /\ EnterPut(n, FALSE) /\ pc = "idle" /\ TypeOK /\ Locals
      /\ UNCHANGED <<mode, cursor, loop, handed, overflowed>>
  BY DEF Run, IInv
<1>2. Cursor' = Cursor /\ Dealt' = Dealt
  BY <1>1 DEF EnterPut, Cursor, Dealt
<1>3. Kept'
  BY <1>1, <1>2, QuietStep DEF EnterPut
<1>4. TypeOK'
  BY <1>1 DEF EnterPut, TypeOK
<1>5. Locals'
  BY <1>1, <1>2 DEF EnterPut, Locals
<1> QED BY <1>3, <1>4, <1>5 DEF IInv

LEMMA ElementKeeps == ASSUME IInv, NEW n \in Nat, Element(n) PROVE IInv'
<1>1. /\ TypeOK /\ Locals /\ Kept /\ pc = "array" /\ n \in 1 .. VarintMax
      /\ loop.buf = fixed /\ Cursor = loop.cursor /\ ~Dealt /\ loop.cursor \in Nat
      /\ Sizes[fixed] \in Nat /\ fixed \in Buffers /\ Cursor <= Sizes[fixed]
      /\ loop \in [buf : Buffers, cursor : Nat]
      /\ UNCHANGED <<mode, handed, overflowed>>
  BY SizesNat DEF Element, IInv, TypeOK, Locals, Cursor, Dealt, Kept, Stands
<1>2. CASE FitsInline(loop.buf, loop.cursor)
  <2>1. /\ Fill(fixed, Cursor, n) /\ loop' = [loop EXCEPT !.cursor = @ + n]
        /\ pc' = "array"
        /\ UNCHANGED <<fixed, cursor, flushView, room, units, put>>
    BY <1>1, <1>2 DEF Element
  <2>1a. Cursor + n <= Sizes[fixed] /\ Cursor < Sizes[fixed]
    BY <1>1, <1>2, StreamBounds DEF FitsInline
  <2>2. /\ loop' \in [buf : Buffers, cursor : Nat]
        /\ loop'.buf = fixed /\ loop'.cursor = loop.cursor + n
    BY <1>1, <2>1
  <2>3. Cursor' = Cursor + n /\ ~Dealt'
    BY <1>1, <2>1, <2>2 DEF Cursor, Dealt
  <2>4. /\ Kept' /\ DOMAIN mem' = Buffers
        /\ \A d \in Buffers : mem'[d] \in [1 .. Sizes[d] -> Nat]
        /\ written' \in Nat
    BY <1>1, <2>1, <2>1a, <2>3, FillStep
  <2>5. TypeOK'
    BY <1>1, <2>1, <2>2, <2>4 DEF TypeOK
  <2>6. Locals'
    BY <1>1, <2>1, <2>1a, <2>2 DEF Locals
  <2> QED BY <2>4, <2>5, <2>6 DEF IInv
<1>3. CASE ~FitsInline(loop.buf, loop.cursor)
  <2>1. EnterPut(n, TRUE) /\ cursor' = loop.cursor /\ loop' = loop
    BY <1>1, <1>3 DEF Element
  <2>2. Cursor' = Cursor /\ Dealt' = Dealt
    BY <1>1, <2>1 DEF EnterPut, Cursor, Dealt
  <2>3. Kept'
    BY <2>1, <2>2, QuietStep DEF EnterPut
  <2>4. TypeOK'
    BY <1>1, <2>1 DEF EnterPut, TypeOK
  <2>5. Locals'
    BY <1>1, <2>1, <2>2 DEF EnterPut, Locals
  <2> QED BY <2>3, <2>4, <2>5 DEF IInv
<1> QED BY <1>2, <1>3

LEMMA ArrayKeeps == ASSUME IInv, ArrayLoop \/ LeaveArray PROVE IInv'
<1>1. TypeOK /\ Locals /\ Kept /\ Sizes[fixed] \in Nat
  BY SizesNat DEF IInv, TypeOK
<1>2. Cursor' = Cursor /\ Dealt' = Dealt
      /\ UNCHANGED <<mem, units, fixed, room, written>>
  BY DEF ArrayLoop, LeaveArray, Cursor, Dealt, buffer
<1>3. Kept'
  BY <1>2, QuietStep
<1>4. CASE ArrayLoop
  <2>1. TypeOK'
    BY <1>1, <1>4 DEF ArrayLoop, TypeOK, buffer
  <2>2. Locals'
    BY <1>1, <1>2, <1>4 DEF ArrayLoop, Locals, buffer
  <2> QED BY <1>3, <2>1, <2>2 DEF IInv
<1>5. CASE LeaveArray
  <2>1. cursor' \in 0 .. Sizes[fixed]
    BY <1>1, <1>5 DEF LeaveArray, TypeOK, Kept, Stands, Cursor
  <2>2. NoLoop \in [buf : Buffers, cursor : Nat]
    BY <1>1 DEF NoLoop, TypeOK, Buffers
  <2>3. TypeOK'
    BY <1>1, <1>5, <2>1, <2>2 DEF LeaveArray, TypeOK
  <2>4. Locals'
    BY <1>1, <1>2, <1>5 DEF LeaveArray, Locals
  <2> QED BY <1>3, <2>3, <2>4 DEF IInv
<1> QED BY <1>4, <1>5

(* _put, and the drains it and flush start.                                *)
LEMMA PutSomeKeeps == ASSUME IInv, PutSome PROVE IInv'
<1>1. /\ TypeOK /\ Locals /\ Kept /\ pc = "put" /\ put.mv = fixed
      /\ Cursor = cursor /\ ~Dealt /\ cursor \in Nat /\ Sizes[fixed] \in Nat
      /\ cursor < Sizes[fixed] /\ put.left \in Nat /\ fixed \in Buffers
      /\ put \in [mv : Buffers, left : Nat, array : BOOLEAN]
  BY SizesNat DEF PutSome, IInv, TypeOK, Locals, Cursor, Dealt
<1> DEFINE take == Least(Sizes[put.mv] - cursor, put.left)
<1>2. take \in Nat /\ take <= put.left /\ cursor + take <= Sizes[fixed]
  BY <1>1 DEF Least
<1>3. /\ Fill(fixed, cursor, take) /\ cursor' = cursor + take
      /\ put' = [put EXCEPT !.left = @ - take] /\ pc' = "put"
      /\ UNCHANGED <<mode, fixed, flushView, room, loop, handed, units, overflowed>>
  BY <1>1 DEF PutSome
<1>4. Cursor' = Cursor + take /\ ~Dealt'
  BY <1>1, <1>3 DEF Cursor, Dealt
<1>5. /\ Kept' /\ DOMAIN mem' = Buffers
      /\ \A d \in Buffers : mem'[d] \in [1 .. Sizes[d] -> Nat]
      /\ written' \in Nat
  <2> HIDE DEF take
  <2> QED BY <1>1, <1>2, <1>3, <1>4, FillStep
<1>6. put' \in [mv : Buffers, left : Nat, array : BOOLEAN] /\ put'.mv = fixed
  <2> HIDE DEF take
  <2> QED BY <1>1, <1>2, <1>3
<1>7. cursor' \in 0 .. Sizes[fixed]
  <2> HIDE DEF take
  <2> QED BY <1>1, <1>2, <1>3
<1>8. TypeOK'
  BY <1>1, <1>3, <1>5, <1>6, <1>7 DEF TypeOK
<1>9. ~overflowed
  BY <1>1 DEF Locals
<1>10. Locals'
  BY <1>1, <1>3, <1>6, <1>9 DEF Locals
<1> QED BY <1>5, <1>8, <1>10 DEF IInv

LEMMA PutDoneKeeps == ASSUME IInv, PutDone PROVE IInv'
<1>1. TypeOK /\ Locals /\ pc = "put" /\ Sizes[fixed] \in Nat
      /\ UNCHANGED <<mode, buffer, handed, written, units, overflowed>>
  BY SizesNat DEF PutDone, IInv, TypeOK
<1>2. /\ pc' = IF put.array THEN "array" ELSE "idle"
      /\ loop' = IF put.array THEN [buf |-> fixed, cursor |-> cursor] ELSE loop
      /\ put' = Idle
  BY DEF PutDone
<1>3. Cursor' = Cursor /\ Dealt' = Dealt
  BY <1>1, <1>2 DEF Cursor, Dealt, buffer
<1>4. Kept'
  BY <1>1, <1>3, QuietStep DEF buffer
<1>5. Idle \in [mv : Buffers, left : Nat, array : BOOLEAN]
  BY <1>1 DEF Idle, TypeOK, Buffers
<1>6. TypeOK'
  BY <1>1, <1>2, <1>5 DEF TypeOK, buffer
<1>7. Locals'
  BY <1>1, <1>2, <1>3 DEF Locals, buffer
<1> QED BY <1>4, <1>6, <1>7 DEF IInv

LEMMA NoRoomKeeps == ASSUME IInv, NoRoom PROVE IInv'
<1>1. /\ TypeOK /\ Locals /\ pc = "put" /\ mode = "none" /\ put.mv = fixed
      /\ cursor >= Sizes[fixed] /\ cursor \in 0 .. Sizes[fixed] /\ Sizes[fixed] \in Nat
      /\ pc' = "idle" /\ put' = Idle /\ loop' = NoLoop /\ overflowed' = TRUE
      /\ UNCHANGED <<mode, buffer, handed, written, units>>
  BY SizesNat DEF NoRoom, NeedsRoom, IInv, TypeOK, Locals
<1>2. Cursor' = Cursor /\ Dealt' = Dealt /\ Cursor = cursor
  BY <1>1 DEF Cursor, Dealt, buffer
<1>3. Kept'
  BY <1>1, <1>2, QuietStep DEF buffer
<1>4. /\ Idle \in [mv : Buffers, left : Nat, array : BOOLEAN]
      /\ NoLoop \in [buf : Buffers, cursor : Nat]
  BY <1>1 DEF Idle, NoLoop, TypeOK, Buffers
<1>5. TypeOK'
  BY <1>1, <1>4 DEF TypeOK, buffer
<1>6. cursor = Sizes[fixed]
  BY <1>1
<1>7. Locals'
  BY <1>1, <1>2, <1>6 DEF Locals, buffer
<1> QED BY <1>3, <1>5, <1>7 DEF IInv

(* A chunk of the in-memory result.                                        *)
LEMMA ChunkKeeps ==
  ASSUME IInv, Chunk, mode = "memory", pc \in {"idle", "put"}, pc' = pc,
         put' = put \/ put' = [put EXCEPT !.mv = fixed]
  PROVE  IInv'
<1>1. /\ TypeOK /\ Locals /\ Kept /\ Cursor = cursor /\ ~Dealt
      /\ Sizes[fixed] \in Nat /\ fixed \in Buffers /\ written \in Nat
      /\ put \in [mv : Buffers, left : Nat, array : BOOLEAN]
  BY SizesNat DEF IInv, TypeOK, Cursor, Dealt
<1>2. /\ Deliver(Copied(fixed, Cursor)) /\ cursor' = 0 /\ room' = 0
      /\ UNCHANGED <<mode, mem, fixed, flushView, loop, handed, written, overflowed>>
  BY <1>1 DEF Chunk
<1>3. /\ Copied(fixed, Cursor) \in Unit /\ Sound(Copied(fixed, Cursor), mem)
      /\ Copied(fixed, Cursor).lo = Drained /\ Copied(fixed, Cursor).hi = written
  BY <1>1, StandingUnit
<1>4. Copied(fixed, Cursor).buf = 0
  BY DEF Copied
<1>5. /\ units' \in Seq(Unit) /\ Chain(units', mem) /\ Drained' = written
      /\ Within'
      /\ \A i \in 1 .. Len(units') : units'[i].buf # 0 =>
           /\ units'[i].buf \in Held
           /\ \A j \in 1 .. units'[i].room : mem[units'[i].buf][j] = 0
  BY <1>2, <1>3, <1>4, CopyOut
<1>6. fixed \notin Held
  BY <1>1 DEF Kept, LetGo
<1>7. Cursor' = 0 /\ ~Dealt'
  BY <1>2 DEF Cursor, Dealt
<1>8. Kept'
  BY <1>1, <1>2, <1>5, <1>6, <1>7, StartOver
<1>9. put' \in [mv : Buffers, left : Nat, array : BOOLEAN]
      /\ (pc = "put" => put'.mv = fixed)
  BY <1>1 DEF Locals
<1>10. TypeOK'
  BY <1>1, <1>2, <1>5, <1>9 DEF TypeOK
<1>11. Locals'
  BY <1>1, <1>2, <1>9 DEF Locals
<1> QED BY <1>8, <1>10, <1>11 DEF IInv

(* The buffer handed to the sink.                                          *)
LEMMA HandOverKeeps ==
  ASSUME IInv, HandOver, mode = "sink", pc \in {"idle", "put"}, put' = put
  PROVE  IInv'
<1>1. /\ TypeOK /\ Locals /\ Kept /\ Cursor = cursor /\ ~Dealt
      /\ Sizes[fixed] \in Nat /\ fixed \in Buffers /\ cursor \in Nat
      /\ put \in [mv : Buffers, left : Nat, array : BOOLEAN]
      /\ flushView \in {0, fixed} /\ ~overflowed
  BY SizesNat DEF IInv, TypeOK, Cursor, Dealt, Locals
<1>2. /\ pc' = "sink"
      /\ handed' = [buf |-> fixed, n |-> cursor, dealt |-> FALSE, swapped |-> FALSE]
      /\ flushView' \in {0, fixed}
      /\ UNCHANGED <<mode, mem, fixed, cursor, room, loop, written, units, overflowed>>
  BY <1>1 DEF HandOver
<1>3. Cursor' = Cursor /\ Dealt' = Dealt
  BY <1>1, <1>2 DEF Cursor, Dealt
<1>4. Kept'
  BY <1>2, <1>3, QuietStep
<1>5. TypeOK'
  BY <1>1, <1>2 DEF TypeOK
<1>6. Locals'
  BY <1>1, <1>2 DEF Locals
<1> QED BY <1>4, <1>5, <1>6 DEF IInv

LEMMA DrainKeeps == ASSUME IInv, PutDrains \/ Flush PROVE IInv'
<1>1. CASE PutDrains
  <2>1. CASE mode = "memory" /\ Chunk /\ put' = [put EXCEPT !.mv = fixed] /\ UNCHANGED pc
    BY <1>1, <2>1, ChunkKeeps DEF PutDrains, NeedsRoom
  <2>2. CASE mode = "sink" /\ HandOver /\ UNCHANGED put
    BY <1>1, <2>2, HandOverKeeps DEF PutDrains, NeedsRoom
  <2> QED BY <1>1, <2>1, <2>2 DEF PutDrains
<1>2. CASE Flush
  <2>1. CASE mode = "memory" /\ Chunk /\ UNCHANGED <<pc, put>>
    BY <1>2, <2>1, ChunkKeeps DEF Flush
  <2>2. CASE mode = "sink" /\ HandOver /\ UNCHANGED put
    BY <1>2, <2>2, HandOverKeeps DEF Flush
  <2> QED BY <1>2, <2>1, <2>2 DEF Flush
<1> QED BY <1>1, <1>2

(* A run that goes around the buffer, behind what stands in it.            *)
LEMMA LongRunKeeps == ASSUME IInv, NEW n \in Nat, LongRun(n) PROVE IInv'
<1> DEFINE chunk(lo) == [buf |-> 0, room |-> 0, lo |-> lo, hi |-> lo + n,
                         data |-> [i \in 1 .. n |-> written + i]]
           c == Copied(fixed, Cursor)
<1>1. /\ TypeOK /\ Locals /\ Kept /\ Cursor = cursor /\ ~Dealt /\ pc = "idle"
      /\ Sizes[fixed] \in Nat /\ fixed \in Buffers /\ written \in Nat
      /\ room \in Nat /\ cursor \in Nat /\ room <= cursor /\ Drained \in Nat
      /\ Drained + (cursor - room) = written
      /\ units \in Seq(Unit) /\ Chain(units, mem) /\ HiOf(units) = Drained
      /\ Len(units) \in Nat
  BY SizesNat, DrainedNat, LenProperties
  DEF LongRun, IInv, TypeOK, Cursor, Dealt, Kept, Stands, HiOf, Drained
<1>2. /\ mode = "memory"
      /\ cursor' = 0 /\ room' = 0 /\ written' = written + n
      /\ UNCHANGED <<mode, mem, fixed, flushView, pc, locals, overflowed>>
  BY DEF LongRun, Short
<1>3. units' = IF cursor > 0 THEN Append(Append(units, c), chunk(Drained + (cursor - room)))
                             ELSE Append(units, chunk(Drained))
  BY <1>1 DEF LongRun
<1>4. /\ chunk(written) \in Unit /\ chunk(written).buf = 0
      /\ chunk(written).lo = written /\ chunk(written).hi = written + n
  <2>1. [i \in 1 .. n |-> written + i] \in Seq(Nat)
    <3>1. [i \in 1 .. n |-> written + i] \in [1 .. n -> Nat]
      BY <1>1
    <3> QED BY <3>1, SeqDef
  <2> QED BY <1>1, <2>1 DEF Unit
<1>5. Sound(chunk(written), mem)
  <2>1. chunk(written).hi - chunk(written).lo = n /\ chunk(written).lo <= chunk(written).hi
    BY <1>1
  <2>2. \A i \in 1 .. n : chunk(written).data[i] = chunk(written).lo + i
    OBVIOUS
  <2> QED BY <1>4, <2>1, <2>2 DEF Sound
<1> HIDE DEF chunk
<1>6. /\ units' \in Seq(Unit) /\ Chain(units', mem) /\ HiOf(units') = written + n
      /\ \A i \in 1 .. Len(units') : units'[i].buf # 0 =>
           i \in 1 .. Len(units) /\ units'[i] = units[i]
  <2>1. CASE cursor > 0
    <3>1. c \in Unit /\ Sound(c, mem) /\ c.lo = Drained /\ c.hi = written
      BY <1>1, StandingUnit
    <3>2. c.buf = 0
      BY DEF Copied
    <3> HIDE DEF c
    <3>3. /\ Append(units, c) \in Seq(Unit) /\ Chain(Append(units, c), mem)
          /\ HiOf(Append(units, c)) = written
      BY <1>1, <3>1, AppendChain
    <3> DEFINE us == Append(units, c)
    <3>4. /\ Len(us) = Len(units) + 1 /\ us[Len(units) + 1] = c
          /\ \A i \in 1 .. Len(units) : us[i] = units[i]
      BY <1>1, <3>1, AppendProperties
    <3> HIDE DEF us
    <3>5. units' = Append(us, chunk(written))
      BY <1>1, <1>3, <2>1 DEF us
    <3>6. us \in Seq(Unit) /\ Chain(us, mem) /\ HiOf(us) = written
      BY <3>3 DEF us
    <3>7. units' \in Seq(Unit) /\ Chain(units', mem) /\ HiOf(units') = written + n
      BY <1>4, <1>5, <3>5, <3>6, AppendChain
    <3>8. /\ Len(units') = Len(us) + 1 /\ units'[Len(us) + 1] = chunk(written)
          /\ \A i \in 1 .. Len(us) : units'[i] = us[i]
      BY <1>4, <3>5, <3>6, AppendProperties
    <3>9. \A i \in 1 .. Len(units') : units'[i].buf # 0 =>
             i \in 1 .. Len(units) /\ units'[i] = units[i]
      BY <1>1, <1>4, <3>2, <3>4, <3>8
    <3> QED BY <3>7, <3>9
  <2>2. CASE ~(cursor > 0)
    <3>1. Drained = written
      BY <1>1, <2>2
    <3>2. units' = Append(units, chunk(written))
      BY <1>3, <2>2, <3>1
    <3>3. units' \in Seq(Unit) /\ Chain(units', mem) /\ HiOf(units') = written + n
      BY <1>1, <1>4, <1>5, <3>1, <3>2, AppendChain
    <3>4. /\ Len(units') = Len(units) + 1 /\ units'[Len(units) + 1] = chunk(written)
          /\ \A i \in 1 .. Len(units) : units'[i] = units[i]
      BY <1>1, <1>4, <3>2, AppendProperties
    <3> QED BY <1>1, <1>4, <3>3, <3>4
  <2> QED BY <2>1, <2>2
<1>7. Within'
  BY <1>1, <1>6 DEF Kept, Within
<1>8. Drained' = written'
  BY <1>2, <1>6 DEF Drained, HiOf
<1>9. \A i \in 1 .. Len(units') : units'[i].buf # 0 =>
        /\ units'[i].buf # fixed
        /\ \A j \in 1 .. units'[i].room : mem[units'[i].buf][j] = 0
  BY <1>1, <1>6 DEF Kept, LetGo, Held, HeaderRoomKept
<1>10. Cursor' = 0 /\ ~Dealt' /\ written' \in Nat
  BY <1>1, <1>2 DEF Cursor, Dealt
<1>11. Kept'
  BY <1>2, <1>6, <1>7, <1>8, <1>9, <1>10, StartOver
<1>12. TypeOK'
  BY <1>1, <1>2, <1>6, <1>10 DEF TypeOK, locals
<1>13. Locals'
  BY <1>1, <1>2 DEF Locals, locals
<1> QED BY <1>11, <1>12, <1>13 DEF IInv

(* buffer_set by the caller.                                               *)
LEMMA CallerInstallsKeeps ==
  ASSUME IInv, NEW b \in Buffers, NEW o \in 0 .. Sizes[b], CallerInstalls(b, o)
  PROVE  IInv'
<1>1. /\ TypeOK /\ Locals /\ Cursor = cursor /\ ~Dealt /\ pc = "idle" /\ b \notin Held
      /\ Deliver(Copied(fixed, Cursor)) /\ Install(b, o) /\ overflowed' = FALSE
      /\ UNCHANGED <<mode, pc, locals, written>> /\ written \in Nat
  BY DEF CallerInstalls, IInv, TypeOK, Cursor, Dealt
<1>2. /\ Copied(fixed, Cursor) \in Unit /\ Sound(Copied(fixed, Cursor), mem)
      /\ Copied(fixed, Cursor).lo = Drained /\ Copied(fixed, Cursor).hi = written
  BY <1>1, StandingUnit
<1>3. Copied(fixed, Cursor).buf = 0
  BY DEF Copied
<1>4. /\ units' \in Seq(Unit) /\ Chain(units', mem) /\ Drained' = written
      /\ Within'
      /\ \A i \in 1 .. Len(units') : units'[i].buf # 0 =>
           /\ units'[i].buf \in Held
           /\ \A j \in 1 .. units'[i].room : mem[units'[i].buf][j] = 0
  BY <1>1, <1>2, <1>3, CopyOut
<1>5. Cursor' = cursor' /\ ~Dealt'
  BY <1>1 DEF Cursor, Dealt
<1>6. Kept'
  BY <1>1, <1>4, <1>5, InstallStep
<1>7. /\ DOMAIN mem' = Buffers
      /\ \A d \in Buffers : mem'[d] \in [1 .. Sizes[d] -> Nat]
      /\ fixed' = b /\ cursor' = o /\ room' = o /\ flushView' = 0 /\ o \in Nat
  BY <1>1, InstallMem, SizesNat
<1>8. TypeOK'
  BY <1>1, <1>4, <1>7 DEF TypeOK, locals
<1>9. Locals'
  BY <1>1, <1>7 DEF Locals, locals
<1> QED BY <1>6, <1>8, <1>9 DEF IInv

(* The sink deals with what it is handed ...                               *)
LEMMA SinkDealsKeeps == ASSUME IInv, SinkCopies \/ SinkTakes PROVE IInv'
<1>1. /\ TypeOK /\ Locals /\ Kept /\ pc = "sink" /\ ~handed.dealt /\ ~handed.swapped
      /\ handed.buf = fixed /\ handed.n = cursor /\ Cursor = cursor /\ ~Dealt
      /\ fixed \in Buffers /\ Len(units) \in Nat
      /\ handed \in [buf : {0} \cup Buffers, n : Nat, dealt : BOOLEAN, swapped : BOOLEAN]
  BY LenProperties DEF SinkCopies, SinkTakes, IInv, TypeOK, Locals, Cursor, Dealt
<1>2. PICK u \in {Copied(fixed, Cursor), Taken(fixed, Cursor)} : Deliver(u)
  BY <1>1 DEF SinkCopies, SinkTakes
<1>3. /\ handed' = [handed EXCEPT !.dealt = TRUE]
      /\ UNCHANGED <<mode, buffer, pc, loop, put, written, overflowed>>
  BY DEF SinkCopies, SinkTakes
<1>4. /\ u \in Unit /\ Sound(u, mem) /\ u.lo = Drained /\ u.hi = written
      /\ u.buf # 0 => /\ u.buf = fixed /\ u.room = room
                      /\ u.room + (u.hi - u.lo) <= Sizes[fixed]
  BY <1>1, StandingUnit
<1>5. /\ units' \in Seq(Unit) /\ Chain(units', mem) /\ Drained' = written
      /\ Len(units') = Len(units) + 1 /\ units'[Len(units) + 1] = u
      /\ \A i \in 1 .. Len(units) : units'[i] = units[i]
  BY <1>2, <1>4, DeliverStep
<1>6. \A i \in 1 .. Len(units') :
        (i \in 1 .. Len(units) /\ units'[i] = units[i]) \/ units'[i] = u
  BY <1>1, <1>5
<1>7. /\ handed' \in [buf : {0} \cup Buffers, n : Nat, dealt : BOOLEAN, swapped : BOOLEAN]
      /\ handed'.dealt /\ ~handed'.swapped
      /\ handed'.buf = handed.buf /\ handed'.n = handed.n
  BY <1>1, <1>3
<1>8. Dealt' /\ Cursor' = Cursor
  BY <1>1, <1>3, <1>7 DEF Dealt, Cursor, buffer
<1>9. Within'
  BY <1>1, <1>3, <1>4, <1>6 DEF Kept, Within, buffer
<1>10. LetGo' /\ Stands'
  <2>1. room' <= Cursor' /\ Cursor' <= Sizes[fixed'] /\ Drained' = written'
    BY <1>1, <1>3, <1>5, <1>8 DEF Kept, Stands, buffer
  <2> QED BY <1>8, <2>1 DEF LetGo, Stands
<1>11. HeaderRoomKept'
  <2>1. \A i \in 1 .. room : mem[fixed][i] = 0
    BY <1>1 DEF Kept, HeaderRoomKept
  <2>2. ASSUME NEW i \in 1 .. Len(units'), units'[i].buf # 0
        PROVE  \A j \in 1 .. units'[i].room : mem[units'[i].buf][j] = 0
    <3>1. CASE i \in 1 .. Len(units) /\ units'[i] = units[i]
      BY <1>1, <2>2, <3>1 DEF Kept, HeaderRoomKept
    <3>2. CASE units'[i] = u
      BY <1>4, <2>1, <2>2, <3>2
    <3> QED BY <1>6, <3>1, <3>2
  <2> QED BY <1>3, <2>1, <2>2 DEF HeaderRoomKept, buffer
<1>12. Chain(units, mem)'
  BY <1>3, <1>5 DEF buffer
<1>13. TypeOK'
  BY <1>1, <1>3, <1>5, <1>7 DEF TypeOK, buffer
<1>14. Locals'
  BY <1>1, <1>3, <1>7, <1>8 DEF Locals, buffer
<1> QED BY <1>9, <1>10, <1>11, <1>12, <1>13, <1>14 DEF IInv, Kept

(* ... may install a buffer ...                                            *)
LEMMA SinkInstallsKeeps ==
  ASSUME IInv, NEW b \in Buffers, NEW o \in 0 .. Sizes[b], SinkInstalls(b, o)
  PROVE  IInv'
<1>1. /\ TypeOK /\ Locals /\ Kept /\ Dealt /\ pc = "sink" /\ b \notin Held
      /\ Install(b, o) /\ handed' = [handed EXCEPT !.swapped = TRUE] /\ handed.dealt
      /\ UNCHANGED <<mode, pc, loop, put, written, units, overflowed>>
      /\ handed \in [buf : {0} \cup Buffers, n : Nat, dealt : BOOLEAN, swapped : BOOLEAN]
      /\ written \in Nat /\ ~overflowed
  BY DEF SinkInstalls, IInv, TypeOK, Dealt, Locals
<1>2. /\ handed' \in [buf : {0} \cup Buffers, n : Nat, dealt : BOOLEAN, swapped : BOOLEAN]
      /\ handed'.swapped /\ handed'.dealt
  BY <1>1
<1>3. ~Dealt' /\ Cursor' = cursor'
  BY <1>1, <1>2 DEF Dealt, Cursor
<1>4. Within' /\ Drained' = written' /\ written' \in Nat
  BY <1>1 DEF Kept, Within, Stands, Drained
<1>5. Chain(units', mem)
  BY <1>1 DEF Kept
<1>6. \A i \in 1 .. Len(units') : units'[i].buf # 0 =>
        /\ units'[i].buf # b
        /\ \A j \in 1 .. units'[i].room : mem[units'[i].buf][j] = 0
  BY <1>1 DEF Kept, HeaderRoomKept, Held
<1>7. Kept'
  BY <1>1, <1>3, <1>4, <1>5, <1>6, InstallStep
<1>8. /\ DOMAIN mem' = Buffers
      /\ \A d \in Buffers : mem'[d] \in [1 .. Sizes[d] -> Nat]
      /\ fixed' = b /\ cursor' = o /\ room' = o /\ flushView' = 0 /\ o \in Nat
  BY <1>1, InstallMem, SizesNat
<1>9. TypeOK'
  BY <1>1, <1>2, <1>8 DEF TypeOK
<1>10. Locals'
  BY <1>1, <1>2, <1>8 DEF Locals
<1> QED BY <1>7, <1>9, <1>10 DEF IInv

(* ... and returns or raises.                                              *)
LEMMA SinkReturnsKeeps == ASSUME IInv, SinkReturns PROVE IInv'
<1>1. /\ TypeOK /\ Locals /\ Kept /\ pc = "sink" /\ handed.dealt /\ pc' = "put"
      /\ put' = [put EXCEPT !.mv = fixed] /\ handed' = NotHanded
      /\ UNCHANGED <<mode, mem, fixed, loop, written, units, overflowed>>
      /\ put \in [mv : Buffers, left : Nat, array : BOOLEAN] /\ fixed \in Buffers
      /\ ~overflowed /\ Cursor = cursor /\ Sizes[fixed] \in Nat /\ written \in Nat
  BY SizesNat DEF SinkReturns, IInv, TypeOK, Locals, Cursor
<1>2. put' \in [mv : Buffers, left : Nat, array : BOOLEAN] /\ put'.mv = fixed
  BY <1>1
<1>3. NotHanded \in [buf : {0} \cup Buffers, n : Nat, dealt : BOOLEAN, swapped : BOOLEAN]
  BY DEF NotHanded
<1>4. ~Dealt' /\ Cursor' = cursor'
  BY <1>1 DEF Dealt, Cursor
<1>5. CASE handed.swapped
  <2>1. flushView' = 0 /\ UNCHANGED <<cursor, room>>
    BY <1>5 DEF SinkReturns
  <2>2. Dealt' = Dealt
    BY <1>1, <1>5 DEF Dealt
  <2>3. Kept'
    BY <1>1, <1>4, <2>1, <2>2, QuietStep
  <2>4. TypeOK'
    BY <1>1, <1>2, <1>3, <2>1 DEF TypeOK
  <2>5. Locals'
    BY <1>1, <1>2, <2>1 DEF Locals
  <2> QED BY <2>3, <2>4, <2>5 DEF IInv
<1>6. CASE ~handed.swapped
  <2>1. cursor' = 0 /\ room' = 0 /\ UNCHANGED flushView
    BY <1>6 DEF SinkReturns
  <2>2. Dealt /\ handed.buf = fixed /\ handed.buf \notin Held
    BY <1>1, <1>6 DEF Dealt, Locals, SinkReturns
  <2>3. Within' /\ Drained' = written' /\ Cursor' = 0 /\ written' \in Nat
    BY <1>1, <1>4, <2>1, <2>2 DEF Kept, Within, Stands, Drained
  <2>4. Chain(units', mem)
    BY <1>1 DEF Kept
  <2>5. \A i \in 1 .. Len(units') : units'[i].buf # 0 =>
          /\ units'[i].buf # fixed
          /\ \A j \in 1 .. units'[i].room : mem[units'[i].buf][j] = 0
    BY <1>1, <2>2 DEF Kept, HeaderRoomKept, Held
  <2>6. Kept'
    BY <1>1, <1>4, <2>1, <2>3, <2>4, <2>5, StartOver
  <2>7. TypeOK'
    BY <1>1, <1>2, <1>3, <2>1 DEF TypeOK
  <2>8. Locals'
    BY <1>1, <1>2, <2>1 DEF Locals
  <2> QED BY <2>6, <2>7, <2>8 DEF IInv
<1> QED BY <1>5, <1>6

LEMMA SinkRaisesKeeps == ASSUME IInv, SinkRaises PROVE IInv'
<1>1. /\ TypeOK /\ Locals /\ pc = "sink" /\ handed.dealt = handed.swapped
      /\ pc' = "idle" /\ put' = Idle /\ loop' = NoLoop /\ handed' = NotHanded
      /\ UNCHANGED <<mode, buffer, written, units, overflowed>>
      /\ fixed \in Buffers /\ ~overflowed
  BY DEF SinkRaises, IInv, TypeOK, Locals
<1>2. Cursor' = Cursor /\ Dealt' = Dealt
  BY <1>1 DEF Cursor, Dealt, buffer
<1>3. Kept'
  BY <1>1, <1>2, QuietStep DEF buffer
<1>4. /\ NotHanded \in [buf : {0} \cup Buffers, n : Nat, dealt : BOOLEAN, swapped : BOOLEAN]
      /\ Idle \in [mv : Buffers, left : Nat, array : BOOLEAN]
      /\ NoLoop \in [buf : Buffers, cursor : Nat]
  BY <1>1 DEF NotHanded, Idle, NoLoop, Buffers
<1>5. TypeOK'
  BY <1>1, <1>4 DEF TypeOK, buffer
<1>6. Locals'
  BY <1>1 DEF Locals, buffer
<1> QED BY <1>3, <1>5, <1>6 DEF IInv

(* The transport has sent a buffer: the unit is now its contents.          *)
LEMMA TransportDoneKeeps ==
  ASSUME IInv, NEW k \in 1 .. Len(units), TransportDone(k) PROVE IInv'
<1> DEFINE u == units[k]
           v == [u EXCEPT !.buf = 0, !.data = Cells(u.buf, u.room, u.hi - u.lo)]
<1>1. /\ TypeOK /\ Locals /\ Kept /\ units \in Seq(Unit) /\ u \in Unit /\ u.buf # 0
      /\ units' = [units EXCEPT ![k] = v]
      /\ UNCHANGED <<mode, buffer, pc, locals, written, overflowed>>
  BY DEF TransportDone, IInv, TypeOK
<1>2. /\ u.buf \in Buffers /\ u.room + (u.hi - u.lo) <= Sizes[u.buf]
      /\ u.lo <= u.hi /\ u.hi - u.lo \in Nat /\ u.room \in Nat
      /\ \A i \in 1 .. u.hi - u.lo : mem[u.buf][u.room + i] = u.lo + i
  <2>1. u.buf \in Buffers /\ u.room + (u.hi - u.lo) <= Sizes[u.buf]
    BY <1>1 DEF Kept, Within
  <2>2. Sound(u, mem)
    BY <1>1 DEF Kept, Chain
  <2>3. u.lo \in Nat /\ u.hi \in Nat /\ u.room \in Nat
    BY <1>1 DEF Unit
  <2>4. /\ u.lo <= u.hi
        /\ \A i \in 1 .. u.hi - u.lo : mem[u.buf][u.room + i] = u.lo + i
    BY <1>1, <2>2 DEF Sound
  <2>5. u.hi - u.lo \in Nat
    BY <2>3, <2>4
  <2> QED BY <2>1, <2>3, <2>4, <2>5
<1> DEFINE cells == Cells(u.buf, u.room, u.hi - u.lo)
<1>3. /\ cells \in Seq(Nat)
      /\ \A i \in 1 .. u.hi - u.lo : cells[i] = mem[u.buf][u.room + i]
  BY <1>1, <1>2, CellsTyped
<1>4. /\ v \in Unit /\ v.buf = 0 /\ v.lo = u.lo /\ v.hi = u.hi /\ v.room = u.room
      /\ v.data = cells
  BY <1>1, <1>3 DEF Unit
<1>5. Sound(v, mem)
  BY <1>2, <1>3, <1>4 DEF Sound
<1> HIDE DEF v, cells
<1>6. /\ units' \in Seq(Unit) /\ Len(units') = Len(units)
      /\ \A i \in 1 .. Len(units) : units'[i] = IF i = k THEN v ELSE units[i]
  BY <1>1, <1>4, ExceptSeq
<1>7. \A i \in 1 .. Len(units) : units'[i].lo = units[i].lo /\ units'[i].hi = units[i].hi
  BY <1>4, <1>6
<1>8. Chain(units', mem')
  <2>1. ASSUME NEW i \in 1 .. Len(units')
        PROVE  /\ Sound(units'[i], mem)
               /\ units'[i].lo = IF i = 1 THEN 0 ELSE units'[i - 1].hi
    <3>1. Sound(units'[i], mem)
      BY <1>1, <1>5, <1>6 DEF Kept, Chain
    <3>2. units[i].lo = IF i = 1 THEN 0 ELSE units[i - 1].hi
      BY <1>1, <1>6 DEF Kept, Chain
    <3>3. i \in 1 .. Len(units) /\ (i # 1 => i - 1 \in 1 .. Len(units))
      BY <1>1, <1>6, LenProperties
    <3> QED BY <1>7, <3>1, <3>2, <3>3
  <2> QED BY <1>1, <2>1 DEF Chain, buffer
<1>9. \A i \in 1 .. Len(units') : units'[i].buf # 0 => i \in 1 .. Len(units) /\ units'[i] = units[i]
  BY <1>4, <1>6
<1>10. Cursor' = Cursor /\ Dealt' = Dealt
  BY <1>1 DEF Cursor, Dealt, buffer, locals
<1>11. Drained' = Drained
  <2>1. CASE units = <<>>
    BY <2>1
  <2>2. CASE units # <<>>
    <3>1. Len(units) \in 1 .. Len(units) /\ units' # <<>>
      BY <1>1, <1>6, <2>2, EmptySeq, LenProperties
    <3> QED BY <1>6, <1>7, <2>2, <3>1 DEF Drained
  <2> QED BY <2>1, <2>2
<1>12. Within' /\ LetGo' /\ HeaderRoomKept'
  <2>1. Within'
    BY <1>1, <1>9 DEF Kept, Within
  <2>2. Held' \subseteq Held \cup {0}
    BY <1>9 DEF Held
  <2>3. fixed' = fixed /\ fixed # 0
    BY <1>1 DEF buffer, TypeOK, Buffers
  <2>4. LetGo'
    BY <1>1, <1>10, <2>2, <2>3 DEF Kept, LetGo
  <2>5. HeaderRoomKept'
    BY <1>1, <1>9 DEF Kept, HeaderRoomKept, buffer
  <2> QED BY <2>1, <2>4, <2>5
<1>13. Stands'
  BY <1>1, <1>10, <1>11 DEF Kept, Stands, buffer
<1>14. TypeOK'
  BY <1>1, <1>6 DEF TypeOK, buffer, locals
<1>15. Locals'
  BY <1>1, <1>10 DEF Locals, buffer, locals
<1> QED BY <1>8, <1>12, <1>13, <1>14, <1>15 DEF IInv, Kept

(* A step that changes nothing.                                            *)
LEMMA StutterKeeps == ASSUME IInv, UNCHANGED vars PROVE IInv'
<1>1. UNCHANGED <<mode, mem, fixed, cursor, flushView, pc, loop, put, handed, room,
                  written, units, overflowed>>
  BY DEF vars, buffer, locals
<1>2. Cursor' = Cursor /\ Dealt' = Dealt
  BY <1>1 DEF Cursor, Dealt
<1>3. Kept'
  BY <1>1, <1>2, QuietStep
<1>4. TypeOK'
  BY <1>1 DEF IInv, TypeOK
<1>5. Locals'
  BY <1>1, <1>2 DEF IInv, Locals
<1> QED BY <1>3, <1>4, <1>5 DEF IInv

LEMMA NextKeeps == ASSUME IInv, [Next]_vars PROVE IInv'
<1>1. \A n \in 0 .. MaxBytes : n \in Nat
  BY StreamBounds
<1>2. CASE \E n \in 0 .. MaxBytes : Varint(n) \/ Run(n) \/ LongRun(n) \/ Element(n)
  BY <1>1, <1>2, VarintKeeps, RunKeeps, LongRunKeeps, ElementKeeps
<1>3. CASE ArrayLoop \/ LeaveArray \/ PutSome \/ PutDone \/ NoRoom \/ PutDrains \/ Flush
  BY <1>3, ArrayKeeps, PutSomeKeeps, PutDoneKeeps, NoRoomKeeps, DrainKeeps
<1>4. CASE \E b \in Buffers : \E o \in 0 .. Sizes[b] : CallerInstalls(b, o) \/ SinkInstalls(b, o)
  BY <1>4, CallerInstallsKeeps, SinkInstallsKeeps
<1>5. CASE SinkCopies \/ SinkTakes \/ SinkReturns \/ SinkRaises
  BY <1>5, SinkDealsKeeps, SinkReturnsKeeps, SinkRaisesKeeps
<1>6. CASE \E i \in 1 .. Len(units) : TransportDone(i)
  BY <1>6, TransportDoneKeeps
<1>7. CASE UNCHANGED vars
  BY <1>7, StutterKeeps
<1> QED BY <1>2, <1>3, <1>4, <1>5, <1>6, <1>7 DEF Next

-----------------------------------------------------------------------------
(* The invariant holds in every reachable state of Encoder's byte path.    *)
THEOREM Invariance == Spec => []IInv
BY InitHolds, NextKeeps, PTL DEF Spec

(* Encoder's buffer, cursor, kept view and locals keep their types.        *)
THEOREM TypeCorrect == Spec => []TypeOK
<1>1. IInv => TypeOK
  BY DEF IInv
<1> QED BY Invariance, <1>1, PTL

(* _put, _drain, the array writers and buffer_set lose, repeat and         *)
(* overwrite no byte, for any buffers, offsets, writes and sinks.          *)
THEOREM StreamAlwaysIntact == Spec => []StreamIntact
<1>1. IInv => StreamIntact
  BY ChainIsStream
<1> QED BY Invariance, <1>1, PTL

(* buffer_set's header room is never written by the encoder.               *)
THEOREM HeaderRoomAlwaysKept == Spec => []HeaderRoomKept
<1>1. IInv => HeaderRoomKept
  BY DEF IInv, Kept
<1> QED BY Invariance, <1>1, PTL

(* Without a sink, a write is refused only when the buffer is full.        *)
THEOREM FilledBeforeRefused == Spec => []FullToTheLastByte
<1>1. IInv => FullToTheLastByte
  BY DEF IInv, Locals, FullToTheLastByte
<1> QED BY Invariance, <1>1, PTL
=============================================================================
