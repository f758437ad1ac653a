------------------------- MODULE LazyFraming_proofs -------------------------
(***************************************************************************)
(* Theorems about LazyFraming for every depth, every series of calls and   *)
(* every moment a flush sink runs.                                         *)
(*                                                                         *)
(* IInv: how calls and sinks nest.  begin_lazy compares _depth with        *)
(* MAX_DEPTH and stores into slot _npending unchecked; that this is enough *)
(* follows frame by frame, however deep sinks re-enter.                    *)
(*                                                                         *)
(* Meant, HeldBack: between the caller's calls the pending run is the      *)
(* innermost open sequences, those with nothing in them.                   *)
(*                                                                         *)
(* CallsMade, WireKept: what each call under way has still to write, and   *)
(* that it and the wire hold everything due, in order.  This takes sinks   *)
(* that open one sequence at a time: a second one stores over a slot that  *)
(* a call below has not read.                                              *)
(***************************************************************************)
EXTENDS LazyFraming, TLAPS, SequenceTheorems, FiniteSetTheorems, FunctionTheorems

(* The calls under way: a sink runs inside a call, at the depth the call   *)
(* began with, and a call of the sink's begins no lower; an end is of a    *)
(* sequence opened since.                                                  *)
CallFits(f) ==
  /\ f.n <= MaxDepth /\ f.next >= 1
  /\ \A t \in f.fetched : t.what \in {"start", f.op}

Nested(i) ==
  IF frames[i].op = "sink"
  THEN i > 1 /\ frames[i - 1].op # "sink" /\ frames[i].at = frames[i - 1].at
  ELSE /\ CallFits(frames[i])
       /\ i > 1 => frames[i - 1].op = "sink" /\ frames[i - 1].at <= frames[i].at
       /\ frames[i].op = "end" =>
            frames[i].at > 0 /\ (i > 1 => frames[i - 1].at < frames[i].at)

(* Nothing is held back while a call writes; what a sink holds back are    *)
(* sequences it opened itself.                                             *)
HeldByTop ==
  /\ InCall => npending = 0 /\ depth = Top.at
  /\ InSink => Top.at + npending <= depth

IInv ==
  /\ TypeOK
  /\ \A i \in 1 .. Len(frames) : Nested(i)
  /\ HeldByTop
  /\ npending <= depth /\ depth <= MaxDepth

-----------------------------------------------------------------------------
(* The stack.                                                              *)

LEMMA FrameKinds ==
  ASSUME TypeOK, NEW i \in 1 .. Len(frames)
  PROVE  /\ frames[i].op = "sink" => frames[i] \in SinkFrame
         /\ frames[i].op # "sink" => frames[i] \in Frame
         /\ frames[i].at \in Nat
<1>1. frames[i] \in Frame \cup SinkFrame
  BY ElementOfSeq DEF TypeOK
<1> QED BY <1>1 DEF Frame, SinkFrame

LEMMA TopFrame ==
  ASSUME TypeOK, frames # <<>>
  PROVE  /\ Len(frames) \in Nat /\ Len(frames) >= 1 /\ Len(frames) \in 1 .. Len(frames)
         /\ Top = frames[Len(frames)] /\ (Top.op = "sink" <=> InSink) /\ (Top.op # "sink" <=> InCall)
<1>1. Len(frames) \in Nat /\ frames \in Seq(Frame \cup SinkFrame)
  BY LenProperties DEF TypeOK
<1>2. Len(frames) # 0
  BY <1>1, EmptySeq
<1> QED BY <1>1, <1>2 DEF Top, InSink, InCall

(* A frame is pushed, the top one replaced or popped.                      *)
LEMMA StackPush ==
  ASSUME TypeOK, NEW f, Push(f), f \in Frame \cup SinkFrame
  PROVE  /\ frames' \in Seq(Frame \cup SinkFrame)
         /\ Len(frames) \in Nat /\ Len(frames') = Len(frames) + 1 /\ frames' # <<>>
         /\ \A i \in 1 .. Len(frames) : frames'[i] = frames[i]
         /\ frames'[Len(frames) + 1] = f
<1>1. frames \in Seq(Frame \cup SinkFrame)
  BY DEF TypeOK
<1>2. /\ frames' \in Seq(Frame \cup SinkFrame)
      /\ Len(frames) \in Nat /\ Len(frames') = Len(frames) + 1
      /\ \A i \in 1 .. Len(frames) : frames'[i] = frames[i]
      /\ frames'[Len(frames) + 1] = f
  BY <1>1, AppendProperties, LenProperties DEF Push
<1>3. frames' # <<>>
  BY <1>2, EmptySeq
<1> QED BY <1>2, <1>3

LEMMA StackStep ==
  ASSUME TypeOK, frames # <<>>, NEW f, f \in Frame, frames' = [frames EXCEPT ![Len(frames)] = f]
  PROVE  /\ frames' \in Seq(Frame \cup SinkFrame)
         /\ Len(frames) \in Nat /\ Len(frames) >= 1 /\ Len(frames') = Len(frames) /\ frames' # <<>>
         /\ \A i \in 1 .. Len(frames) : frames'[i] = IF i = Len(frames) THEN f ELSE frames[i]
<1>1. frames \in Seq(Frame \cup SinkFrame) /\ Len(frames) \in Nat /\ Len(frames) >= 1
  BY TopFrame DEF TypeOK
<1>2. /\ frames' \in Seq(Frame \cup SinkFrame) /\ Len(frames') = Len(frames)
      /\ \A i \in 1 .. Len(frames) : frames'[i] = IF i = Len(frames) THEN f ELSE frames[i]
  BY <1>1, ExceptSeq
<1>3. frames' # <<>>
  BY <1>1, <1>2, EmptySeq
<1> QED BY <1>1, <1>2, <1>3

LEMMA StackPop ==
  ASSUME TypeOK, frames # <<>>, frames' = Popped
  PROVE  /\ frames' \in Seq(Frame \cup SinkFrame)
         /\ Len(frames) \in Nat /\ Len(frames) >= 1 /\ Len(frames') = Len(frames) - 1
         /\ frames' = <<>> <=> Len(frames) = 1
         /\ \A i \in 1 .. Len(frames) - 1 : frames'[i] = frames[i]
<1>1. Len(frames) \in Nat /\ Len(frames) >= 1
  BY TopFrame
<1>2. PICK n \in Nat : n = Len(frames) - 1
  <2>1. Len(frames) - 1 \in Nat
    BY <1>1
  <2> QED BY <2>1
<1>3. frames \in Seq(Frame \cup SinkFrame) /\ Popped = SubSeq(frames, 1, n)
  BY <1>2 DEF TypeOK, Popped
<1>4. \A i \in 1 .. n : frames[i] \in Frame \cup SinkFrame
  <2>1. \A i \in 1 .. n : i \in 1 .. Len(frames)
    BY <1>1, <1>2
  <2> QED BY <1>3, <2>1, ElementOfSeq
<1>5. /\ SubSeq(frames, 1, n) \in Seq(Frame \cup SinkFrame)
      /\ Len(SubSeq(frames, 1, n)) = IF 1 <= n THEN n - 1 + 1 ELSE 0
      /\ \A i \in 1 .. n - 1 + 1 : SubSeq(frames, 1, n)[i] = frames[1 + i - 1]
  BY <1>1, <1>2, <1>3, <1>4, SubSeqProperties
<1>6. frames' \in Seq(Frame \cup SinkFrame)
  BY <1>3, <1>5
<1>7. Len(frames') = n
  <2>1. Len(SubSeq(frames, 1, n)) = n
    BY <1>5
  <2> QED BY <1>3, <2>1
<1>8. ASSUME NEW i \in 1 .. n PROVE frames'[i] = frames[i]
  <2>1. i \in 1 .. n - 1 + 1 /\ 1 + i - 1 = i
    OBVIOUS
  <2> QED BY <1>3, <1>5, <2>1
<1>9. frames' = <<>> <=> Len(frames) = 1
  BY <1>1, <1>2, <1>6, <1>7, EmptySeq
<1> QED BY <1>1, <1>2, <1>6, <1>7, <1>8, <1>9

LEMMA PushFrame ==
  ASSUME TypeOK, \A i \in 1 .. Len(frames) : Nested(i),
         NEW f \in Frame \cup SinkFrame, Push(f),
         IF f.op = "sink" THEN InCall /\ f.at = Top.at
         ELSE /\ CallFits(f) /\ ~InCall
              /\ InSink => Top.at <= f.at /\ (f.op = "end" => Top.at < f.at)
              /\ f.op = "end" => f.at > 0
  PROVE  /\ frames' \in Seq(Frame \cup SinkFrame) /\ \A i \in 1 .. Len(frames') : Nested(i)'
         /\ Top' = f /\ frames' # <<>>
<1>1. /\ frames' \in Seq(Frame \cup SinkFrame) /\ Len(frames) \in Nat
      /\ Len(frames') = Len(frames) + 1
      /\ \A i \in 1 .. Len(frames) : frames'[i] = frames[i]
      /\ frames'[Len(frames) + 1] = f
  BY StackPush
<1>2. frames = <<>> => Len(frames) = 0
  BY EmptySeq
<1>3. ASSUME NEW i \in 1 .. Len(frames') PROVE Nested(i)'
  <2>1. CASE i \in 1 .. Len(frames)
    <3>1. Nested(i) /\ frames'[i] = frames[i] /\ (i > 1 => i - 1 \in 1 .. Len(frames))
      BY <1>1, <2>1
    <3>2. i > 1 => frames'[i - 1] = frames[i - 1]
      BY <1>1, <3>1
    <3> QED BY <3>1, <3>2 DEF Nested, CallFits
  <2>2. CASE i = Len(frames) + 1
    <3>1. frames'[i] = f
      BY <1>1, <2>2
    <3>2. Len(frames) > 0 => /\ frames'[i - 1] = Top /\ i > 1
                             /\ (Top.op = "sink" <=> InSink) /\ (Top.op # "sink" <=> InCall)
      BY <1>1, <2>2, TopFrame DEF Top
    <3>3. Len(frames) = 0 => ~(i > 1) /\ frames = <<>>
      BY <1>1, <2>2, EmptySeq DEF TypeOK
    <3>4. CASE f.op = "sink"
      BY <1>1, <1>2, <3>1, <3>2, <3>4, TopFrame DEF Nested, InCall
    <3>5. CASE f.op # "sink"
      BY <1>1, <1>2, <3>1, <3>2, <3>3, <3>5 DEF Nested, CallFits, InCall, InSink
    <3> QED BY <3>4, <3>5
  <2> QED BY <1>1, <2>1, <2>2
<1>4. Top' = f /\ frames' # <<>>
  BY <1>1, EmptySeq DEF Top
<1> QED BY <1>1, <1>3, <1>4

LEMMA PopFrame ==
  ASSUME TypeOK, \A i \in 1 .. Len(frames) : Nested(i), frames # <<>>, frames' = Popped
  PROVE  /\ frames' \in Seq(Frame \cup SinkFrame) /\ \A i \in 1 .. Len(frames') : Nested(i)'
         /\ Len(frames') = Len(frames) - 1
         /\ frames' # <<>> => Len(frames) > 1 /\ Top' = frames[Len(frames) - 1]
<1>1. Len(frames) \in Nat /\ Len(frames) >= 1 /\ frames \in Seq(Frame \cup SinkFrame)
  BY TopFrame DEF TypeOK
<1>2. /\ frames' \in Seq(Frame \cup SinkFrame) /\ Len(frames') = Len(frames) - 1
      /\ \A i \in 1 .. Len(frames) - 1 : frames'[i] = frames[i]
  BY StackPop
<1>3. ASSUME NEW i \in 1 .. Len(frames') PROVE Nested(i)'
  <2>1. i \in 1 .. Len(frames) - 1 /\ i \in 1 .. Len(frames) /\ (i > 1 => i - 1 \in 1 .. Len(frames) - 1)
    BY <1>1, <1>2
  <2>2. Nested(i) /\ frames'[i] = frames[i] /\ (i > 1 => frames'[i - 1] = frames[i - 1])
    BY <1>2, <2>1
  <2> QED BY <2>2 DEF Nested, CallFits
<1>4. frames' # <<>> => Len(frames) > 1 /\ Top' = frames[Len(frames) - 1]
  <2> SUFFICES ASSUME frames' # <<>> PROVE Len(frames) > 1 /\ Top' = frames[Len(frames) - 1]
    OBVIOUS
  <2>1. Len(frames') # 0
    BY <1>2, EmptySeq
  <2>2. Len(frames) - 1 \in 1 .. Len(frames) - 1
    BY <1>1, <1>2, <2>1
  <2> QED BY <1>1, <1>2, <2>1, <2>2 DEF Top
<1> QED BY <1>2, <1>3, <1>4

(* The call on top reads or writes a token.                                *)
LEMMA StepTop ==
  ASSUME TypeOK, \A i \in 1 .. Len(frames) : Nested(i), InCall,
         NEW f \in Frame, frames' = [frames EXCEPT ![Len(frames)] = f],
         CallFits(f), f.op = Top.op, f.at = Top.at
  PROVE  /\ frames' \in Seq(Frame \cup SinkFrame) /\ \A i \in 1 .. Len(frames') : Nested(i)'
         /\ Top' = f /\ frames' # <<>>
<1>1. /\ Len(frames) \in Nat /\ Len(frames) >= 1 /\ Len(frames) \in 1 .. Len(frames)
      /\ frames \in Seq(Frame \cup SinkFrame) /\ Top.op # "sink" /\ Top = frames[Len(frames)]
  BY TopFrame DEF TypeOK, InCall
<1>2. /\ frames' \in Seq(Frame \cup SinkFrame) /\ Len(frames') = Len(frames)
      /\ \A i \in 1 .. Len(frames) : frames'[i] = IF i = Len(frames) THEN f ELSE frames[i]
  BY <1>1, StackStep
<1>3. ASSUME NEW i \in 1 .. Len(frames') PROVE Nested(i)'
  <2>1. Nested(i) /\ i \in 1 .. Len(frames) /\ (i > 1 => i - 1 \in 1 .. Len(frames) /\ i - 1 # Len(frames))
    BY <1>1, <1>2
  <2>2. i > 1 => frames'[i - 1] = frames[i - 1]
    BY <1>2, <2>1
  <2>3. CASE i = Len(frames)
    <3>1. frames'[i] = f /\ f.op # "sink" /\ frames[i].op = f.op /\ frames[i].at = f.at
      BY <1>1, <1>2, <2>3
    <3> QED BY <2>1, <2>2, <3>1 DEF Nested, CallFits
  <2>4. CASE i # Len(frames)
    BY <1>2, <2>1, <2>2, <2>4 DEF Nested, CallFits
  <2> QED BY <2>3, <2>4
<1>4. Top' = f /\ frames' # <<>>
  BY <1>1, <1>2, EmptySeq DEF Top
<1> QED BY <1>2, <1>3, <1>4

-----------------------------------------------------------------------------
(* The calls.                                                              *)

LEMMA LevelTyped ==
  ASSUME TypeOK
  PROVE  Level \in Nat /\ Call \in Nat
<1>1. Len(frames) \in Nat /\ Len(log) \in Nat
  BY LenProperties DEF TypeOK
<1>2. IsFiniteSet({i \in 1 .. Len(frames) : frames[i].op = "sink"})
  <2>1. IsFiniteSet(1 .. Len(frames))
    BY <1>1, FS_Interval
  <2> QED BY <2>1, FS_Subset
<1> QED BY <1>1, <1>2, FS_CardinalityType DEF Level, Call

LEMMA LoggedTyped ==
  ASSUME TypeOK, NEW op \in {"begin", "field", "end", "keep"}, Logged(op)
  PROVE  log' \in Seq([op : {"begin", "field", "end", "keep"}, level : Nat])
<1>1. [op |-> op, level |-> Level] \in [op : {"begin", "field", "end", "keep"}, level : Nat]
  BY LevelTyped
<1>2. log \in Seq([op : {"begin", "field", "end", "keep"}, level : Nat])
  BY DEF TypeOK
<1> QED BY <1>1, <1>2, AppendProperties DEF Logged

(* Where the caller or the sink calls from: with no call under way, what   *)
(* is held back lies above the floor.                                      *)
LEMMA CallSite ==
  ASSUME IInv, Callable
  PROVE  /\ npending \in Nat /\ depth \in Nat /\ Floor \in Nat /\ ~InCall /\ ~failed
         /\ Floor + npending <= depth /\ depth <= MaxDepth
         /\ InSink => Top.at = Floor
         /\ cur \in {0, 1} /\ lists \in [{0, 1} -> [1 .. MaxDepth -> Nat]]
<1>1. npending \in Nat /\ depth \in Nat /\ ~InCall /\ ~failed
  BY DEF IInv, TypeOK, Callable
<1>2. InSink => Top.at \in Nat
  <2>1. InSink => frames # <<>>
    BY DEF InSink
  <2> QED BY <2>1, TopFrame, FrameKinds DEF IInv
<1> QED BY <1>1, <1>2 DEF IInv, TypeOK, HeldByTop, Floor

LEMMA BeginInv ==
  ASSUME IInv, Begin
  PROVE  IInv'
<1>1. /\ npending \in Nat /\ depth \in Nat /\ ~InCall /\ npending <= depth /\ depth < MaxDepth
      /\ cur \in {0, 1} /\ lists \in [{0, 1} -> [1 .. MaxDepth -> Nat]]
  BY CallSite DEF Begin, IInv
<1>2. /\ lists' = [lists EXCEPT ![cur][npending + 1] = Call] /\ npending' = npending + 1
      /\ depth' = depth + 1 /\ Logged("begin") /\ UNCHANGED <<cur, frames, failed, out, drains>>
  BY DEF Begin
<1>3. MaxDepth \in Nat /\ npending + 1 \in 1 .. MaxDepth
  BY <1>1, DepthAssumption
<1>4. lists' \in [{0, 1} -> [1 .. MaxDepth -> Nat]]
  BY <1>1, <1>2, <1>3, LevelTyped DEF IInv
<1>5. TypeOK'
  BY <1>1, <1>2, <1>4, LoggedTyped DEF IInv, TypeOK
<1>6. \A i \in 1 .. Len(frames') : Nested(i)'
  BY <1>2 DEF IInv, Nested, CallFits
<1>7. HeldByTop'
  <2>1. InSink => Top.at \in Nat
    BY TopFrame, FrameKinds DEF IInv, InSink
  <2> QED BY <1>1, <1>2, <2>1 DEF IInv, HeldByTop, InCall, InSink, Top
<1> QED BY <1>1, <1>2, <1>3, <1>5, <1>6, <1>7 DEF IInv

LEMMA DropInv ==
  ASSUME IInv, DropEmpty
  PROVE  IInv'
<1>1. /\ npending \in Nat /\ depth \in Nat /\ ~InCall /\ npending <= depth /\ depth <= MaxDepth
      /\ npending > 0 /\ MaxDepth \in Nat
  BY CallSite, DepthAssumption DEF DropEmpty, IInv
<1>2. /\ npending' = npending - 1 /\ depth' = depth - 1 /\ Logged("end")
      /\ UNCHANGED <<lists, cur, frames, failed, out, drains>>
  BY DEF DropEmpty
<1>3. TypeOK'
  BY <1>1, <1>2, LoggedTyped DEF IInv, TypeOK
<1>4. \A i \in 1 .. Len(frames') : Nested(i)'
  BY <1>2 DEF IInv, Nested, CallFits
<1>5. HeldByTop'
  <2>1. InSink => Top.at \in Nat
    BY TopFrame, FrameKinds DEF IInv, InSink
  <2> QED BY <1>1, <1>2, <2>1 DEF IInv, HeldByTop, InCall, InSink, Top
<1> QED BY <1>1, <1>2, <1>3, <1>4, <1>5 DEF IInv

(* A call that writes: it takes the whole run with it.                     *)
LEMMA CommitInv ==
  ASSUME IInv, Callable, NEW op \in {"field", "end"}, Commit(op),
         op = "end" => depth > Floor,
         NEW name \in {"field", "end", "keep"}, Logged(name)
  PROVE  IInv'
<1> DEFINE f == [op |-> op, call |-> Call, run |-> cur, n |-> npending, next |-> 1,
                 fetched |-> {}, at |-> depth]
<1>1. /\ npending \in Nat /\ depth \in Nat /\ Floor \in Nat /\ ~InCall /\ npending <= depth
      /\ Floor + npending <= depth /\ depth <= MaxDepth /\ MaxDepth \in Nat
      /\ InSink => Top.at = Floor
      /\ cur \in {0, 1} /\ lists \in [{0, 1} -> [1 .. MaxDepth -> Nat]]
  BY CallSite, DepthAssumption DEF IInv
<1>2. /\ Push(f) /\ UNCHANGED <<lists, depth, failed, out, drains>>
      /\ npending' = 0 /\ cur' \in {0, 1}
  BY <1>1 DEF Commit
<1>3. f \in Frame /\ f.op = op /\ f.op # "sink" /\ f.at = depth /\ CallFits(f)
  BY <1>1, LevelTyped DEF Frame, CallFits, IInv
<1> HIDE DEF f
<1>4. /\ InSink => Top.at <= f.at /\ (f.op = "end" => Top.at < f.at)
      /\ f.op = "end" => f.at > 0
  BY <1>1, <1>3
<1>5. /\ frames' \in Seq(Frame \cup SinkFrame) /\ \A i \in 1 .. Len(frames') : Nested(i)'
      /\ Top' = f /\ frames' # <<>>
  BY <1>1, <1>2, <1>3, <1>4, PushFrame DEF IInv
<1>6. TypeOK'
  BY <1>1, <1>2, <1>5, LoggedTyped DEF IInv, TypeOK
<1>7. HeldByTop'
  BY <1>2, <1>3, <1>5 DEF HeldByTop, InCall, InSink
<1> QED BY <1>1, <1>2, <1>5, <1>6, <1>7 DEF IInv

-----------------------------------------------------------------------------
(* Writing.                                                                *)

(* The frame on top after a token is fetched, and after one is written.    *)
LEMMA FetchStep ==
  ASSUME IInv, Fetch
  PROVE  \E f \in Frame :
           /\ frames' = [frames EXCEPT ![Len(frames)] = f]
           /\ f.op = Top.op /\ f.call = Top.call /\ f.run = Top.run /\ f.n = Top.n /\ f.at = Top.at
           /\ f.next = Top.next + 1 /\ f.fetched = {Token}
           /\ Token \in Tokens /\ Token.what \in {"start", Top.op}
<1>1. /\ InCall /\ frames' = [frames EXCEPT ![Len(frames)].fetched = {Token},
                                            ![Len(frames)].next = @ + 1]
  BY DEF Fetch
<1>2. /\ Len(frames) \in 1 .. Len(frames) /\ Top = frames[Len(frames)] /\ Top.op # "sink"
      /\ frames \in Seq(Frame \cup SinkFrame)
  BY <1>1, TopFrame DEF InCall, IInv, TypeOK
<1>3. Top \in Frame /\ CallFits(Top)
  BY <1>2, FrameKinds DEF IInv, Nested
<1>4. Token \in Tokens /\ Token.what \in {"start", Top.op}
  <2>1. Top.next \in Nat /\ Top.n \in Nat /\ Top.run \in {0, 1} /\ Top.call \in Nat
        /\ Top.op \in {"field", "end"} /\ Top.next >= 1 /\ Top.n <= MaxDepth /\ MaxDepth \in Nat
    BY <1>3, DepthAssumption DEF Frame, CallFits
  <2>2. Top.next <= Top.n => lists[Top.run][Top.next] \in Nat
    BY <2>1 DEF IInv, TypeOK
  <2> QED BY <2>1, <2>2 DEF Token, Tokens
<1>5. PICK f : f = [op |-> Top.op, call |-> Top.call, run |-> Top.run, n |-> Top.n,
                    next |-> Top.next + 1, fetched |-> {Token}, at |-> Top.at]
  OBVIOUS
<1>6. f \in Frame
  <2>1. Top.next + 1 \in Nat /\ {Token} \in SUBSET Tokens
    BY <1>3, <1>4 DEF Frame
  <2> QED BY <1>3, <1>5, <2>1 DEF Frame
<1>7. [Top EXCEPT !.fetched = {Token}, !.next = @ + 1] = f
  <2>1. PICK w : w = [Top EXCEPT !.fetched = {Token}]
    OBVIOUS
  <2>2. w = [op |-> Top.op, call |-> Top.call, run |-> Top.run, n |-> Top.n,
             next |-> Top.next, fetched |-> {Token}, at |-> Top.at]
    BY <1>3, <2>1 DEF Frame
  <2>3. [w EXCEPT !.next = Top.next + 1] = f
    BY <1>5, <2>2
  <2> QED BY <2>1, <2>3
<1>8. frames' = [frames EXCEPT ![Len(frames)] = f]
  BY <1>1, <1>2, <1>7
<1> QED BY <1>4, <1>5, <1>6, <1>8

LEMMA WriteStep ==
  ASSUME IInv, Write
  PROVE  \E t \in Top.fetched :
           /\ out' = Append(out, t) /\ t \in Tokens /\ t.what \in {"start", Top.op}
           /\ \/ /\ t.what = "start" /\ depth' = depth
                 /\ \E f \in Frame :
                      /\ frames' = [frames EXCEPT ![Len(frames)] = f]
                      /\ f.op = Top.op /\ f.call = Top.call /\ f.run = Top.run /\ f.n = Top.n
                      /\ f.at = Top.at /\ f.next = Top.next /\ f.fetched = {}
              \/ /\ t.what = Top.op /\ t.what # "start" /\ frames' = Popped
                 /\ depth' = IF Top.op = "end" THEN depth - 1 ELSE depth
<1>1. InCall /\ frames # <<>> /\ Top.op # "sink"
  BY DEF Write, InCall
<1>2. /\ Len(frames) \in 1 .. Len(frames) /\ Top = frames[Len(frames)]
  BY <1>1, TopFrame DEF IInv
<1>3. Top \in Frame /\ CallFits(Top)
  BY <1>1, <1>2, FrameKinds DEF IInv, Nested
<1>4. PICK t \in Top.fetched :
        /\ out' = Append(out, t)
        /\ \/ /\ t.what = "start"
              /\ frames' = [frames EXCEPT ![Len(frames)].fetched = {}]
              /\ UNCHANGED depth
           \/ /\ t.what # "start"
              /\ frames' = Popped
              /\ depth' = IF t.what = "end" THEN depth - 1 ELSE depth
  BY DEF Write
<1>5. t \in Tokens /\ t.what \in {"start", Top.op}
  BY <1>3, <1>4 DEF Frame, CallFits
<1>6. PICK f : f = [op |-> Top.op, call |-> Top.call, run |-> Top.run, n |-> Top.n,
                    next |-> Top.next, fetched |-> {}, at |-> Top.at]
  OBVIOUS
<1>7. f \in Frame /\ [Top EXCEPT !.fetched = {}] = f
  BY <1>3, <1>6 DEF Frame
<1>8. frames' = [frames EXCEPT ![Len(frames)].fetched = {}] => frames' = [frames EXCEPT ![Len(frames)] = f]
  BY <1>2, <1>7
<1> QED BY <1>4, <1>5, <1>6, <1>7, <1>8

LEMMA FetchInv ==
  ASSUME IInv, Fetch
  PROVE  IInv'
<1>1. /\ InCall /\ UNCHANGED <<lists, cur, npending, depth, failed, log, out, drains>>
  BY DEF Fetch, held
<1>2. PICK f \in Frame :
        /\ frames' = [frames EXCEPT ![Len(frames)] = f]
        /\ f.op = Top.op /\ f.n = Top.n /\ f.at = Top.at /\ f.next = Top.next + 1
        /\ \A t \in f.fetched : t.what \in {"start", Top.op}
  BY FetchStep
<1>3. Top.op # "sink" /\ Top \in Frame /\ CallFits(Top)
  BY <1>1, TopFrame, FrameKinds DEF InCall, IInv, Nested
<1>4. CallFits(f)
  BY <1>2, <1>3 DEF CallFits, Frame
<1>5. /\ frames' \in Seq(Frame \cup SinkFrame) /\ \A i \in 1 .. Len(frames') : Nested(i)'
      /\ Top' = f /\ frames' # <<>>
  BY <1>1, <1>2, <1>4, StepTop DEF IInv
<1>6. TypeOK'
  BY <1>1, <1>5 DEF IInv, TypeOK
<1>7. HeldByTop'
  BY <1>1, <1>2, <1>3, <1>5 DEF IInv, HeldByTop, InCall, InSink
<1> QED BY <1>1, <1>5, <1>6, <1>7 DEF IInv

LEMMA DrainInv ==
  ASSUME IInv, Drain
  PROVE  IInv'
<1> DEFINE f == [op |-> "sink", at |-> depth]
<1>1. /\ InCall /\ Push(f) /\ drains' = drains + 1
      /\ UNCHANGED <<lists, cur, npending, depth, failed, log, out>>
  BY DEF Drain, held
<1>2. f \in SinkFrame /\ f.op = "sink" /\ f.at = depth /\ npending = 0 /\ depth = Top.at
      /\ depth \in Nat
  BY <1>1 DEF SinkFrame, IInv, TypeOK, HeldByTop
<1> HIDE DEF f
<1>3. /\ frames' \in Seq(Frame \cup SinkFrame) /\ \A i \in 1 .. Len(frames') : Nested(i)'
      /\ Top' = f /\ frames' # <<>>
  BY <1>1, <1>2, PushFrame DEF IInv
<1>4. TypeOK'
  BY <1>1, <1>3 DEF IInv, TypeOK
<1>5. HeldByTop'
  BY <1>1, <1>2, <1>3 DEF HeldByTop, InCall, InSink
<1> QED BY <1>1, <1>3, <1>4, <1>5 DEF IInv

LEMMA SinkReturnsInv ==
  ASSUME IInv, SinkReturns
  PROVE  IInv'
<1>1. /\ InSink /\ depth = Top.at /\ frames' = Popped /\ frames # <<>> /\ Top.op = "sink"
      /\ UNCHANGED <<lists, cur, npending, depth, failed, log, out, drains>>
  BY DEF SinkReturns, Floor, InSink, held
<1>2. /\ Len(frames) \in Nat /\ Len(frames) \in 1 .. Len(frames) /\ Top = frames[Len(frames)]
      /\ Len(frames) >= 1 /\ npending \in Nat /\ depth \in Nat
  BY <1>1, TopFrame DEF IInv, TypeOK
<1>3. /\ Len(frames) > 1 /\ frames[Len(frames) - 1].op # "sink"
      /\ frames[Len(frames) - 1].at = depth
  BY <1>1, <1>2 DEF IInv, Nested
<1>4. /\ frames' \in Seq(Frame \cup SinkFrame) /\ \A i \in 1 .. Len(frames') : Nested(i)'
      /\ frames' # <<>> => Top' = frames[Len(frames) - 1]
  BY <1>1, PopFrame DEF IInv
<1>5. npending = 0
  BY <1>1, <1>2 DEF IInv, HeldByTop
<1>6. TypeOK'
  BY <1>1, <1>4 DEF IInv, TypeOK
<1>7. HeldByTop'
  BY <1>1, <1>3, <1>4, <1>5 DEF HeldByTop, InCall, InSink
<1> QED BY <1>1, <1>4, <1>6, <1>7 DEF IInv

LEMMA WriteInv ==
  ASSUME IInv, Write
  PROVE  IInv'
<1>1. /\ InCall /\ UNCHANGED <<lists, cur, npending, failed, log, drains>>
      /\ frames # <<>> /\ Top.op # "sink" /\ npending = 0 /\ depth = Top.at
  BY DEF Write, held, InCall, IInv, HeldByTop
<1>2. /\ Len(frames) \in Nat /\ Len(frames) \in 1 .. Len(frames) /\ Top = frames[Len(frames)]
      /\ Len(frames) >= 1 /\ depth \in Nat /\ MaxDepth \in Nat /\ depth <= MaxDepth
  BY <1>1, TopFrame, DepthAssumption DEF IInv, TypeOK
<1>3. Top \in Frame /\ CallFits(Top) /\ Nested(Len(frames))
  BY <1>1, <1>2, FrameKinds DEF IInv, Nested
<1>4. PICK t \in Tokens :
        /\ out' = Append(out, t)
        /\ \/ /\ depth' = depth
              /\ \E f \in Frame :
                   /\ frames' = [frames EXCEPT ![Len(frames)] = f]
                   /\ f.op = Top.op /\ f.n = Top.n /\ f.at = Top.at /\ f.next = Top.next
                   /\ f.fetched = {}
           \/ frames' = Popped /\ depth' = IF Top.op = "end" THEN depth - 1 ELSE depth
  BY WriteStep
<1>5. out' \in Seq(Tokens)
  BY <1>4, AppendProperties DEF IInv, TypeOK
<1>6. ASSUME depth' = depth, NEW f \in Frame, frames' = [frames EXCEPT ![Len(frames)] = f],
             f.op = Top.op, f.n = Top.n, f.at = Top.at, f.next = Top.next, f.fetched = {}
      PROVE  IInv'
  <2>1. CallFits(f)
    BY <1>3, <1>6 DEF CallFits
  <2>2. /\ frames' \in Seq(Frame \cup SinkFrame) /\ \A i \in 1 .. Len(frames') : Nested(i)'
        /\ Top' = f /\ frames' # <<>>
    BY <1>1, <1>6, <2>1, StepTop DEF IInv
  <2>3. TypeOK'
    BY <1>1, <1>5, <1>6, <2>2 DEF IInv, TypeOK
  <2>4. HeldByTop'
    BY <1>1, <1>6, <2>2 DEF HeldByTop, InCall, InSink
  <2> QED BY <1>1, <1>2, <1>6, <2>2, <2>3, <2>4 DEF IInv
(* The call returns, to a sink that may go on or to nobody.                *)
<1>7. CASE frames' = Popped /\ depth' = IF Top.op = "end" THEN depth - 1 ELSE depth
  <2>1. /\ frames' \in Seq(Frame \cup SinkFrame) /\ \A i \in 1 .. Len(frames') : Nested(i)'
        /\ frames' # <<>> => Len(frames) > 1 /\ Top' = frames[Len(frames) - 1]
    BY <1>1, <1>7, PopFrame DEF IInv
  <2>2. depth' \in Nat /\ depth' <= depth
    BY <1>1, <1>2, <1>3, <1>7 DEF Nested
  <2>3. ASSUME frames' # <<>>
        PROVE  Top'.op = "sink" /\ Top'.at \in Nat /\ Top'.at <= depth'
    <3>1. Len(frames) - 1 \in 1 .. Len(frames) /\ Top' = frames[Len(frames) - 1]
      BY <1>2, <2>1, <2>3
    <3>2. Top'.at \in Nat
      BY <3>1, FrameKinds DEF IInv
    <3> QED BY <1>1, <1>2, <1>3, <1>7, <2>1, <2>3, <3>1, <3>2 DEF Nested
  <2>4. TypeOK'
    BY <1>1, <1>5, <2>1, <2>2 DEF IInv, TypeOK
  <2>5. HeldByTop'
    BY <1>1, <2>2, <2>3 DEF HeldByTop, InCall, InSink
  <2> QED BY <1>1, <1>2, <2>1, <2>2, <2>4, <2>5 DEF IInv
<1> QED BY <1>4, <1>6, <1>7

LEMMA FailInv ==
  ASSUME IInv, Fail
  PROVE  IInv'
<1>1. /\ frames' = <<>> /\ failed' = TRUE
      /\ UNCHANGED <<lists, cur, npending, depth, log, out, drains>>
  BY DEF Fail, held
<1>2. frames' \in Seq(Frame \cup SinkFrame) /\ Len(frames') = 0
  BY <1>1, EmptySeq
<1>3. TypeOK' /\ HeldByTop'
  BY <1>1, <1>2 DEF IInv, TypeOK, HeldByTop, InCall, InSink
<1> QED BY <1>1, <1>2, <1>3 DEF IInv

-----------------------------------------------------------------------------
(* The theorems.                                                           *)

LEMMA InitIInv == Init => IInv
<1> SUFFICES ASSUME Init PROVE IInv
  OBVIOUS
<1>1. /\ npending = 0 /\ depth = 0 /\ frames = <<>> /\ cur = 0 /\ failed = FALSE
      /\ log = <<>> /\ out = <<>> /\ drains = 0
      /\ lists = [l \in {0, 1} |-> [i \in 1 .. MaxDepth |-> 0]]
  BY DEF Init
<1>2. TypeOK /\ Len(frames) = 0
  BY <1>1, EmptySeq DEF TypeOK
<1> QED BY <1>1, <1>2, DepthAssumption DEF IInv, HeldByTop, InCall, InSink

LEMMA NextIInv == IInv /\ [Next]_vars => IInv'
<1> SUFFICES ASSUME IInv, [Next]_vars PROVE IInv'
  OBVIOUS
<1>1. CASE Begin
  BY <1>1, BeginInv
<1>2. CASE WriteField
  BY <1>2, CommitInv DEF WriteField
<1>3. CASE DropEmpty
  BY <1>3, DropInv
<1>4. CASE EndSequence
  BY <1>4, CommitInv DEF EndSequence
<1>5. CASE EndKeep
  BY <1>5, CommitInv DEF EndKeep
<1>6. CASE Fetch \/ Drain \/ SinkReturns \/ Write \/ Fail
  BY <1>6, FetchInv, DrainInv, SinkReturnsInv, WriteInv, FailInv
<1>7. CASE UNCHANGED vars
  <2>1. UNCHANGED <<lists, cur, npending, depth, frames, failed, log, out, drains>>
    BY <1>7 DEF vars, held
  <2> QED BY <2>1 DEF IInv, TypeOK, HeldByTop, Nested, CallFits, InCall, InSink, Top
<1> QED BY <1>1, <1>2, <1>3, <1>4, <1>5, <1>6, <1>7 DEF Next

THEOREM Invariance == Spec => []IInv
  BY InitIInv, NextIInv, PTL DEF Spec

(* Type correctness: in particular every slot that is stored to or read    *)
(* from exists, and no end marker takes _depth below zero, whatever the    *)
(* sink calls in the middle of a write.                                    *)
THEOREM TypeCorrect == Spec => []TypeOK
<1>1. IInv => TypeOK
  BY DEF IInv
<1> QED BY <1>1, Invariance, PTL

(* The check of begin_lazy against MAX_DEPTH is enough for the slots: what *)
(* is held back never outnumbers the open sequences, at any depth of       *)
(* re-entry, and no committed run is longer than a list.                   *)
THEOREM RunAlwaysFits == Spec => []RunFits
<1>1. IInv => RunFits
  BY DEF IInv, RunFits, Nested, CallFits
<1> QED BY <1>1, Invariance, PTL

-----------------------------------------------------------------------------
(* What the calls mean.                                                    *)

Ops == {"begin", "field", "end", "keep"}

(* How many of the caller's sequences are open, and the calls that opened  *)
(* them.                                                                   *)
Balance == OpenAfter(Len(log))
Begins == {b \in Own : log[b].op = "begin"}
Opened == {b \in Begins : Inside(b, Len(log) + 1)}

IsOpener(m, e) ==
  /\ m \in Begins /\ Inside(m, e)
  /\ \A c \in Begins : Inside(c, e) => c <= m

(* The open sequences have the levels 1 .. Balance, later ones higher; an  *)
(* end closes one for good, and only an end does.                          *)
Meant ==
  /\ Balance \in Nat
  /\ \A b \in Opened : OpenAfter(b) \in 1 .. Balance
  /\ \A b, c \in Opened : b < c => OpenAfter(b) < OpenAfter(c)
  /\ \A d \in 1 .. Balance : \E b \in Opened : OpenAfter(b) = d
  /\ \A e \in Own : Closes(e) => \E m \in Begins \ Opened : IsOpener(m, e)
  /\ \A b \in Begins \ Opened : \E e \in Own : Closes(e) /\ IsOpener(b, e)

LEMMA OwnTyped ==
  ASSUME TypeOK
  PROVE  /\ Len(log) \in Nat /\ Own \subseteq 1 .. Len(log) /\ Begins \subseteq Own
         /\ Opened \subseteq Begins /\ IsFiniteSet(Own)
         /\ \A k \in 1 .. Len(log) : log[k].op \in Ops /\ log[k].level \in Nat
<1>1. Len(log) \in Nat /\ log \in Seq([op : {"begin", "field", "end", "keep"}, level : Nat])
  BY LenProperties DEF TypeOK
<1>2. IsFiniteSet(1 .. Len(log))
  BY <1>1, FS_Interval
<1>3. Own \subseteq 1 .. Len(log)
  BY DEF Own
<1>4. IsFiniteSet(Own)
  BY <1>2, <1>3, FS_Subset
<1>5. \A k \in 1 .. Len(log) : log[k] \in [op : {"begin", "field", "end", "keep"}, level : Nat]
  BY <1>1, ElementOfSeq
<1> QED BY <1>1, <1>3, <1>4, <1>5 DEF Begins, Opened, Ops

LEMMA CountTyped ==
  ASSUME TypeOK, NEW k \in Nat
  PROVE  OpenAfter(k) \in Int
<1>1. /\ IsFiniteSet({j \in Own : j <= k /\ log[j].op = "begin"})
      /\ IsFiniteSet({j \in Own : j <= k /\ Closes(j)})
  BY OwnTyped, FS_Subset
<1> QED BY <1>1, FS_CardinalityType DEF OpenAfter

(* One more call.                                                          *)
LEMMA LogGrows ==
  ASSUME TypeOK, NEW op \in Ops, Logged(op), NEW n, n = Len(log) + 1
  PROVE  /\ n \in Nat /\ n >= 1 /\ Len(log') = n /\ Len(log) = n - 1
         /\ \A k \in 1 .. n - 1 : log'[k] = log[k]
         /\ log'[n].op = op /\ log'[n].level = Level
         /\ Own' = Own \cup (IF Level = 0 THEN {n} ELSE {}) /\ Own \subseteq 1 .. n - 1
<1>1. log \in Seq([op : {"begin", "field", "end", "keep"}, level : Nat])
  BY DEF TypeOK
<1>2. /\ Len(log) \in Nat /\ Len(log') = Len(log) + 1
      /\ \A k \in 1 .. Len(log) : log'[k] = log[k]
      /\ log'[Len(log) + 1] = [op |-> op, level |-> Level]
  BY <1>1, AppendProperties, LenProperties DEF Logged
<1>3. Own' = Own \cup (IF Level = 0 THEN {n} ELSE {})
  <2>1. Own' = {k \in 1 .. n : log'[k].level = 0}
    BY <1>2 DEF Own
  <2>2. ASSUME NEW k PROVE k \in Own' <=> k \in Own \/ (k = n /\ Level = 0)
    <3>1. CASE k = n
      BY <1>2, <2>1, <3>1 DEF Own
    <3>2. CASE k # n
      BY <1>2, <2>1, <3>2 DEF Own
    <3> QED BY <3>1, <3>2
  <2> QED BY <2>2
<1> QED BY <1>2, <1>3 DEF Own

LEMMA CountsKept ==
  ASSUME TypeOK, NEW op \in Ops, Logged(op), NEW k \in Nat, k <= Len(log) \/ Level # 0
  PROVE  OpenAfter(k)' = OpenAfter(k)
<1>1. PICK n : n = Len(log) + 1
  OBVIOUS
<1>4. /\ n \in Nat /\ Len(log) = n - 1 /\ Own \subseteq 1 .. n - 1
      /\ \A i \in 1 .. n - 1 : log'[i] = log[i]
      /\ Own' = Own \cup (IF Level = 0 THEN {n} ELSE {})
  BY <1>1, LogGrows
<1>5. \A j : j <= k /\ j \in Own' <=> j <= k /\ j \in Own
  BY <1>4
<1>6. \A j \in Own : log'[j] = log[j]
  BY <1>4
<1>2. {j \in Own' : j <= k /\ log'[j].op = "begin"} = {j \in Own : j <= k /\ log[j].op = "begin"}
  BY <1>5, <1>6
<1>3. {j \in Own' : j <= k /\ Closes(j)'} = {j \in Own : j <= k /\ Closes(j)}
  BY <1>5, <1>6 DEF Closes
<1> QED BY <1>2, <1>3 DEF OpenAfter

LEMMA CountMoves ==
  ASSUME TypeOK, NEW op \in Ops, Logged(op), Level = 0, NEW n, n = Len(log) + 1
  PROVE  OpenAfter(n)' = CASE op = "begin" -> Balance + 1
                           [] op = "field" -> Balance
                           [] OTHER        -> Balance - 1
<1> DEFINE B == {j \in Own : j <= n - 1 /\ log[j].op = "begin"}
           C == {j \in Own : j <= n - 1 /\ Closes(j)}
<1>1. /\ IsFiniteSet(B) /\ IsFiniteSet(C)
  BY OwnTyped, FS_Subset
<1>2. Cardinality(B) \in Nat /\ Cardinality(C) \in Nat /\ Balance = Cardinality(B) - Cardinality(C)
  BY <1>1, FS_CardinalityType, LogGrows DEF Balance, OpenAfter
<1>11. /\ n \in Nat /\ Own \subseteq 1 .. n - 1 /\ \A i \in 1 .. n - 1 : log'[i] = log[i]
       /\ log'[n].op = op /\ log'[n].level = Level
       /\ Own' = Own \cup (IF Level = 0 THEN {n} ELSE {})
  BY LogGrows
<1>12. Own' = Own \cup {n} /\ n \notin Own /\ log'[n].op = op
       /\ \A j \in Own : log'[j] = log[j] /\ j <= n - 1 /\ j <= n
  BY <1>11
<1>3. {j \in Own' : j <= n /\ log'[j].op = "begin"} = B \cup (IF op = "begin" THEN {n} ELSE {})
  <2>1. ASSUME NEW j PROVE j \in Own' /\ j <= n /\ log'[j].op = "begin" <=> j \in B \/ (j = n /\ op = "begin")
    <3>1. CASE j = n
      BY <1>11, <1>12, <3>1
    <3>2. CASE j # n
      BY <1>11, <1>12, <3>2
    <3> QED BY <3>1, <3>2
  <2> QED BY <2>1
<1>4. {j \in Own' : j <= n /\ Closes(j)'} = C \cup (IF op \in {"end", "keep"} THEN {n} ELSE {})
  <2>1. ASSUME NEW j PROVE j \in Own' /\ j <= n /\ Closes(j)' <=> j \in C \/ (j = n /\ op \in {"end", "keep"})
    <3>1. CASE j = n
      BY <1>11, <1>12, <3>1 DEF Closes
    <3>2. CASE j # n
      BY <1>11, <1>12, <3>2 DEF Closes
    <3> QED BY <3>1, <3>2
  <2> QED BY <2>1
<1>5. n \notin B /\ n \notin C
  BY <1>12
<1>6. OpenAfter(n)' =   Cardinality(B \cup (IF op = "begin" THEN {n} ELSE {}))
                      - Cardinality(C \cup (IF op \in {"end", "keep"} THEN {n} ELSE {}))
  BY <1>3, <1>4 DEF OpenAfter
<1> HIDE DEF B, C
<1>7. Cardinality(B \cup {n}) = Cardinality(B) + 1 /\ Cardinality(C \cup {n}) = Cardinality(C) + 1
      /\ B \cup {} = B /\ C \cup {} = C
  BY <1>1, <1>5, FS_AddElement
<1>8. CASE op = "begin"
  BY <1>2, <1>6, <1>7, <1>8
<1>9. CASE op = "field"
  BY <1>2, <1>6, <1>7, <1>9
<1>10. CASE op \in {"end", "keep"}
  <2>1. op # "begin" /\ op # "field"
    BY <1>10
  <2> QED BY <1>2, <1>6, <1>7, <1>10, <2>1
<1> QED BY <1>8, <1>9, <1>10 DEF Ops

(* Calls made so far stay inside the sequences they were made in, and the  *)
(* next is inside the open ones.                                           *)
LEMMA InsideKept ==
  ASSUME TypeOK, NEW op \in Ops, Logged(op), NEW n, n = Len(log) + 1,
         NEW b \in Own, NEW e \in 1 .. n
  PROVE  Inside(b, e)' <=> Inside(b, e)
<1>0. /\ n \in Nat /\ n >= 1 /\ Own \subseteq 1 .. n - 1 /\ \A i \in 1 .. n - 1 : log'[i] = log[i]
      /\ log'[n].op = op /\ log'[n].level = Level
      /\ Own' = Own \cup (IF Level = 0 THEN {n} ELSE {})
  BY LogGrows
<1>1. /\ n \in Nat /\ b \in 1 .. n - 1 /\ Own \subseteq 1 .. n - 1
      /\ (b .. e - 1) \cap Own' = (b .. e - 1) \cap Own
  BY <1>0
<1>2. \A i \in Own : OpenAfter(i)' = OpenAfter(i)
  BY <1>1, CountsKept
<1> QED BY <1>1, <1>2 DEF Inside

LEMMA InsideNext ==
  ASSUME TypeOK, NEW op \in Ops, Logged(op), NEW n, n = Len(log) + 1, NEW b \in Own
  PROVE  Inside(b, n + 1)' <=> Inside(b, n) /\ (Level = 0 => OpenAfter(n)' >= OpenAfter(b))
<1>0. /\ n \in Nat /\ n >= 1 /\ Own \subseteq 1 .. n - 1 /\ \A i \in 1 .. n - 1 : log'[i] = log[i]
      /\ log'[n].op = op /\ log'[n].level = Level
      /\ Own' = Own \cup (IF Level = 0 THEN {n} ELSE {})
  BY LogGrows
<1>1. /\ n \in Nat /\ b \in 1 .. n - 1 /\ Own \subseteq 1 .. n - 1
      /\ Own' = Own \cup (IF Level = 0 THEN {n} ELSE {}) /\ n + 1 - 1 = n
  BY <1>0
<1>2. \A i \in Own : OpenAfter(i)' = OpenAfter(i)
  BY <1>1, CountsKept
<1>3. (b .. n) \cap Own' = ((b .. n - 1) \cap Own) \cup (IF Level = 0 THEN {n} ELSE {})
  BY <1>1
<1>4. Inside(b, n + 1)' <=> \A i \in (b .. n) \cap Own' : OpenAfter(i)' >= OpenAfter(b)'
  BY <1>1 DEF Inside
<1>5. Inside(b, n) <=> \A i \in (b .. n - 1) \cap Own : OpenAfter(i) >= OpenAfter(b)
  BY <1>1 DEF Inside
<1> QED BY <1>1, <1>2, <1>3, <1>4, <1>5

LEMMA FramedMoves ==
  ASSUME TypeOK, NEW op \in Ops, Logged(op), NEW b \in Begins
  PROVE  Framed(b)' <=> Framed(b) \/ (Level = 0 /\ op \in {"field", "keep"} /\ b \in Opened)
<1>1. PICK n : n = Len(log) + 1
  OBVIOUS
<1>0. /\ n \in Nat /\ n >= 1 /\ Own \subseteq 1 .. n - 1 /\ \A i \in 1 .. n - 1 : log'[i] = log[i]
      /\ log'[n].op = op /\ log'[n].level = Level
      /\ Own' = Own \cup (IF Level = 0 THEN {n} ELSE {})
  BY <1>1, LogGrows
<1>2. /\ log'[n].op = op /\ b \in Own /\ n \in 1 .. n /\ Own \subseteq 1 .. n
      /\ \A k \in Own : k # n /\ log'[k] = log[k]
  <2>1. b \in Own
    BY DEF Begins
  <2> QED BY <1>0, <2>1
<1>3. \A e \in Own \cup {n} : Inside(b, e)' <=> Inside(b, e)
  BY <1>1, <1>2, InsideKept
<1>4. b \in Opened <=> Inside(b, n)
  BY <1>1 DEF Opened
<1> QED BY <1>0, <1>2, <1>3, <1>4 DEF Framed

LEMMA BeginsMove ==
  ASSUME TypeOK, NEW op \in Ops, Logged(op), NEW n, n = Len(log) + 1
  PROVE  /\ Begins' = Begins \cup (IF Level = 0 /\ op = "begin" THEN {n} ELSE {})
         /\ \A e \in 1 .. n : ~Inside(n, e)'
         /\ \A m \in Begins, e \in 1 .. n : IsOpener(m, e)' <=> IsOpener(m, e)
<1>0. /\ n \in Nat /\ n >= 1 /\ Own \subseteq 1 .. n - 1 /\ \A i \in 1 .. n - 1 : log'[i] = log[i]
      /\ log'[n].op = op /\ log'[n].level = Level
      /\ Own' = Own \cup (IF Level = 0 THEN {n} ELSE {})
  BY LogGrows
<1>1. log'[n].op = op /\ n \notin Own /\ \A k \in Own : log'[k] = log[k]
  BY <1>0
<1>2. Begins' = Begins \cup (IF Level = 0 /\ op = "begin" THEN {n} ELSE {})
  BY <1>0, <1>1 DEF Begins
<1>3. \A e \in 1 .. n : ~Inside(n, e)'
  BY <1>0 DEF Inside
<1>4. \A b \in Begins, e \in 1 .. n : Inside(b, e)' <=> Inside(b, e)
  BY InsideKept DEF Begins
<1> QED BY <1>2, <1>3, <1>4 DEF IsOpener

(* The sequence an end closes.                                             *)
LEMMA OpenerIs ==
  ASSUME TypeOK, NEW e, NEW m, IsOpener(m, e)
  PROVE  Opener(e) = m
<1> DEFINE P(b) == /\ log[b].op = "begin" /\ Inside(b, e)
                   /\ \A c \in Own : log[c].op = "begin" /\ Inside(c, e) => c <= b
<1>1. m \in Own /\ P(m)
  BY DEF IsOpener, Begins
<1>2. Opener(e) \in Own /\ P(Opener(e))
  <2>1. Opener(e) = CHOOSE b \in Own : P(b)
    BY DEF Opener
  <2> HIDE DEF P
  <2> QED BY <1>1, <2>1
<1>3. \A b \in Own : b \in Int
  BY OwnTyped
<1> QED BY <1>1, <1>2, <1>3

LEMMA OpenedMoves ==
  ASSUME TypeOK, NEW op \in Ops, Logged(op), NEW n, n = Len(log) + 1
  PROVE  /\ Opened' =      {b \in Opened : Level = 0 => OpenAfter(n)' >= OpenAfter(b)}
                      \cup (IF Level = 0 /\ op = "begin" THEN {n} ELSE {})
         /\ Balance' = IF Level = 0 THEN OpenAfter(n)' ELSE Balance
<1>0. /\ n \in Nat /\ n >= 1 /\ Len(log') = n /\ Len(log) = n - 1 /\ Own \subseteq 1 .. n - 1
      /\ Own' = Own \cup (IF Level = 0 THEN {n} ELSE {})
  BY LogGrows
<1>1. Balance' = IF Level = 0 THEN OpenAfter(n)' ELSE Balance
  <2>1. Balance' = OpenAfter(n)'
    BY <1>0 DEF Balance
  <2>2. ASSUME Level # 0 PROVE OpenAfter(n)' = Balance
    <3>1. OpenAfter(n)' = OpenAfter(n)
      BY <1>0, <2>2, CountsKept
    <3>2. \A j \in Own : j <= n /\ j <= n - 1
      BY <1>0
    <3>3. /\ {j \in Own : j <= n /\ log[j].op = "begin"} = {j \in Own : j <= n - 1 /\ log[j].op = "begin"}
          /\ {j \in Own : j <= n /\ Closes(j)} = {j \in Own : j <= n - 1 /\ Closes(j)}
      BY <3>2
    <3> QED BY <1>0, <3>1, <3>3 DEF Balance, OpenAfter
  <2> QED BY <2>1, <2>2
<1>2. Begins' = Begins \cup (IF Level = 0 /\ op = "begin" THEN {n} ELSE {}) /\ Begins \subseteq Own
  BY BeginsMove, OwnTyped
<1>3. Opened' = {b \in Begins' : Inside(b, n + 1)'} /\ Opened = {b \in Begins : Inside(b, n)}
  BY <1>0 DEF Opened
<1>4. \A b \in Begins : Inside(b, n + 1)' <=> Inside(b, n) /\ (Level = 0 => OpenAfter(n)' >= OpenAfter(b))
  BY <1>2, InsideNext
<1>5. Level = 0 => Inside(n, n + 1)'
  <2>1. n < n + 1 /\ (n .. n + 1 - 1) \cap Own' \subseteq {n} /\ OpenAfter(n)' \in Int
    <3>1. OpenAfter(n)' \in Int
      <4>1. Level = 0 => OpenAfter(n)' \in {Balance + 1, Balance, Balance - 1}
        BY CountMoves
      <4>2. Balance \in Int
        BY <1>0, CountTyped DEF Balance
      <4>3. Level # 0 => OpenAfter(n)' = OpenAfter(n)
        BY <1>0, CountsKept
      <4> QED BY <1>0, <4>1, <4>2, <4>3, CountTyped
    <3> QED BY <1>0, <3>1
  <2> QED BY <2>1 DEF Inside
<1>6. ASSUME NEW b PROVE b \in Opened' <=> \/ b \in Opened /\ (Level = 0 => OpenAfter(n)' >= OpenAfter(b))
                                           \/ b = n /\ Level = 0 /\ op = "begin"
  <2>1. n \notin Begins
    BY <1>0, <1>2
  <2>2. CASE b = n
    BY <1>2, <1>3, <1>5, <2>1, <2>2
  <2>3. CASE b # n
    BY <1>2, <1>3, <1>4, <2>3
  <2> QED BY <2>2, <2>3
<1> QED BY <1>1, <1>6

(* A call of a sink's means nothing to the caller's sequences.             *)
LEMMA SinkMeans ==
  ASSUME TypeOK, NEW op \in Ops, Logged(op), Level # 0
  PROVE  /\ Own' = Own /\ Begins' = Begins /\ Opened' = Opened /\ Balance' = Balance
         /\ \A k \in Own : OpenAfter(k)' = OpenAfter(k) /\ log'[k] = log[k]
<1>1. PICK n : n = Len(log) + 1
  OBVIOUS
<1>0. /\ n \in Nat /\ n >= 1 /\ Len(log) = n - 1 /\ Own \subseteq 1 .. n - 1
      /\ \A i \in 1 .. n - 1 : log'[i] = log[i]
      /\ Own' = Own \cup (IF Level = 0 THEN {n} ELSE {})
  BY <1>1, LogGrows
<1>2. \A k \in Own : OpenAfter(k)' = OpenAfter(k) /\ log'[k] = log[k]
  BY <1>0, CountsKept
<1>3. /\ Begins' = Begins \cup (IF Level = 0 /\ op = "begin" THEN {n} ELSE {})
  BY <1>1, BeginsMove
<1>4. /\ Opened' =      {b \in Opened : Level = 0 => OpenAfter(n)' >= OpenAfter(b)}
                   \cup (IF Level = 0 /\ op = "begin" THEN {n} ELSE {})
      /\ Balance' = IF Level = 0 THEN OpenAfter(n)' ELSE Balance
  BY <1>1, OpenedMoves
<1> QED BY <1>0, <1>2, <1>3, <1>4

(* A call of the caller's own.                                             *)
LEMMA OwnMeans ==
  ASSUME TypeOK, Meant, NEW op \in Ops, Logged(op), Level = 0, NEW n, n = Len(log) + 1
  PROVE  /\ Own' = Own \cup {n} /\ n \notin Own /\ log'[n].op = op
         /\ \A k \in Own : OpenAfter(k)' = OpenAfter(k) /\ log'[k] = log[k] /\ k < n
         /\ op = "begin" => /\ Begins' = Begins \cup {n} /\ Opened' = Opened \cup {n}
                            /\ Balance' = Balance + 1 /\ OpenAfter(n)' = Balance + 1
         /\ op # "begin" => Begins' = Begins
         /\ op = "field" => Opened' = Opened /\ Balance' = Balance
         /\ op \in {"end", "keep"} => /\ Opened' = {b \in Opened : OpenAfter(b) # Balance}
                                      /\ Balance' = Balance - 1
<1>0. /\ n \in Nat /\ n >= 1 /\ Len(log) = n - 1 /\ Own \subseteq 1 .. n - 1
      /\ \A i \in 1 .. n - 1 : log'[i] = log[i]
      /\ log'[n].op = op /\ log'[n].level = Level
      /\ Own' = Own \cup (IF Level = 0 THEN {n} ELSE {})
  BY LogGrows
<1>1. n \notin Own /\ \A k \in Own : OpenAfter(k)' = OpenAfter(k) /\ log'[k] = log[k] /\ k < n
  <2>1. \A k \in Own : k \in Nat /\ k <= Len(log)
    BY <1>0
  <2>2. \A k \in Own : OpenAfter(k)' = OpenAfter(k)
    BY <2>1, CountsKept
  <2>3. \A k \in Own : log'[k] = log[k] /\ k < n /\ k # n
    BY <1>0
  <2> QED BY <2>2, <2>3
<1>2. /\ Begins' = Begins \cup (IF Level = 0 /\ op = "begin" THEN {n} ELSE {})
  BY BeginsMove
<1>3. /\ Opened' =      {b \in Opened : Level = 0 => OpenAfter(n)' >= OpenAfter(b)}
                   \cup (IF Level = 0 /\ op = "begin" THEN {n} ELSE {})
      /\ Balance' = IF Level = 0 THEN OpenAfter(n)' ELSE Balance
  BY OpenedMoves
<1>4. OpenAfter(n)' = CASE op = "begin" -> Balance + 1
                        [] op = "field" -> Balance
                        [] OTHER        -> Balance - 1
  BY CountMoves
<1>5. Balance \in Nat /\ \A b \in Opened : OpenAfter(b) \in 1 .. Balance
  BY DEF Meant
<1>6. CASE op = "begin"
  <2>1. OpenAfter(n)' = Balance + 1
    BY <1>4, <1>6
  <2>2. {b \in Opened : OpenAfter(n)' >= OpenAfter(b)} = Opened
    BY <1>5, <2>1
  <2> QED BY <1>0, <1>1, <1>2, <1>3, <1>6, <2>1, <2>2
<1>7. CASE op = "field"
  <2>1. OpenAfter(n)' = Balance
    BY <1>4, <1>7
  <2>2. {b \in Opened : OpenAfter(n)' >= OpenAfter(b)} = Opened
    BY <1>5, <2>1
  <2> QED BY <1>0, <1>1, <1>2, <1>3, <1>7, <2>1, <2>2
<1>8. CASE op \in {"end", "keep"}
  <2>1. OpenAfter(n)' = Balance - 1 /\ op # "begin" /\ op # "field"
    BY <1>4, <1>8
  <2>2. {b \in Opened : OpenAfter(n)' >= OpenAfter(b)} = {b \in Opened : OpenAfter(b) # Balance}
    BY <1>5, <2>1
  <2> QED BY <1>0, <1>1, <1>2, <1>3, <2>1, <2>2
<1> QED BY <1>6, <1>7, <1>8 DEF Ops

LEMMA MeantSink ==
  ASSUME TypeOK, Meant, NEW op \in Ops, Logged(op), Level # 0
  PROVE  Meant'
<1>1. PICK n : n = Len(log) + 1
  OBVIOUS
<1>2. /\ Own' = Own /\ Begins' = Begins /\ Opened' = Opened /\ Balance' = Balance
      /\ \A k \in Own : OpenAfter(k)' = OpenAfter(k) /\ (Closes(k)' <=> Closes(k))
      /\ Begins \subseteq Own /\ Opened \subseteq Own /\ \A k \in Own : k \in 1 .. n
  <2>1. Begins \subseteq Own /\ Opened \subseteq Begins /\ Own \subseteq 1 .. Len(log) /\ Len(log) \in Nat
    BY OwnTyped
  <2>2. \A k \in Own : k \in 1 .. n
    BY <1>1, <2>1
  <2> QED BY <2>1, <2>2, SinkMeans DEF Closes
<1>3. \A m \in Begins, e \in Own : IsOpener(m, e)' <=> IsOpener(m, e)
  BY <1>1, <1>2, BeginsMove
<1> QED BY <1>2, <1>3 DEF Meant

(* The innermost open sequence.                                            *)
LEMMA Innermost ==
  ASSUME TypeOK, Meant, Balance > 0
  PROVE  \E m \in Opened : OpenAfter(m) = Balance /\ IsOpener(m, Len(log) + 1)
<1>1. PICK m \in Opened : OpenAfter(m) = Balance
  <2>1. Balance \in 1 .. Balance
    BY DEF Meant
  <2> QED BY <2>1 DEF Meant
<1>2. \A c \in Opened : c <= m
  <2>1. \A c \in Opened : c \in Int /\ OpenAfter(c) \in 1 .. Balance
    BY OwnTyped DEF Meant
  <2> QED BY <1>1, <2>1 DEF Meant
<1> QED BY <1>1, <1>2 DEF IsOpener, Opened

LEMMA MeantOwn ==
  ASSUME TypeOK, Meant, NEW op \in Ops, Logged(op), Level = 0,
         op \in {"end", "keep"} => Balance > 0
  PROVE  Meant'
<1>1. PICK n : n = Len(log) + 1
  OBVIOUS
<1>2. /\ Own' = Own \cup {n} /\ n \notin Own /\ log'[n].op = op
      /\ \A k \in Own : OpenAfter(k)' = OpenAfter(k) /\ log'[k] = log[k] /\ k < n
      /\ op = "begin" => /\ Begins' = Begins \cup {n} /\ Opened' = Opened \cup {n}
                         /\ Balance' = Balance + 1 /\ OpenAfter(n)' = Balance + 1
      /\ op # "begin" => Begins' = Begins
      /\ op = "field" => Opened' = Opened /\ Balance' = Balance
      /\ op \in {"end", "keep"} => /\ Opened' = {b \in Opened : OpenAfter(b) # Balance}
                                   /\ Balance' = Balance - 1
  BY <1>1, OwnMeans
<1>3. /\ Begins \subseteq Own /\ Opened \subseteq Begins /\ n \in Nat /\ n \in 1 .. n
      /\ \A k \in Own : k \in 1 .. n /\ k \in Int
  <2>1. Own \subseteq 1 .. Len(log) /\ Len(log) \in Nat /\ Begins \subseteq Own /\ Opened \subseteq Begins
    BY OwnTyped
  <2>2. \A k \in Own : k \in 1 .. n /\ k \in Int
    BY <1>1, <2>1
  <2> QED BY <1>1, <2>1, <2>2
<1>4. \A m \in Begins, e \in 1 .. n : IsOpener(m, e)' <=> IsOpener(m, e)
  BY <1>1, BeginsMove
<1>5. /\ \A e \in Own : Closes(e)' <=> Closes(e)
      /\ Closes(n)' <=> op \in {"end", "keep"}
  BY <1>2 DEF Closes
<1>6. /\ Balance \in Nat
      /\ \A b \in Opened : OpenAfter(b) \in 1 .. Balance /\ OpenAfter(b)' = OpenAfter(b) /\ b < n
      /\ \A b, c \in Opened : b < c => OpenAfter(b) < OpenAfter(c)
      /\ \A d \in 1 .. Balance : \E b \in Opened : OpenAfter(b) = d
  BY <1>2, <1>3 DEF Meant
<1>7. CASE op = "begin"
  <2>1. Balance' \in Nat /\ \A b \in Opened' : OpenAfter(b)' \in 1 .. Balance'
    BY <1>2, <1>6, <1>7
  <2>2. ASSUME NEW b \in Opened', NEW c \in Opened', b < c PROVE OpenAfter(b)' < OpenAfter(c)'
    BY <1>2, <1>3, <1>6, <1>7, <2>2
  <2>3. ASSUME NEW d \in 1 .. Balance' PROVE \E b \in Opened' : OpenAfter(b)' = d
    <3>1. CASE d = Balance + 1
      BY <1>2, <1>7, <3>1
    <3>2. CASE d # Balance + 1
      <4>1. d \in 1 .. Balance
        BY <1>2, <1>6, <1>7, <3>2
      <4> QED BY <1>2, <1>6, <1>7, <4>1
    <3> QED BY <3>1, <3>2
  <2>4. Begins' \ Opened' = Begins \ Opened
    BY <1>2, <1>3, <1>7
  <2>5. \A e \in Own' : Closes(e)' => \E m \in Begins' \ Opened' : IsOpener(m, e)'
    BY <1>2, <1>3, <1>4, <1>5, <1>7, <2>4 DEF Meant
  <2>6. \A b \in Begins' \ Opened' : \E e \in Own' : Closes(e)' /\ IsOpener(b, e)'
    BY <1>2, <1>3, <1>4, <1>5, <1>7, <2>4 DEF Meant
  <2> QED BY <2>1, <2>2, <2>3, <2>5, <2>6 DEF Meant
<1>8. CASE op = "field"
  <2>1. Begins' = Begins /\ Opened' = Opened /\ Balance' = Balance /\ ~Closes(n)'
    BY <1>2, <1>5, <1>8
  <2>5. \A e \in Own' : Closes(e)' => \E m \in Begins' \ Opened' : IsOpener(m, e)'
    BY <1>2, <1>3, <1>4, <1>5, <2>1 DEF Meant
  <2>6. \A b \in Begins' \ Opened' : \E e \in Own' : Closes(e)' /\ IsOpener(b, e)'
    BY <1>2, <1>3, <1>4, <1>5, <2>1 DEF Meant
  <2>7. /\ \A b \in Opened' : OpenAfter(b)' \in 1 .. Balance'
        /\ \A b, c \in Opened' : b < c => OpenAfter(b)' < OpenAfter(c)'
        /\ \A d \in 1 .. Balance' : \E b \in Opened' : OpenAfter(b)' = d
    BY <1>6, <2>1
  <2> QED BY <1>6, <2>1, <2>5, <2>6, <2>7 DEF Meant
<1>9. CASE op \in {"end", "keep"}
  <2>1. PICK m \in Opened : OpenAfter(m) = Balance /\ IsOpener(m, n)
    BY <1>1, <1>9, Innermost
  <2>2. Begins' = Begins /\ Opened' = Opened \ {m} /\ Balance' = Balance - 1 /\ Closes(n)'
    <3>1. \A b \in Opened : OpenAfter(b) = Balance => b = m
      <4>1. \A b \in Opened : b \in Int
        BY <1>3
      <4> QED BY <1>6, <2>1, <4>1
    <3> QED BY <1>2, <1>5, <1>9, <2>1, <3>1
  <2>3. Balance' \in Nat /\ \A b \in Opened' : OpenAfter(b)' \in 1 .. Balance'
    BY <1>2, <1>6, <1>9, <2>2
  <2>4. ASSUME NEW d \in 1 .. Balance' PROVE \E b \in Opened' : OpenAfter(b)' = d
    <3>1. d \in 1 .. Balance /\ d # Balance
      BY <1>6, <2>2
    <3> QED BY <1>6, <2>1, <2>2, <3>1
  <2>5. ASSUME NEW e \in Own', Closes(e)' PROVE \E b \in Begins' \ Opened' : IsOpener(b, e)'
    <3>1. CASE e = n
      BY <1>3, <1>4, <2>1, <2>2, <3>1
    <3>2. CASE e # n
      <4>1. e \in Own /\ Closes(e)
        BY <1>2, <1>5, <2>5, <3>2
      <4> QED BY <1>3, <1>4, <2>2, <4>1 DEF Meant
    <3> QED BY <3>1, <3>2
  <2>6. ASSUME NEW b \in Begins' \ Opened' PROVE \E e \in Own' : Closes(e)' /\ IsOpener(b, e)'
    <3>1. CASE b = m
      BY <1>2, <1>3, <1>4, <2>1, <2>2, <3>1
    <3>2. CASE b # m
      <4>1. b \in Begins \ Opened
        BY <2>2, <3>2
      <4> QED BY <1>2, <1>3, <1>4, <1>5, <4>1 DEF Meant
    <3> QED BY <3>1, <3>2
  <2>7. \A b, c \in Opened' : b < c => OpenAfter(b)' < OpenAfter(c)'
    BY <1>6, <2>2
  <2> QED BY <2>3, <2>4, <2>5, <2>6, <2>7 DEF Meant
<1> QED BY <1>7, <1>8, <1>9 DEF Ops

OpenersFound == \A e, m : IsOpener(m, e) => Opener(e) = m

LEMMA OpenersAre == TypeOK => OpenersFound
  BY OpenerIs DEF OpenersFound

(* What is due: with a field or a keep what is open becomes framed, and an *)
(* end is due if its sequence is framed.                                   *)
LEMMA DueKept ==
  ASSUME TypeOK, TypeOK', Meant, NEW op \in Ops, Logged(op), NEW k \in Own
  PROVE  /\ TokenOf(k)' = TokenOf(k) /\ (Closes(k)' <=> Closes(k)) /\ log'[k].op = log[k].op
         /\ OnWire(k)' <=> OnWire(k) \/ (Level = 0 /\ op \in {"field", "keep"} /\ k \in Opened)
<1>1. PICK n : n = Len(log) + 1
  OBVIOUS
<1>2. /\ n \in Nat /\ Own \subseteq 1 .. n - 1 /\ \A i \in 1 .. n - 1 : log'[i] = log[i]
  BY <1>1, LogGrows
<1>3. log'[k] = log[k] /\ k \in 1 .. n
  BY <1>2
<1>4. TokenOf(k)' = TokenOf(k) /\ (Closes(k)' <=> Closes(k)) /\ log[k].op \in Ops
  BY <1>3, OwnTyped DEF TokenOf, Closes
<1>5. CASE log[k].op = "field"
  <2>1. k \notin Opened
    BY <1>5 DEF Opened, Begins
  <2>2. OnWire(k)
    BY <1>5 DEF OnWire, Closes
  <2>3. log'[k].op = "field"
    BY <1>3, <1>5
  <2>4. OnWire(k)'
    BY <2>3 DEF OnWire, Closes
  <2> QED BY <1>3, <1>4, <2>1, <2>2, <2>4
<1>6. CASE log[k].op = "begin"
  <2>1. k \in Begins
    BY <1>6 DEF Begins
  <2>2. Framed(k)' <=> Framed(k) \/ (Level = 0 /\ op \in {"field", "keep"} /\ k \in Opened)
    BY <2>1, FramedMoves
  <2>3. (OnWire(k) <=> Framed(k)) /\ (OnWire(k)' <=> Framed(k)')
    <3>1. OnWire(k) <=> Framed(k)
      BY <1>6 DEF OnWire, Closes
    <3>2. log'[k].op = "begin"
      BY <1>3, <1>6
    <3>3. OnWire(k)' <=> Framed(k)'
      BY <3>2 DEF OnWire, Closes
    <3> QED BY <3>1, <3>3
  <2> QED BY <1>3, <1>4, <2>2, <2>3
<1>7. CASE log[k].op \in {"end", "keep"}
  <2>1. k \notin Opened
    BY <1>7 DEF Opened, Begins
  <2>2. PICK m \in Begins \ Opened : IsOpener(m, k)
    BY <1>7 DEF Meant, Closes
  <2>3. IsOpener(m, k)'
    BY <1>1, <1>3, <2>2, BeginsMove
  <2>4. Opener(k) = m /\ Opener(k)' = m
    <3>1. Opener(k) = m
      BY <2>2, OpenerIs
    <3>2. Opener(k)' = m
      <4>1. OpenersFound'
        BY OpenersAre, PTL
      <4> QED BY <2>3, <4>1 DEF OpenersFound
    <3> QED BY <3>1, <3>2
  <2>5. Framed(m)' <=> Framed(m)
    BY <2>2, FramedMoves
  <2>6. (OnWire(k) <=> Framed(m)) /\ (OnWire(k)' <=> Framed(m)')
    BY <1>3, <1>7, <2>4 DEF OnWire, Closes
  <2> QED BY <1>3, <1>4, <2>1, <2>5, <2>6
<1> QED BY <1>4, <1>5, <1>6, <1>7 DEF Ops

LEMMA DueNew ==
  ASSUME TypeOK, TypeOK', Meant, NEW op \in Ops, Logged(op), Level = 0, NEW n, n = Len(log) + 1
  PROVE  /\ op = "field" => OnWire(n)'
         /\ op = "begin" => ~OnWire(n)' /\ ~Framed(n)'
         /\ \A m \in Opened : op \in {"end", "keep"} /\ OpenAfter(m) = Balance =>
              (OnWire(n)' <=> op = "keep" \/ Framed(m))
<1>1. /\ n \in Nat /\ n >= 1 /\ Own \subseteq 1 .. n - 1 /\ log'[n].op = op
      /\ Own' = Own \cup (IF Level = 0 THEN {n} ELSE {})
  BY LogGrows
<1>2. ASSUME op = "field" PROVE OnWire(n)'
  BY <1>1, <1>2 DEF OnWire, Closes
<1>3. ASSUME op = "begin" PROVE ~OnWire(n)' /\ ~Framed(n)'
  <2>1. \A j \in Own' : ~(n < j)
    BY <1>1
  <2>2. ~Framed(n)'
    BY <2>1 DEF Framed, Inside
  <2>3. log'[n].op = "begin"
    BY <1>1, <1>3
  <2>4. OnWire(n)' <=> Framed(n)'
    BY <2>3 DEF OnWire, Closes
  <2> QED BY <2>2, <2>4
<1>4. ASSUME NEW m \in Opened, op \in {"end", "keep"}, OpenAfter(m) = Balance
      PROVE  OnWire(n)' <=> op = "keep" \/ Framed(m)
  <2>1. m \in Begins /\ m \in 1 .. n /\ n \in 1 .. n
    <3>1. m \in Own /\ m \in Begins
      BY OwnTyped
    <3> QED BY <1>1, <3>1
  <2>2. Balance > 0 /\ Balance \in Nat
    BY <1>4 DEF Meant
  <2>3. IsOpener(m, n)
    <3>1. PICK b \in Opened : OpenAfter(b) = Balance /\ IsOpener(b, n)
      BY <2>2, Innermost
    <3>2. b = m
      <4>1. b \in Int /\ m \in Int
        BY OwnTyped
      <4> QED BY <1>4, <2>2, <3>1, <4>1 DEF Meant
    <3> QED BY <3>1, <3>2
  <2>4. IsOpener(m, n)'
    BY <2>1, <2>3, BeginsMove
  <2>5. OpenersFound'
    BY OpenersAre, PTL
  <2>6. Opener(n)' = m
    BY <2>4, <2>5 DEF OpenersFound
  <2>7. log'[n].op \in {"end", "keep"}
    BY <1>1, <1>4
  <2>8. OnWire(n)' <=> Framed(m)'
    BY <2>6, <2>7 DEF OnWire, Closes
  <2>9. Framed(m)' <=> Framed(m) \/ op = "keep"
    BY <1>4, <2>1, FramedMoves
  <2> QED BY <2>8, <2>9
<1> QED BY <1>2, <1>3, <1>4

(* No call is made.                                                        *)
LEMMA QuietMeans ==
  ASSUME TypeOK, TypeOK', Meant, UNCHANGED log
  PROVE  /\ Own' = Own /\ Begins' = Begins /\ Opened' = Opened /\ Balance' = Balance
         /\ Meant' /\ Due' = Due
         /\ \A k \in Own : /\ OpenAfter(k)' = OpenAfter(k) /\ log'[k] = log[k]
                           /\ TokenOf(k)' = TokenOf(k) /\ (Framed(k)' <=> Framed(k))
<1>1. Own' = Own /\ Begins' = Begins
  BY DEF Own, Begins
<1>2. \A k : OpenAfter(k)' = OpenAfter(k)
  BY <1>1 DEF OpenAfter, Closes
<1>3. \A b, e : Inside(b, e)' <=> Inside(b, e)
  BY <1>1, <1>2 DEF Inside
<1>4. Opened' = Opened /\ Balance' = Balance
  BY <1>1, <1>2, <1>3 DEF Opened, Balance
<1>5. \A m, e : IsOpener(m, e)' <=> IsOpener(m, e)
  BY <1>1, <1>3 DEF IsOpener
<1>6. \A k : Framed(k)' <=> Framed(k)
  BY <1>1, <1>3 DEF Framed
<1>7. Meant'
  BY <1>1, <1>2, <1>4, <1>5 DEF Meant, Closes
<1>8. ASSUME NEW k \in Own PROVE (OnWire(k)' <=> OnWire(k)) /\ TokenOf(k)' = TokenOf(k)
  <2>1. TokenOf(k)' = TokenOf(k)
    BY DEF TokenOf, Closes
  <2>2. log[k].op \in Ops
    BY OwnTyped
  <2>3. CASE log[k].op \in {"end", "keep"}
    <3>1. PICK m : IsOpener(m, k)
      BY <2>3 DEF Meant, Closes
    <3>2. OpenersFound /\ OpenersFound'
      BY OpenersAre, PTL
    <3>3. Opener(k) = m /\ Opener(k)' = m
      BY <1>5, <3>1, <3>2 DEF OpenersFound
    <3> QED BY <1>6, <2>1, <2>3, <3>3 DEF OnWire, Closes
  <2>4. CASE log[k].op = "begin"
    BY <1>6, <2>1, <2>4 DEF OnWire, Closes
  <2>5. CASE log[k].op = "field"
    BY <2>1, <2>5 DEF OnWire, Closes
  <2> QED BY <2>2, <2>3, <2>4, <2>5 DEF Ops
<1>9. Due' = Due
  BY <1>1, <1>8 DEF Due
<1> QED BY <1>1, <1>2, <1>4, <1>6, <1>7, <1>8, <1>9

-----------------------------------------------------------------------------
(* What is held back.                                                      *)

(* Between two calls of the caller: the innermost open sequences, those    *)
(* with nothing in them that is written or kept.                           *)
Between ==
  /\ Balance = depth
  /\ \A i \in 1 .. npending :
       \E b \in Opened : lists[cur][i] = b /\ OpenAfter(b) = depth - npending + i /\ ~Framed(b)
  /\ \A b \in Opened : OpenAfter(b) <= depth - npending => Framed(b)

(* During call f, logged already: nothing.                                 *)
During(f) ==
  /\ Balance = IF f.op = "end" THEN f.at - 1 ELSE f.at
  /\ \A b \in Opened : Framed(b)

HeldBack ==
  /\ frames = <<>> /\ ~failed => Between
  /\ frames # <<>> => \A f \in {frames[1]} : During(f)

LEMMA FirstFrame ==
  ASSUME IInv, frames # <<>>
  PROVE  /\ Len(frames) \in Nat /\ Len(frames) >= 1 /\ 1 \in 1 .. Len(frames)
         /\ frames[1].op # "sink" /\ frames[1] \in Frame /\ frames[1].at \in Nat
         /\ InCall /\ Len(frames) = 1 => Top = frames[1]
         /\ InSink => Len(frames) > 1
<1>1. Len(frames) \in Nat /\ Len(frames) >= 1 /\ Top = frames[Len(frames)]
      /\ (Top.op = "sink" <=> InSink)
  BY TopFrame DEF IInv
<1>2. 1 \in 1 .. Len(frames) /\ Nested(1)
  BY <1>1 DEF IInv
<1>3. frames[1].op # "sink"
  BY <1>2 DEF Nested
<1> QED BY <1>1, <1>2, <1>3, FrameKinds DEF IInv

(* The sinks under way are counted: none between the caller's calls.       *)
LEMMA LevelIs ==
  ASSUME IInv
  PROVE  /\ frames = <<>> => Level = 0
         /\ InSink => Level # 0
<1> DEFINE S == {i \in 1 .. Len(frames) : frames[i].op = "sink"}
<1>1. Len(frames) \in Nat
  BY LenProperties DEF IInv, TypeOK
<1>2. IsFiniteSet(S)
  <2>1. IsFiniteSet(1 .. Len(frames))
    BY <1>1, FS_Interval
  <2> QED BY <2>1, FS_Subset
<1>3. frames = <<>> => S = {}
  BY <1>1, EmptySeq
<1>4. InSink => S # {}
  <2>1. ASSUME InSink PROVE Len(frames) \in S
    <3>1. frames # <<>> /\ Top.op = "sink"
      BY <2>1 DEF InSink
    <3> QED BY <3>1, TopFrame DEF IInv
  <2> QED BY <2>1
<1>5. Level = Cardinality(S)
  BY DEF Level
<1> HIDE DEF S
<1> QED BY <1>2, <1>3, <1>4, <1>5, FS_EmptySet

LEMMA BeginHeld ==
  ASSUME IInv, TypeOK', Meant, HeldBack, Begin
  PROVE  HeldBack'
<1>1. PICK n : n = Len(log) + 1
  OBVIOUS
<1>2. /\ Callable /\ lists' = [lists EXCEPT ![cur][npending + 1] = n] /\ npending' = npending + 1
      /\ depth' = depth + 1 /\ Logged("begin") /\ UNCHANGED <<cur, frames, failed>>
      /\ depth < MaxDepth /\ "begin" \in Ops /\ TypeOK
  BY <1>1 DEF Begin, Call, Ops, IInv
<1>3. /\ npending \in Nat /\ depth \in Nat /\ npending <= depth /\ ~failed /\ ~InCall
      /\ cur \in {0, 1} /\ lists \in [{0, 1} -> [1 .. MaxDepth -> Nat]] /\ MaxDepth \in Nat
  BY <1>2, CallSite, DepthAssumption DEF IInv
<1>4. CASE frames = <<>>
  <2>1. Level = 0 /\ Between
    BY <1>3, <1>4, LevelIs DEF HeldBack
  <2>2. /\ n \notin Own /\ \A k \in Own : OpenAfter(k)' = OpenAfter(k)
        /\ Opened' = Opened \cup {n} /\ Balance' = Balance + 1 /\ OpenAfter(n)' = Balance + 1
        /\ ~Framed(n)'
    BY <1>1, <1>2, <2>1, OwnMeans, DueNew
  <2>3. Opened \subseteq Begins /\ Begins \subseteq Own
    BY <1>2, OwnTyped
  <2>4. \A b \in Begins : Framed(b)' <=> Framed(b)
    BY <1>2, FramedMoves
  <2>5. /\ \A i \in 1 .. npending : lists'[cur][i] = lists[cur][i]
        /\ lists'[cur][npending + 1] = n
    BY <1>2, <1>3
  <2>6. ASSUME NEW i \in 1 .. npending'
        PROVE  \E b \in Opened' : /\ lists'[cur'][i] = b
                                  /\ OpenAfter(b)' = depth' - npending' + i /\ ~Framed(b)'
    <3>1. CASE i \in 1 .. npending
      <4>2. PICK b \in Opened : /\ lists[cur][i] = b /\ OpenAfter(b) = depth - npending + i
                               /\ ~Framed(b)
        BY <2>1, <3>1 DEF Between
      <4>3. lists'[cur'][i] = b
        BY <1>2, <2>5, <3>1, <4>2
      <4>4. ~Framed(b)' /\ OpenAfter(b)' = OpenAfter(b) /\ b \in Opened'
        BY <2>2, <2>3, <2>4, <4>2
      <4>5. depth' - npending' + i = depth - npending + i
        BY <1>2, <1>3, <3>1
      <4> QED BY <4>2, <4>3, <4>4, <4>5
    <3>2. CASE i = npending + 1
      <4>1. lists'[cur'][i] = n
        BY <1>2, <2>5, <3>2
      <4>2. depth' - npending' + i = Balance + 1
        BY <1>2, <1>3, <2>1, <3>2 DEF Between
      <4> QED BY <2>2, <4>1, <4>2
    <3> QED BY <1>2, <1>3, <3>1, <3>2
  <2>7. ASSUME NEW b \in Opened', OpenAfter(b)' <= depth' - npending' PROVE Framed(b)'
    <3>1. depth' - npending' = depth - npending
      BY <1>2, <1>3
    <3>2. b \in Opened
      BY <1>3, <2>1, <2>2, <2>7, <3>1 DEF Between
    <3> QED BY <2>1, <2>2, <2>3, <2>4, <2>7, <3>1, <3>2 DEF Between
  <2>8. Balance' = depth'
    BY <1>2, <2>1, <2>2 DEF Between
  <2>9. Between'
    BY <2>6, <2>7, <2>8 DEF Between
  <2> QED BY <1>2, <1>4, <2>9 DEF HeldBack
<1>5. CASE frames # <<>>
  <2>1. InSink /\ Level # 0 /\ \A f \in {frames[1]} : During(f)
    BY <1>3, <1>5, LevelIs DEF InSink, InCall, HeldBack
  <2>2. Opened' = Opened /\ Balance' = Balance
    BY <1>2, <2>1, SinkMeans
  <2>3. \A b \in Opened : Framed(b)' <=> Framed(b)
    BY <1>2, <2>1, FramedMoves, OwnTyped
  <2>4. \A f \in {frames'[1]} : During(f)'
    BY <1>2, <2>1, <2>2, <2>3 DEF During
  <2> QED BY <1>2, <1>5, <2>4 DEF HeldBack
<1> QED BY <1>4, <1>5

(* A call of a sink's leaves the caller's sequences as they are.           *)
LEMMA SinkHeld ==
  ASSUME IInv, Meant, HeldBack, frames # <<>>, NEW op \in Ops, Logged(op), Level # 0,
         frames' # <<>>, frames'[1] = frames[1]
  PROVE  HeldBack'
<1>1. Opened' = Opened /\ Balance' = Balance /\ \A b \in Opened : Framed(b)' <=> Framed(b)
  BY SinkMeans, FramedMoves, OwnTyped DEF IInv
<1>2. \A f \in {frames[1]} : During(f)
  BY DEF HeldBack
<1>3. \A f \in {frames'[1]} : During(f)'
  BY <1>1, <1>2 DEF During
<1> QED BY <1>3 DEF HeldBack

LEMMA DropHeld ==
  ASSUME IInv, Meant, HeldBack, DropEmpty
  PROVE  HeldBack'
<1>1. PICK n : n = Len(log) + 1
  OBVIOUS
<1>2. /\ Callable /\ depth > Floor /\ npending > 0 /\ npending' = npending - 1
      /\ depth' = depth - 1 /\ Logged("end") /\ UNCHANGED <<lists, cur, frames, failed>>
      /\ "end" \in Ops /\ TypeOK
  BY DEF DropEmpty, Ops, IInv
<1>3. /\ npending \in Nat /\ depth \in Nat /\ npending <= depth /\ ~failed /\ ~InCall
  BY <1>2, CallSite DEF IInv
<1>4. CASE frames = <<>>
  <2>1. Level = 0 /\ Between
    BY <1>3, <1>4, LevelIs DEF HeldBack
  <2>2. /\ \A k \in Own : OpenAfter(k)' = OpenAfter(k)
        /\ Opened' = {b \in Opened : OpenAfter(b) # Balance} /\ Balance' = Balance - 1
    BY <1>1, <1>2, <2>1, OwnMeans
  <2>3. Opened \subseteq Begins /\ Begins \subseteq Own
    BY <1>2, OwnTyped
  <2>4. \A b \in Begins : Framed(b)' <=> Framed(b)
    BY <1>2, FramedMoves
  <2>5. ASSUME NEW i \in 1 .. npending'
        PROVE  \E b \in Opened' : /\ lists'[cur'][i] = b
                                  /\ OpenAfter(b)' = depth' - npending' + i /\ ~Framed(b)'
    <3>1. i \in 1 .. npending /\ i < npending
      BY <1>2, <1>3
    <3>2. PICK b \in Opened : /\ lists[cur][i] = b /\ OpenAfter(b) = depth - npending + i
                             /\ ~Framed(b)
      BY <2>1, <3>1 DEF Between
    <3>3. OpenAfter(b) # Balance /\ depth' - npending' + i = depth - npending + i
      BY <1>2, <1>3, <2>1, <3>1, <3>2 DEF Between
    <3>4. b \in Opened' /\ OpenAfter(b)' = OpenAfter(b) /\ ~Framed(b)'
      BY <2>2, <2>3, <2>4, <3>2, <3>3
    <3> QED BY <1>2, <3>2, <3>3, <3>4
  <2>6. ASSUME NEW b \in Opened', OpenAfter(b)' <= depth' - npending' PROVE Framed(b)'
    <3>1. depth' - npending' = depth - npending
      BY <1>2, <1>3
    <3>2. b \in Opened /\ OpenAfter(b)' = OpenAfter(b) /\ (Framed(b)' <=> Framed(b))
      BY <2>2, <2>3, <2>4
    <3> QED BY <2>1, <2>6, <3>1, <3>2 DEF Between
  <2>7. Balance' = depth'
    BY <1>2, <2>1, <2>2 DEF Between
  <2>8. Between'
    BY <2>5, <2>6, <2>7 DEF Between
  <2> QED BY <1>2, <1>4, <2>8 DEF HeldBack
<1>5. CASE frames # <<>>
  <2>1. Level # 0
    BY <1>3, <1>5, LevelIs DEF InSink, InCall
  <2> QED BY <1>2, <1>5, <2>1, SinkHeld
<1> QED BY <1>4, <1>5

(* A call that writes: with it everything open is framed.                  *)
LEMMA CommitHeld ==
  ASSUME IInv, Meant, HeldBack, Callable, NEW op \in {"field", "end"}, Commit(op),
         NEW name \in {"field", "end", "keep"}, Logged(name), op = "field" <=> name = "field",
         name = "end" => npending = 0
  PROVE  HeldBack'
<1> DEFINE f == [op |-> op, call |-> Call, run |-> cur, n |-> npending, next |-> 1,
                 fetched |-> {}, at |-> depth]
<1>1. PICK n : n = Len(log) + 1
  OBVIOUS
<1>2. /\ npending \in Nat /\ depth \in Nat /\ npending <= depth /\ ~failed /\ ~InCall
      /\ cur \in {0, 1} /\ name \in Ops /\ TypeOK
  BY CallSite DEF IInv, Ops
<1>3. Push(f) /\ f.op = op /\ f.at = depth /\ f \in Frame
  BY <1>2, LevelTyped DEF Commit, Frame
<1> HIDE DEF f
<1>4. /\ Len(frames) \in Nat /\ frames' # <<>> /\ frames'[Len(frames) + 1] = f
      /\ \A i \in 1 .. Len(frames) : frames'[i] = frames[i]
  BY <1>2, <1>3, StackPush
<1>5. CASE frames = <<>>
  <2>1. Level = 0 /\ Between /\ Len(frames) = 0
    BY <1>2, <1>4, <1>5, LevelIs, EmptySeq DEF HeldBack
  <2>2. frames'[1] = f
    BY <1>4, <2>1
  <2>3. /\ name = "field" => Opened' = Opened /\ Balance' = Balance
        /\ name # "field" => Opened' \subseteq Opened /\ Balance' = Balance - 1
    <3>1. /\ name = "field" => Opened' = Opened /\ Balance' = Balance
          /\ name \in {"end", "keep"} => /\ Opened' = {b \in Opened : OpenAfter(b) # Balance}
                                         /\ Balance' = Balance - 1
      BY <1>1, <1>2, <2>1, OwnMeans
    <3> QED BY <3>1
  <2>4. ASSUME NEW b \in Opened PROVE Framed(b)'
    <3>1. b \in Begins /\ b \in Opened
      BY <1>2, OwnTyped
    <3>2. Framed(b)' <=> Framed(b) \/ (Level = 0 /\ name \in {"field", "keep"} /\ b \in Opened)
      BY <1>2, <3>1, FramedMoves
    <3>3. name = "end" => Framed(b)
      <4>1. OpenAfter(b) \in 1 .. Balance /\ Balance = depth
        BY <2>1 DEF Meant, Between
      <4> QED BY <1>2, <2>1, <4>1 DEF Between
    <3> QED BY <2>1, <3>1, <3>2, <3>3
  <2>5. \A g \in {frames'[1]} : During(g)'
    <3>1. PICK g : g = f
      OBVIOUS
    <3>2. g.op = op /\ g.at = depth /\ Balance = depth
      BY <1>3, <2>1, <3>1 DEF Between
    <3>3. Balance' = IF g.op = "end" THEN g.at - 1 ELSE g.at
      BY <2>3, <3>2
    <3>4. \A b \in Opened' : Framed(b)'
      BY <2>3, <2>4
    <3>5. During(g)'
      BY <3>3, <3>4 DEF During
    <3> QED BY <2>2, <3>1, <3>5
  <2> QED BY <1>4, <2>5 DEF HeldBack
<1>6. CASE frames # <<>>
  <2>1. Level # 0
    BY <1>2, <1>6, LevelIs DEF InSink, InCall
  <2>2. frames'[1] = frames[1]
    BY <1>4, <1>6, FirstFrame
  <2> QED BY <1>2, <1>4, <1>6, <2>1, <2>2, SinkHeld
<1> QED BY <1>5, <1>6

(* Writing: no call is made, and the last of the caller's calls to return  *)
(* leaves nothing held back.                                               *)
LEMMA QuietHeld ==
  ASSUME IInv, IInv', Meant, HeldBack, UNCHANGED log,
         frames # <<>> /\ frames' # <<>> => frames'[1].op = frames[1].op /\ frames'[1].at = frames[1].at,
         frames = <<>> => frames' = frames /\ UNCHANGED <<lists, cur, npending, depth, failed>>,
         frames' = <<>> /\ frames # <<>> /\ ~failed' =>
           npending' = 0 /\ depth' = IF frames[1].op = "end" THEN frames[1].at - 1 ELSE frames[1].at
  PROVE  HeldBack'
<1>1. /\ Opened' = Opened /\ Balance' = Balance /\ Opened \subseteq Own
      /\ \A k \in Own : OpenAfter(k)' = OpenAfter(k) /\ (Framed(k)' <=> Framed(k))
  BY QuietMeans, OwnTyped DEF IInv
<1>2. ASSUME frames' # <<>> PROVE \A f \in {frames'[1]} : During(f)'
  <2>1. frames # <<>>
    BY <1>2
  <2>2. \A f \in {frames[1]} : During(f)
    BY <2>1 DEF HeldBack
  <2> QED BY <1>1, <1>2, <2>1, <2>2 DEF During
<1>3. ASSUME frames' = <<>>, ~failed' PROVE Between'
  <2>1. CASE frames = <<>>
    <3>1. Between /\ UNCHANGED <<lists, cur, npending, depth>>
      BY <1>3, <2>1 DEF HeldBack
    <3> QED BY <1>1, <3>1 DEF Between
  <2>2. CASE frames # <<>>
    <3>1. npending' = 0 /\ depth' = IF frames[1].op = "end" THEN frames[1].at - 1 ELSE frames[1].at
      BY <1>3, <2>2
    <3>2. \A f \in {frames[1]} : During(f)
      BY <2>2 DEF HeldBack
    <3>3. Balance = depth' /\ \A b \in Opened : Framed(b)
      BY <3>1, <3>2 DEF During
    <3> QED BY <1>1, <3>1, <3>3 DEF Between
  <2> QED BY <2>1, <2>2
<1> QED BY <1>2, <1>3 DEF HeldBack

LEMMA InitHeld == Init => Meant /\ HeldBack
<1> SUFFICES ASSUME Init PROVE Meant /\ HeldBack
  OBVIOUS
<1>1. /\ npending = 0 /\ depth = 0 /\ frames = <<>> /\ log = <<>> /\ TypeOK
  BY InitIInv DEF Init, IInv
<1>2. Len(log) = 0 /\ Own = {} /\ Begins = {} /\ Opened = {}
  <2>1. Len(log) = 0
    BY <1>1, EmptySeq
  <2> QED BY <2>1 DEF Own, Begins, Opened
<1>3. Balance = 0
  <2>1. /\ {j \in Own : j <= 0 /\ log[j].op = "begin"} = {}
        /\ {j \in Own : j <= 0 /\ Closes(j)} = {}
    BY <1>2
  <2> QED BY <1>2, <2>1, FS_EmptySet DEF Balance, OpenAfter
<1>4. Meant
  BY <1>2, <1>3 DEF Meant
<1>5. HeldBack
  BY <1>1, <1>2, <1>3 DEF HeldBack, Between
<1> QED BY <1>4, <1>5

LEMMA NextHeld == IInv /\ IInv' /\ Meant /\ HeldBack /\ [Next]_vars => Meant' /\ HeldBack'
<1> SUFFICES ASSUME IInv, IInv', Meant, HeldBack, [Next]_vars PROVE Meant' /\ HeldBack'
  OBVIOUS
<1> USE DEF IInv
<1>0. TypeOK /\ TypeOK'
  OBVIOUS
<1>1. ASSUME Callable, NEW op \in Ops, Logged(op), op \in {"end", "keep"} => depth > Floor
      PROVE  Meant'
  <2>1. ~InCall /\ Floor \in Nat /\ depth \in Nat /\ ~failed
    BY <1>1, CallSite
  <2>2. CASE Level # 0
    BY <1>0, <1>1, <2>2, MeantSink
  <2>3. CASE Level = 0
    <3>1. frames = <<>>
      BY <2>1, <2>3, LevelIs DEF InSink, InCall
    <3>2. Balance = depth
      BY <2>1, <3>1 DEF HeldBack, Between
    <3> QED BY <1>0, <1>1, <2>1, <2>3, <3>2, MeantOwn
  <2> QED BY <2>2, <2>3
<1>2. CASE Begin
  <2>1. Callable /\ Logged("begin") /\ "begin" \in Ops /\ "begin" \notin {"end", "keep"}
    BY <1>2 DEF Begin, Ops
  <2> QED BY <1>0, <1>1, <1>2, <2>1, BeginHeld
<1>3. CASE DropEmpty
  <2>1. Callable /\ Logged("end") /\ "end" \in Ops /\ depth > Floor
    BY <1>3 DEF DropEmpty, Ops
  <2> QED BY <1>1, <1>3, <2>1, DropHeld
<1>4. CASE WriteField
  <2>1. Callable /\ Commit("field") /\ Logged("field") /\ "field" \in Ops
        /\ "field" \notin {"end", "keep"}
    BY <1>4 DEF WriteField, Ops
  <2> QED BY <1>1, <2>1, CommitHeld
<1>5. CASE EndSequence
  <2>1. Callable /\ Commit("end") /\ Logged("end") /\ "end" \in Ops /\ depth > Floor /\ npending = 0
    BY <1>5 DEF EndSequence, Ops
  <2> QED BY <1>1, <2>1, CommitHeld
<1>6. CASE EndKeep
  <2>1. Callable /\ Commit("end") /\ Logged("keep") /\ "keep" \in Ops /\ depth > Floor
    BY <1>6 DEF EndKeep, Ops
  <2> QED BY <1>1, <2>1, CommitHeld
<1>7. CASE Fetch
  <2>1. frames # <<>> /\ UNCHANGED log
    BY <1>7 DEF Fetch, InCall
  <2>2. PICK f \in Frame : /\ frames' = [frames EXCEPT ![Len(frames)] = f]
                           /\ f.op = Top.op /\ f.at = Top.at
    BY <1>7, FetchStep
  <2>3. frames' # <<>> /\ frames'[1].op = frames[1].op /\ frames'[1].at = frames[1].at
    BY <2>1, <2>2, StackStep, FirstFrame DEF Top
  <2> QED BY <1>0, <2>1, <2>3, QuietHeld, QuietMeans
<1>8. CASE Drain
  <2>1. frames # <<>> /\ UNCHANGED log /\ Push([op |-> "sink", at |-> depth])
    BY <1>8 DEF Drain, InCall
  <2>2. [op |-> "sink", at |-> depth] \in Frame \cup SinkFrame
    BY DEF SinkFrame, TypeOK
  <2>3. frames' # <<>> /\ frames'[1] = frames[1]
    BY <1>0, <2>1, <2>2, StackPush, FirstFrame
  <2> QED BY <1>0, <2>1, <2>3, QuietHeld, QuietMeans
<1>9. CASE SinkReturns
  <2>1. frames # <<>> /\ UNCHANGED log /\ frames' = Popped /\ InSink
    BY <1>9 DEF SinkReturns, InSink
  <2>2. Len(frames) > 1 /\ Len(frames) \in Nat
    BY <2>1, FirstFrame
  <2>3. frames' # <<>> /\ frames'[1] = frames[1]
    BY <1>0, <2>1, <2>2, StackPop
  <2> QED BY <1>0, <2>1, <2>3, QuietHeld, QuietMeans
<1>10. CASE Write
  <2>1. frames # <<>> /\ UNCHANGED <<log, npending>> /\ InCall
    BY <1>10 DEF Write, InCall, held
  <2>2. npending = 0 /\ depth = Top.at
    BY <2>1 DEF HeldByTop
  <2>3. ASSUME NEW f \in Frame, frames' = [frames EXCEPT ![Len(frames)] = f],
               f.op = Top.op, f.at = Top.at
        PROVE  HeldBack'
    <3>1. frames' # <<>> /\ frames'[1].op = frames[1].op /\ frames'[1].at = frames[1].at
      BY <2>1, <2>3, StackStep, FirstFrame DEF Top
    <3> QED BY <1>0, <2>1, <3>1, QuietHeld
  <2>4. ASSUME frames' = Popped, depth' = IF Top.op = "end" THEN depth - 1 ELSE depth
        PROVE  HeldBack'
    <3>1. CASE Len(frames) = 1
      <4>1. Top = frames[1]
        BY <2>1, <3>1, FirstFrame
      <4>2. frames' = <<>>
        BY <1>0, <2>1, <2>4, <3>1, StackPop
      <4>3. npending' = 0 /\ depth' = IF frames[1].op = "end" THEN frames[1].at - 1 ELSE frames[1].at
        BY <2>1, <2>2, <2>4, <4>1
      <4> QED BY <2>1, <4>2, <4>3, QuietHeld
    <3>2. CASE Len(frames) # 1
      <4>1. frames' # <<>> /\ frames'[1] = frames[1]
        BY <1>0, <2>1, <2>4, <3>2, StackPop
      <4> QED BY <2>1, <4>1, QuietHeld
    <3> QED BY <3>1, <3>2
  <2>5. HeldBack'
    BY <1>10, <2>3, <2>4, WriteStep
  <2> QED BY <1>0, <2>1, <2>5, QuietMeans
<1>11. CASE Fail
  <2>1. frames # <<>> /\ UNCHANGED log /\ frames' = <<>> /\ failed'
    BY <1>11 DEF Fail, InCall
  <2> QED BY <1>0, <2>1, QuietHeld, QuietMeans
<1>12. CASE UNCHANGED vars
  <2>1. UNCHANGED <<lists, cur, npending, depth, frames, failed, log>>
    BY <1>12 DEF vars, held
  <2> QED BY <1>0, <2>1, QuietHeld, QuietMeans
<1> QED BY <1>2, <1>3, <1>4, <1>5, <1>6, <1>7, <1>8, <1>9, <1>10, <1>11, <1>12 DEF Next

(* The sequences that are open are those no end has closed, one at each    *)
(* level.                                                                  *)
LEMMA OpenCallsAre ==
  ASSUME TypeOK, Meant
  PROVE  OpenCalls = Opened
<1>1. Opened \subseteq Begins /\ OpenersFound /\ OpenCalls \subseteq Begins
  BY OwnTyped, OpenersAre DEF OpenCalls, Begins
<1>2. ASSUME NEW b \in Opened PROVE b \in OpenCalls
  <2>1. \A e \in Own : Closes(e) => Opener(e) # b
    BY <1>1 DEF Meant, OpenersFound
  <2> QED BY <1>1, <2>1 DEF OpenCalls, Begins
<1>3. ASSUME NEW b \in Begins, b \notin Opened PROVE b \notin OpenCalls
  <2>1. PICK e \in Own : Closes(e) /\ IsOpener(b, e)
    BY <1>3 DEF Meant
  <2>2. e > b
    <3>1. b \in Int /\ e \in Int
      BY OwnTyped
    <3> QED BY <2>1, <3>1 DEF IsOpener, Inside
  <2> QED BY <1>1, <2>1, <2>2 DEF OpenCalls, OpenersFound
<1> QED BY <1>1, <1>2, <1>3

LEMMA CountAbove ==
  ASSUME TypeOK, Meant, NEW d \in 0 .. Balance
  PROVE  Cardinality({b \in Opened : OpenAfter(b) > d}) = Balance - d
<1> DEFINE S == {b \in Opened : OpenAfter(b) > d}
           T == d + 1 .. Balance
           f == [b \in S |-> OpenAfter(b)]
<1>1. /\ Balance \in Nat
      /\ \A b \in Opened : OpenAfter(b) \in 1 .. Balance
      /\ \A b, c \in Opened : b < c => OpenAfter(b) < OpenAfter(c)
      /\ \A e \in 1 .. Balance : \E b \in Opened : OpenAfter(b) = e
  BY DEF Meant
<1>2. \A b \in Opened : b \in Int
  BY OwnTyped
<1>3. f \in [S -> T]
  BY <1>1
<1>4. \A a, b \in S : f[a] = f[b] => a = b
  BY <1>1, <1>2
<1>5. \A t \in T : \E s \in S : f[s] = t
  BY <1>1
<1>6. IsFiniteSet(S)
  BY OwnTyped, FS_Subset
<1> HIDE DEF S, f
<1>7. f \in Bijection(S, T)
  BY <1>3, <1>4, <1>5, Fun_IsBij
<1>8. ExistsBijection(S, T)
  BY <1>7 DEF ExistsBijection
<1>9. Cardinality(T) = Cardinality(S)
  BY <1>6, <1>8, FS_Bijection
<1>10. Cardinality(T) = Balance - d
  <2>1. d + 1 \in Int /\ Balance \in Int /\ d <= Balance
    BY <1>1
  <2>2. Cardinality(d + 1 .. Balance) = IF d + 1 > Balance THEN 0 ELSE Balance - (d + 1) + 1
    BY <2>1, FS_Interval
  <2> QED BY <2>1, <2>2
<1> QED BY <1>9, <1>10 DEF S

LEMMA HeldInvariance == Spec => [](IInv /\ Meant /\ HeldBack)
<1>1. Init => Meant /\ HeldBack
  BY InitHeld
<1>2. (Meant /\ HeldBack) /\ (IInv /\ IInv') /\ [Next]_vars => (Meant /\ HeldBack)'
  BY NextHeld
<1> QED BY <1>1, <1>2, Invariance, PTL DEF Spec

(* encoder.py, __init__: between the caller's calls the pending run is the *)
(* contiguous suffix of the open sequences that hold nothing yet, whatever *)
(* sinks have done in between and however deep they re-entered.            *)
THEOREM RunIsSuffix == Spec => []PendingIsSuffix
<1>1. IInv /\ Meant /\ HeldBack => PendingIsSuffix
  <2> SUFFICES ASSUME IInv, Meant, HeldBack, frames = <<>>, ~failed
               PROVE  /\ npending <= Cardinality(OpenCalls) /\ depth = Cardinality(OpenCalls)
                      /\ \A i \in 1 .. npending :
                           /\ lists[cur][i] \in OpenCalls
                           /\ Cardinality({b \in OpenCalls : b > lists[cur][i]}) = npending - i
    BY DEF PendingIsSuffix
  <2>1. Between /\ TypeOK /\ npending \in Nat /\ depth \in Nat /\ npending <= depth
    BY DEF HeldBack, IInv, TypeOK
  <2>2. OpenCalls = Opened /\ Balance = depth
    BY <2>1, OpenCallsAre DEF Between
  <2>3. depth = Cardinality(OpenCalls)
    <3>1. {b \in Opened : OpenAfter(b) > 0} = Opened
      <4>1. \A b \in Opened : OpenAfter(b) > 0
        BY DEF Meant
      <4> QED BY <4>1
    <3>2. 0 \in 0 .. Balance
      BY <2>1, <2>2
    <3>3. Cardinality({b \in Opened : OpenAfter(b) > 0}) = Balance - 0
      BY <2>1, <3>2, CountAbove
    <3>4. Cardinality(Opened) = Balance - 0
      BY <3>1, <3>3
    <3> QED BY <2>1, <2>2, <3>4
  <2>4. ASSUME NEW i \in 1 .. npending
        PROVE  /\ lists[cur][i] \in OpenCalls
               /\ Cardinality({b \in OpenCalls : b > lists[cur][i]}) = npending - i
    <3>1. PICK c \in Opened : lists[cur][i] = c /\ OpenAfter(c) = depth - npending + i
      BY <2>1 DEF Between
    <3>2. \A b \in Opened : b > c <=> OpenAfter(b) > OpenAfter(c)
      <4>1. \A b \in Opened : b \in Int /\ OpenAfter(b) \in Int
        BY OwnTyped DEF IInv, Meant
      <4> QED BY <4>1 DEF Meant
    <3>3. {b \in OpenCalls : b > lists[cur][i]} = {b \in Opened : OpenAfter(b) > OpenAfter(c)}
      BY <2>2, <3>1, <3>2
    <3>4. OpenAfter(c) \in 0 .. Balance /\ Balance - OpenAfter(c) = npending - i
      BY <2>1, <2>2, <3>1
    <3> QED BY <2>1, <2>2, <3>1, <3>3, <3>4, CountAbove
  <2> QED BY <2>1, <2>3, <2>4
<1> QED BY <1>1, HeldInvariance, PTL

-----------------------------------------------------------------------------
(* What a call under way has still to write, when sinks open one sequence  *)
(* at a time.                                                              *)

(* A call of a sink's.                                                     *)
Foreign(c) == c \in 1 .. Len(log) /\ log[c].level # 0

(* The caller's call f: the headers it has still to read are those of open *)
(* sequences, in order; the token it has read comes before them, and its   *)
(* own token last.                                                         *)
OwnCall(f) ==
  /\ \A j \in f.next .. f.n : lists[f.run][j] \in Due \cap Begins /\ lists[f.run][j] < f.call
  /\ \A i, j \in f.next .. f.n : i < j => lists[f.run][i] < lists[f.run][j]
  /\ f.call \in Due /\ TokenOf(f.call).what = f.op
  /\ \A t \in f.fetched :
       /\ f.fetched = {t} /\ t.call \in Due /\ t = TokenOf(t.call)
       /\ \A j \in f.next .. f.n : t.call < lists[f.run][j]
       /\ \/ t.what = "start" /\ t.call < f.call /\ f.next <= f.n + 1
          \/ t.what = f.op /\ t.call = f.call /\ f.next = f.n + 2
  /\ f.fetched = {} => f.next <= f.n + 1

(* A sink's call: nothing of the caller's, and one header at most.         *)
SinkCall(f) ==
  /\ \A j \in f.next .. f.n : Foreign(lists[f.run][j]) /\ lists[f.run][j] < f.call
  /\ Foreign(f.call) /\ \A t \in f.fetched : Foreign(t.call)
  /\ f.n <= 1

CallMade(f, i) == IF i = 1 THEN OwnCall(f) ELSE SinkCall(f)

(* A call is interrupted after it has read its first slot, which is the    *)
(* only one a sink stores to.                                              *)
CallsMade ==
  /\ \A i \in 1 .. Len(frames) : \A f \in {frames[i]} : f.op # "sink" => CallMade(f, i)
  /\ \A i \in 1 .. Len(frames) :
       frames[i].op # "sink" /\ (i < Len(frames) \/ frames[i].fetched # {}) => frames[i].next >= 2
  /\ InSink => npending <= 1 /\ \A c \in {lists[cur][i] : i \in 1 .. npending} : Foreign(c)

(* What was said of a call stays true as calls are made.                   *)
LEMMA Later ==
  ASSUME TypeOK, TypeOK', Meant, UNCHANGED log \/ \E op \in Ops : Logged(op)
  PROVE  /\ \A k \in Due : k \in Due' /\ TokenOf(k)' = TokenOf(k)
         /\ Own \subseteq Own' /\ Begins \subseteq Begins' /\ Due \subseteq Own /\ Due' \subseteq Own'
         /\ \A c : Foreign(c) => Foreign(c)'
<1>1. Due \subseteq Own /\ Due' \subseteq Own' /\ Begins \subseteq Own
  BY DEF Due, Begins
<1>2. CASE UNCHANGED log
  <2>1. Own' = Own /\ Begins' = Begins /\ Due' = Due /\ \A k \in Own : TokenOf(k)' = TokenOf(k)
    BY <1>2, QuietMeans
  <2>2. \A c : Foreign(c) => Foreign(c)'
    BY <1>2 DEF Foreign
  <2> QED BY <1>1, <2>1, <2>2
<1>3. ASSUME NEW op \in Ops, Logged(op)
      PROVE  /\ \A k \in Due : k \in Due' /\ TokenOf(k)' = TokenOf(k)
             /\ Own \subseteq Own' /\ Begins \subseteq Begins'
             /\ \A c : Foreign(c) => Foreign(c)'
  <2>1. PICK n : n = Len(log) + 1
    OBVIOUS
  <2>2. /\ n \in Nat /\ Len(log') = n /\ Len(log) = n - 1
        /\ \A k \in 1 .. n - 1 : log'[k] = log[k]
        /\ Own' = Own \cup (IF Level = 0 THEN {n} ELSE {})
    BY <1>3, <2>1, LogGrows
  <2>3. Begins' = Begins \cup (IF Level = 0 /\ op = "begin" THEN {n} ELSE {})
    BY <1>3, <2>1, BeginsMove
  <2>4. \A k \in Own : TokenOf(k)' = TokenOf(k) /\ (OnWire(k) => OnWire(k)')
    BY <1>3, DueKept
  <2>5. \A k \in Due : k \in Due' /\ TokenOf(k)' = TokenOf(k)
    BY <2>2, <2>4 DEF Due
  <2>6. \A c : Foreign(c) => Foreign(c)'
    <3>1. ASSUME NEW c, Foreign(c) PROVE Foreign(c)'
      <4>1. c \in 1 .. n - 1 /\ c \in 1 .. n /\ log[c].level # 0
        BY <2>2, <3>1 DEF Foreign
      <4>2. log'[c].level # 0
        BY <2>2, <4>1
      <4> QED BY <2>2, <4>1, <4>2 DEF Foreign
    <3> QED BY <3>1
  <2> QED BY <2>2, <2>3, <2>5, <2>6
<1> QED BY <1>1, <1>2, <1>3

LEMMA OwnCallKept ==
  ASSUME TypeOK, TypeOK', Meant, UNCHANGED log \/ \E op \in Ops : Logged(op),
         NEW f \in Frame, OwnCall(f),
         \A j \in f.next .. f.n : lists'[f.run][j] = lists[f.run][j]
  PROVE  OwnCall(f)'
<1>1. /\ \A k \in Due : k \in Due' /\ TokenOf(k)' = TokenOf(k)
      /\ Begins \subseteq Begins'
  BY Later
<1>2. /\ \A j \in f.next .. f.n : lists'[f.run][j] \in Due' \cap Begins' /\ lists'[f.run][j] < f.call
      /\ \A i, j \in f.next .. f.n : i < j => lists'[f.run][i] < lists'[f.run][j]
  BY <1>1 DEF OwnCall
<1>3. f.call \in Due' /\ TokenOf(f.call)'.what = f.op
  BY <1>1 DEF OwnCall
<1>4. ASSUME NEW t \in f.fetched
      PROVE  /\ f.fetched = {t} /\ t.call \in Due' /\ t = TokenOf(t.call)'
             /\ \A j \in f.next .. f.n : t.call < lists'[f.run][j]
             /\ \/ t.what = "start" /\ t.call < f.call /\ f.next <= f.n + 1
                \/ t.what = f.op /\ t.call = f.call /\ f.next = f.n + 2
  BY <1>1 DEF OwnCall
<1>5. f.fetched = {} => f.next <= f.n + 1
  BY DEF OwnCall
<1> QED BY <1>2, <1>3, <1>4, <1>5 DEF OwnCall

LEMMA SinkCallKept ==
  ASSUME TypeOK, TypeOK', Meant, UNCHANGED log \/ \E op \in Ops : Logged(op),
         NEW f \in Frame, SinkCall(f),
         \A j \in f.next .. f.n : lists'[f.run][j] = lists[f.run][j]
  PROVE  SinkCall(f)'
<1>1. \A c : Foreign(c) => Foreign(c)'
  BY Later
<1> QED BY <1>1 DEF SinkCall

(* The frames that stay as they are, their slots too.                      *)
LEMMA CallsStay ==
  ASSUME TypeOK, TypeOK', Meant, CallsMade, UNCHANGED log \/ \E op \in Ops : Logged(op),
         NEW m, m \in 0 .. Len(frames), m <= Len(frames'), \A i \in 1 .. m : frames'[i] = frames[i],
         \A i \in 1 .. m : \A f \in {frames[i]} : f.op # "sink" =>
           \A j \in f.next .. f.n : lists'[f.run][j] = lists[f.run][j]
  PROVE  \A i \in 1 .. m : \A f \in {frames'[i]} : f.op # "sink" => CallMade(f, i)'
<1> SUFFICES ASSUME NEW i \in 1 .. m, NEW f, f = frames'[i], f.op # "sink" PROVE CallMade(f, i)'
  OBVIOUS
<1>1. i \in 1 .. Len(frames) /\ f = frames[i]
  <2>1. Len(frames) \in Nat
    BY LenProperties DEF TypeOK
  <2> QED BY <2>1
<1>2. f \in Frame
  BY <1>1, FrameKinds
<1>3. CallMade(f, i)
  BY <1>1 DEF CallsMade
<1>4. \A j \in f.next .. f.n : lists'[f.run][j] = lists[f.run][j]
  BY <1>1
<1>5. CASE i = 1
  <2>1. OwnCall(f)
    BY <1>3, <1>5 DEF CallMade
  <2>2. OwnCall(f)'
    BY <1>2, <1>4, <2>1, OwnCallKept
  <2> QED BY <1>5, <2>2 DEF CallMade
<1>6. CASE i # 1
  <2>1. SinkCall(f)
    BY <1>3, <1>6 DEF CallMade
  <2>2. SinkCall(f)'
    BY <1>2, <1>4, <2>1, SinkCallKept
  <2> QED BY <1>6, <2>2 DEF CallMade
<1> QED BY <1>5, <1>6

(* A sink stores into the first slot only, and nobody has yet to read that. *)
LEMMA BeginCalls ==
  ASSUME SinkDepth <= 1, IInv, IInv', Meant, CallsMade, Begin
  PROVE  CallsMade'
<1>1. PICK n : n = Len(log) + 1
  OBVIOUS
<1>2. /\ Callable /\ lists' = [lists EXCEPT ![cur][npending + 1] = n] /\ npending' = npending + 1
      /\ Logged("begin") /\ frames' = frames /\ cur' = cur
      /\ "begin" \in Ops /\ TypeOK /\ TypeOK' /\ (InSink => depth - Floor < SinkDepth)
  BY <1>1 DEF Begin, Call, Ops, IInv
<1>3. /\ npending \in Nat /\ depth \in Nat /\ Floor \in Nat /\ ~InCall /\ Floor + npending <= depth
      /\ cur \in {0, 1} /\ lists \in [{0, 1} -> [1 .. MaxDepth -> Nat]] /\ Len(frames) \in Nat
  BY <1>2, CallSite, LenProperties DEF IInv, TypeOK
<1>4. InSink => npending = 0
  BY <1>2, <1>3, CallBounds
<1>5. ASSUME NEW i \in 1 .. Len(frames), NEW f, f = frames[i], f.op # "sink", NEW j \in f.next .. f.n
      PROVE  lists'[f.run][j] = lists[f.run][j]
  <2>1. frames # <<>> /\ InSink
    <3>1. frames # <<>>
      BY <1>3, EmptySeq
    <3> QED BY <1>3, <3>1 DEF InSink, InCall
  <2>2. i < Len(frames)
    BY <1>3, <1>5, <2>1, TopFrame, <1>2
  <2>3. f \in Frame /\ f.next >= 2
    BY <1>2, <1>5, <2>2, FrameKinds DEF CallsMade
  <2>4. j # npending + 1 /\ f.run \in {0, 1}
    BY <1>4, <2>1, <2>3 DEF Frame
  <2> QED BY <1>2, <1>3, <2>4
<1>6. \A i \in 1 .. Len(frames) : \A f \in {frames'[i]} : f.op # "sink" => CallMade(f, i)'
  <2>1. PICK m : m = Len(frames)
    OBVIOUS
  <2>2. m \in 0 .. Len(frames) /\ m <= Len(frames') /\ \A i \in 1 .. m : frames'[i] = frames[i]
    BY <1>2, <1>3, <2>1
  <2>3. UNCHANGED log \/ \E op \in Ops : Logged(op)
    BY <1>2
  <2>4. \A i \in 1 .. m : \A f \in {frames[i]} : f.op # "sink" =>
          \A j \in f.next .. f.n : lists'[f.run][j] = lists[f.run][j]
    BY <1>5, <2>1
  <2>5. \A i \in 1 .. m : \A f \in {frames'[i]} : f.op # "sink" => CallMade(f, i)'
    BY <1>2, <2>2, <2>3, <2>4, CallsStay
  <2> QED BY <2>1, <2>5
<1>7. ASSUME InSink PROVE npending' <= 1 /\ \A c \in {lists'[cur'][i] : i \in 1 .. npending'} : Foreign(c)'
  <2>1. Level # 0
    BY <1>7, LevelIs
  <2>2. /\ n \in Nat /\ n >= 1 /\ Len(log') = n /\ log'[n].level = Level
    BY <1>1, <1>2, LogGrows
  <2>3. Foreign(n)'
    BY <2>1, <2>2 DEF Foreign
  <2>4. npending' = 1 /\ lists'[cur'][1] = n
    <3>1. 1 \in 1 .. MaxDepth /\ npending + 1 = 1
      BY <1>4, <1>7, DepthAssumption
    <3>2. lists'[cur][1] = n
      BY <1>2, <1>3, <3>1
    <3> QED BY <1>2, <3>1, <3>2
  <2>5. \A c \in {lists'[cur'][i] : i \in 1 .. npending'} : c = n
    BY <2>4
  <2> QED BY <2>3, <2>4, <2>5
<1>8. InSink' => npending' <= 1 /\ \A c \in {lists'[cur'][i] : i \in 1 .. npending'} : Foreign(c)'
  BY <1>2, <1>7 DEF InSink, Top
<1> QED BY <1>2, <1>6, <1>8 DEF CallsMade

LEMMA DropCalls ==
  ASSUME IInv, IInv', Meant, CallsMade, DropEmpty
  PROVE  CallsMade'
<1>1. /\ Callable /\ lists' = lists /\ npending' = npending - 1 /\ npending > 0
      /\ Logged("end") /\ frames' = frames /\ cur' = cur
      /\ "end" \in Ops /\ TypeOK /\ TypeOK' /\ npending \in Nat /\ Len(frames) \in Nat
  BY LenProperties DEF DropEmpty, Ops, IInv, TypeOK
<1>2. \A i \in 1 .. Len(frames) : \A f \in {frames'[i]} : f.op # "sink" => CallMade(f, i)'
  <2>1. PICK m : m = Len(frames)
    OBVIOUS
  <2>2. m \in 0 .. Len(frames) /\ m <= Len(frames') /\ \A i \in 1 .. m : frames'[i] = frames[i]
    BY <1>1, <2>1
  <2>3. UNCHANGED log \/ \E op \in Ops : Logged(op)
    BY <1>1
  <2>4. \A i \in 1 .. m : \A f \in {frames'[i]} : f.op # "sink" => CallMade(f, i)'
    BY <1>1, <2>2, <2>3, CallsStay
  <2> QED BY <2>1, <2>4
<1>3. InSink => npending' <= 1 /\ \A i \in 1 .. npending' : Foreign(lists[cur][i])
  BY <1>1 DEF CallsMade
<1>4. \A c : Foreign(c) => Foreign(c)'
  BY <1>1, Later
<1>5. InSink' => npending' <= 1 /\ \A c \in {lists'[cur'][i] : i \in 1 .. npending'} : Foreign(c)'
  BY <1>1, <1>3, <1>4 DEF InSink, Top
<1> QED BY <1>1, <1>2, <1>5 DEF CallsMade

(* A call of the caller's takes what is held back, a sink's the one        *)
(* sequence that sink has open.                                            *)
LEMMA CommitCalls ==
  ASSUME IInv, IInv', Meant, HeldBack, CallsMade, Callable, NEW op \in {"field", "end"}, Commit(op),
         NEW name \in {"field", "end", "keep"}, Logged(name), op = "field" <=> name = "field",
         op = "end" => depth > Floor, name = "end" => npending = 0
  PROVE  CallsMade'
<1>1. PICK n : n = Len(log) + 1
  OBVIOUS
<1>2. /\ npending \in Nat /\ depth \in Nat /\ npending <= depth /\ ~failed /\ ~InCall
      /\ cur \in {0, 1} /\ name \in Ops /\ TypeOK /\ TypeOK' /\ Len(frames) \in Nat
      /\ lists' = lists
  BY CallSite, LenProperties DEF IInv, Ops, TypeOK, Commit
<1>3. PICK f : f = [op |-> op, call |-> n, run |-> cur, n |-> npending, next |-> 1,
                    fetched |-> {}, at |-> depth]
  OBVIOUS
<1>4. Push(f) /\ f.op = op /\ f \in Frame /\ f.call = n /\ f.run = cur /\ f.n = npending /\ f.next = 1
      /\ f.fetched = {}
  BY <1>1, <1>2, <1>3, LevelTyped DEF Commit, Frame, Call
<1>5. /\ Len(frames') = Len(frames) + 1 /\ frames' # <<>> /\ frames'[Len(frames) + 1] = f
      /\ \A i \in 1 .. Len(frames) : frames'[i] = frames[i]
  BY <1>2, <1>4, StackPush
<1>6. /\ n \in Nat /\ n >= 1 /\ Len(log') = n /\ log'[n].op = name /\ log'[n].level = Level
      /\ Len(log) = n - 1 /\ Own \subseteq 1 .. n - 1
  BY <1>1, <1>2, LogGrows
<1>7. \A i \in 1 .. Len(frames) : \A g \in {frames'[i]} : g.op # "sink" => CallMade(g, i)'
  <2>1. PICK m : m = Len(frames)
    OBVIOUS
  <2>2. m \in 0 .. Len(frames) /\ m <= Len(frames') /\ \A i \in 1 .. m : frames'[i] = frames[i]
    BY <1>2, <1>5, <2>1
  <2>3. UNCHANGED log \/ \E o \in Ops : Logged(o)
    BY <1>2
  <2>4. \A i \in 1 .. m : \A g \in {frames'[i]} : g.op # "sink" => CallMade(g, i)'
    BY <1>2, <2>2, <2>3, CallsStay
  <2> QED BY <2>1, <2>4
<1>8. ASSUME frames = <<>> PROVE OwnCall(f)'
  <2>1. Level = 0 /\ Between /\ Len(frames) = 0 /\ Floor = 0
    BY <1>2, <1>8, LevelIs, EmptySeq DEF HeldBack, IInv, Floor, InSink
  <2>2. /\ Balance = depth
        /\ \A i \in 1 .. npending :
             \E b \in Opened : lists[cur][i] = b /\ OpenAfter(b) = depth - npending + i
        /\ \A b \in Opened : OpenAfter(b) <= depth - npending => Framed(b)
    BY <2>1 DEF Between
  <2>3. /\ Own' = Own \cup {n} /\ \A k \in Own : k < n
    BY <1>1, <1>2, <2>1, OwnMeans
  <2>4. /\ Opened \subseteq Begins /\ Begins \subseteq Own /\ Begins \subseteq Begins'
    BY <1>2, OwnTyped, Later
  <2>5. ASSUME NEW j \in f.next .. f.n
        PROVE  lists'[f.run][j] \in Due' \cap Begins' /\ lists'[f.run][j] < f.call
    <3>1. j \in 1 .. npending /\ name \in {"field", "keep"}
      BY <1>2, <1>4, <2>5
    <3>2. PICK b \in Opened : lists[cur][j] = b
      BY <2>2, <3>1
    <3>3. b \in Own' /\ b \in Begins' /\ b < n /\ b \in Own
      BY <2>3, <2>4, <3>2
    <3>4. OnWire(b)'
      BY <1>2, <2>1, <3>1, <3>2, <3>3, DueKept
    <3>5. b \in Due'
      BY <3>3, <3>4 DEF Due
    <3> QED BY <1>2, <1>4, <3>2, <3>3, <3>5
  <2>6. ASSUME NEW i \in f.next .. f.n, NEW j \in f.next .. f.n, i < j
        PROVE  lists'[f.run][i] < lists'[f.run][j]
    <3>1. i \in 1 .. npending /\ j \in 1 .. npending
      BY <1>4, <2>6
    <3>2. PICK b \in Opened : lists[cur][i] = b /\ OpenAfter(b) = depth - npending + i
      BY <2>2, <3>1
    <3>3. PICK c \in Opened : lists[cur][j] = c /\ OpenAfter(c) = depth - npending + j
      BY <2>2, <3>1
    <3>4. OpenAfter(b) < OpenAfter(c) /\ OpenAfter(b) \in Int /\ OpenAfter(c) \in Int
      BY <1>2, <2>6, <3>1, <3>2, <3>3
    <3>5. b \in Int /\ c \in Int
      BY <1>2, OwnTyped
    <3>6. b < c
      BY <3>4, <3>5 DEF Meant
    <3> QED BY <1>2, <1>4, <3>2, <3>3, <3>6
  <2>7. f.call \in Due' /\ TokenOf(f.call)'.what = f.op
    <3>1. OnWire(n)'
      <4>1. CASE name = "field"
        BY <1>1, <1>2, <2>1, <4>1, DueNew
      <4>2. CASE name \in {"end", "keep"}
        <5>1. Balance \in 1 .. Balance
          BY <1>2, <2>1, <2>2, <4>2
        <5>2. PICK m \in Opened : OpenAfter(m) = Balance
          BY <5>1 DEF Meant
        <5>3. name = "end" => Framed(m)
          BY <1>2, <2>2, <5>2
        <5>4. OnWire(n)' <=> name = "keep" \/ Framed(m)
          BY <1>1, <1>2, <2>1, <4>2, <5>2, DueNew
        <5> QED BY <4>2, <5>3, <5>4
      <4> QED BY <4>1, <4>2
    <3>2. n \in Due'
      BY <2>3, <3>1 DEF Due
    <3>3. TokenOf(n)'.what = op
      BY <1>6 DEF TokenOf, Closes
    <3> QED BY <1>4, <3>2, <3>3
  <2> QED BY <1>2, <1>4, <2>5, <2>6, <2>7 DEF OwnCall
<1>9. ASSUME frames # <<>> PROVE SinkCall(f)'
  <2>1. InSink /\ Level # 0
    BY <1>2, <1>9, LevelIs DEF InSink, InCall
  <2>2. npending <= 1 /\ \A i \in 1 .. npending : Foreign(lists[cur][i])
    BY <2>1 DEF CallsMade
  <2>3. \A c : Foreign(c) => Foreign(c)'
    BY <1>2, Later
  <2>4. Foreign(n)'
    BY <1>6, <2>1 DEF Foreign
  <2>5. ASSUME NEW j \in f.next .. f.n, NEW c, c = lists'[f.run][j]
        PROVE  Foreign(c)' /\ c < f.call
    <3>1. Foreign(c)
      BY <1>2, <1>4, <2>2, <2>5
    <3>2. c \in 1 .. n - 1
      BY <1>6, <3>1 DEF Foreign
    <3> QED BY <1>4, <1>6, <2>3, <3>1, <3>2
  <2> QED BY <1>4, <2>2, <2>4, <2>5 DEF SinkCall
<1>10. \A i \in 1 .. Len(frames') : \A g \in {frames'[i]} : g.op # "sink" => CallMade(g, i)'
  <2>1. \A i \in 1 .. Len(frames') : i \in 1 .. Len(frames) \/ i = Len(frames) + 1
    BY <1>2, <1>5
  <2>2. PICK m : m = Len(frames) + 1
    OBVIOUS
  <2>3. CallMade(f, m)'
    <3>1. frames = <<>> <=> m = 1
      BY <1>2, <2>2, FirstFrame, EmptySeq
    <3> QED BY <1>8, <1>9, <3>1 DEF CallMade
  <2>4. \A g \in {frames'[m]} : g.op # "sink" => CallMade(g, m)'
    BY <1>5, <2>2, <2>3
  <2> QED BY <1>7, <2>1, <2>2, <2>4
<1>11. ASSUME NEW i \in 1 .. Len(frames'), frames'[i].op # "sink",
              i < Len(frames') \/ frames'[i].fetched # {}
       PROVE  frames'[i].next >= 2
  <2>1. i \in 1 .. Len(frames)
    BY <1>2, <1>4, <1>5, <1>11
  <2>2. i < Len(frames)
    <3>1. frames # <<>>
      BY <2>1, EmptySeq
    <3>2. Top.op = "sink"
      BY <1>2, <3>1 DEF InCall
    <3> QED BY <1>2, <1>5, <1>11, <2>1, <3>2 DEF Top
  <2> QED BY <1>5, <1>11, <2>1, <2>2 DEF CallsMade
<1>12. ~InSink'
  BY <1>2, <1>4, <1>5 DEF InSink, Top
<1> QED BY <1>10, <1>11, <1>12 DEF CallsMade

(* Writing: no call is made and no slot stored to.  The first m frames     *)
(* stay, and the rest is at most one frame more.                           *)
LEMMA QuietCalls ==
  ASSUME IInv, IInv', Meant, CallsMade, UNCHANGED <<lists, log>>,
         NEW m, m \in 0 .. Len(frames), m <= Len(frames'), \A i \in 1 .. m : frames'[i] = frames[i],
         Len(frames') \in {m, m + 1},
         \A f \in {frames'[m + 1]} :
           Len(frames') = m + 1 /\ f.op # "sink" =>
             f \in Frame /\ CallMade(f, m + 1) /\ (f.fetched # {} => f.next >= 2),
         Len(frames') = m + 1 /\ frames'[m + 1].op = "sink" =>
           m > 0 /\ (frames[m].op # "sink" => frames[m].next >= 2),
         InSink' => npending' = 0
  PROVE  CallsMade'
<1>1. /\ TypeOK /\ TypeOK' /\ Len(frames) \in Nat /\ m \in Nat /\ m + 1 \in Nat /\ m + 1 # 0
      /\ UNCHANGED log \/ \E op \in Ops : Logged(op)
  <2>1. TypeOK /\ TypeOK'
    BY DEF IInv
  <2>2. Len(frames) \in Nat
    BY <2>1, LenProperties DEF TypeOK
  <2>3. m \in Nat /\ m + 1 \in Nat /\ m + 1 # 0
    BY <2>2
  <2> QED BY <2>1, <2>2, <2>3
<1>2. \A i \in 1 .. m : \A f \in {frames'[i]} : f.op # "sink" => CallMade(f, i)'
  BY <1>1, CallsStay
<1>3. ASSUME Len(frames') = m + 1, NEW f, f = frames'[m + 1], f.op # "sink"
      PROVE  \A k \in {m + 1} : CallMade(f, k)'
  <2>1. f \in Frame /\ CallMade(f, m + 1) /\ \A j \in f.next .. f.n : lists'[f.run][j] = lists[f.run][j]
    BY <1>3
  <2>2. OwnCall(f) => OwnCall(f)'
    BY <1>1, <2>1, OwnCallKept
  <2>3. SinkCall(f) => SinkCall(f)'
    BY <1>1, <2>1, SinkCallKept
  <2> QED BY <2>1, <2>2, <2>3 DEF CallMade
<1>4. \A i \in 1 .. Len(frames') : \A f \in {frames'[i]} : f.op # "sink" => CallMade(f, i)'
  <2> SUFFICES ASSUME NEW i \in 1 .. Len(frames'), NEW f, f = frames'[i], f.op # "sink"
               PROVE  CallMade(f, i)'
    OBVIOUS
  <2>1. CASE i \in 1 .. m
    BY <1>2, <2>1
  <2>2. CASE i \notin 1 .. m
    <3>1. i = m + 1 /\ Len(frames') = m + 1
      BY <1>1, <2>2
    <3> QED BY <1>3, <3>1
  <2> QED BY <2>1, <2>2
<1>5. ASSUME NEW i \in 1 .. Len(frames'), frames'[i].op # "sink",
             i < Len(frames') \/ frames'[i].fetched # {}
      PROVE  frames'[i].next >= 2
  <2>1. CASE i = m + 1
    BY <1>1, <1>5, <2>1
  <2>2. CASE i # m + 1
    <3>1. i \in 1 .. m /\ i \in 1 .. Len(frames) /\ frames'[i] = frames[i]
      BY <1>1, <1>5, <2>2
    <3>2. CASE i < Len(frames)
      BY <1>5, <3>1, <3>2 DEF CallsMade
    <3>3. CASE i = Len(frames) /\ frames'[i].fetched # {}
      BY <1>5, <3>1, <3>3 DEF CallsMade
    <3>4. CASE i = Len(frames) /\ i < Len(frames')
      <4>1. i = m /\ Len(frames') = m + 1
        BY <1>1, <3>1, <3>4
      <4>2. CASE frames'[m + 1].op = "sink"
        BY <1>5, <3>1, <4>1, <4>2
      <4>3. CASE frames'[m + 1].op # "sink"
        <5>1. m + 1 \in 1 .. Len(frames') /\ m + 1 > 1 /\ m + 1 - 1 = m
          BY <1>1, <4>1
        <5>2. frames'[m].op = "sink"
          BY <4>3, <5>1 DEF IInv, Nested
        <5> QED BY <1>5, <4>1, <5>2
      <4> QED BY <4>2, <4>3
    <3> QED BY <1>1, <1>5, <3>1, <3>2, <3>3, <3>4
  <2> QED BY <2>1, <2>2
<1>6. InSink' => npending' <= 1 /\ \A c \in {lists'[cur'][i] : i \in 1 .. npending'} : Foreign(c)'
  OBVIOUS
<1> QED BY <1>4, <1>5, <1>6 DEF CallsMade

(* A call reads the next of its tokens.                                    *)
LEMMA FetchCalls ==
  ASSUME IInv, IInv', Meant, CallsMade, Fetch
  PROVE  CallsMade'
<1>1. /\ InCall /\ frames # <<>> /\ Top.op # "sink" /\ Top.fetched = {} /\ npending = 0
      /\ UNCHANGED <<lists, cur, npending, log>>
  BY DEF Fetch, held, InCall, IInv, HeldByTop
<1>2. PICK f \in Frame :
         /\ frames' = [frames EXCEPT ![Len(frames)] = f]
         /\ f.op = Top.op /\ f.call = Top.call /\ f.run = Top.run /\ f.n = Top.n /\ f.at = Top.at
         /\ f.next = Top.next + 1 /\ f.fetched = {Token}
  BY FetchStep
<1>3. PICK m : m = Len(frames) - 1
  OBVIOUS
<1>4. /\ Len(frames) = m + 1 /\ m \in Nat /\ Len(frames') = m + 1 /\ frames'[m + 1] = f
      /\ \A i \in 1 .. m : frames'[i] = frames[i]
      /\ Top = frames[m + 1] /\ m + 1 \in 1 .. Len(frames) /\ Top \in Frame /\ Top.next \in Nat
      /\ Top.n \in Nat
  <2>1. /\ Len(frames) \in Nat /\ Len(frames) >= 1 /\ Len(frames') = Len(frames)
        /\ \A i \in 1 .. Len(frames) : frames'[i] = IF i = Len(frames) THEN f ELSE frames[i]
    BY <1>1, <1>2, StackStep DEF IInv
  <2>2. Len(frames) = m + 1 /\ m \in Nat
    BY <1>3, <2>1
  <2>3. Top = frames[m + 1] /\ m + 1 \in 1 .. Len(frames)
    BY <2>2 DEF Top
  <2>4. Top \in Frame
    BY <1>1, <2>3, FrameKinds DEF IInv
  <2> QED BY <2>1, <2>2, <2>3, <2>4 DEF Frame
<1>5. CallMade(Top, m + 1) /\ Top.next >= 1
  BY <1>1, <1>4 DEF CallsMade, IInv, Nested, CallFits
<1>6. Token = IF Top.next <= Top.n THEN [what |-> "start", call |-> lists[Top.run][Top.next]]
                                   ELSE [what |-> Top.op, call |-> Top.call]
  BY DEF Token
<1>7. OwnCall(Top) => OwnCall(f)
  <2> SUFFICES ASSUME OwnCall(Top) PROVE OwnCall(f)
    OBVIOUS
  <2>1. /\ \A j \in Top.next .. Top.n : lists[Top.run][j] \in Due \cap Begins /\ lists[Top.run][j] < Top.call
        /\ \A i, j \in Top.next .. Top.n : i < j => lists[Top.run][i] < lists[Top.run][j]
        /\ Top.call \in Due /\ TokenOf(Top.call).what = Top.op
        /\ Top.next <= Top.n + 1
    BY <1>1 DEF OwnCall
  <2>2. \A j \in f.next .. f.n : j \in Top.next .. Top.n /\ Top.next < j
    BY <1>2, <1>4
  <2>3. /\ \A j \in f.next .. f.n : lists[f.run][j] \in Due \cap Begins /\ lists[f.run][j] < f.call
        /\ \A i, j \in f.next .. f.n : i < j => lists[f.run][i] < lists[f.run][j]
        /\ f.call \in Due /\ TokenOf(f.call).what = f.op /\ f.fetched # {}
    BY <1>2, <2>1, <2>2
  <2>4. ASSUME NEW t \in f.fetched
        PROVE  /\ f.fetched = {t} /\ t.call \in Due /\ t = TokenOf(t.call)
               /\ \A j \in f.next .. f.n : t.call < lists[f.run][j]
               /\ \/ t.what = "start" /\ t.call < f.call /\ f.next <= f.n + 1
                  \/ t.what = f.op /\ t.call = f.call /\ f.next = f.n + 2
    <3>1. t = Token /\ f.fetched = {t}
      BY <1>2
    <3>2. CASE Top.next <= Top.n
      <4>1. PICK k : k = lists[Top.run][Top.next]
        OBVIOUS
      <4>2. Top.next \in Top.next .. Top.n
        BY <1>4, <3>2
      <4>3. k \in Due /\ k \in Begins /\ k < Top.call
        BY <2>1, <4>1, <4>2
      <4>4. t = [what |-> "start", call |-> k]
        BY <1>6, <3>1, <3>2, <4>1
      <4>5. t = TokenOf(k)
        BY <4>3, <4>4 DEF TokenOf, Begins, Closes
      <4>6. \A j \in f.next .. f.n : k < lists[f.run][j]
        BY <1>2, <2>1, <2>2, <4>1, <4>2
      <4>7. f.next <= f.n + 1
        BY <1>2, <1>4, <3>2
      <4> QED BY <1>2, <3>1, <4>3, <4>4, <4>5, <4>6, <4>7
    <3>3. CASE ~(Top.next <= Top.n)
      <4>1. t = [what |-> Top.op, call |-> Top.call]
        BY <1>6, <3>1, <3>3
      <4>2. t = TokenOf(Top.call)
        BY <2>1, <4>1 DEF TokenOf
      <4>3. f.next = f.n + 2 /\ \A j \in f.next .. f.n : FALSE
        BY <1>2, <1>4, <2>1, <3>3
      <4> QED BY <1>2, <2>1, <3>1, <4>1, <4>2, <4>3
    <3> QED BY <3>2, <3>3
  <2> QED BY <2>3, <2>4 DEF OwnCall
<1>8. SinkCall(Top) => SinkCall(f)
  <2> SUFFICES ASSUME SinkCall(Top) PROVE SinkCall(f)
    OBVIOUS
  <2>1. \A j \in f.next .. f.n : j \in Top.next .. Top.n
    BY <1>2, <1>4
  <2>2. Foreign(Token.call)
    <3>1. CASE Top.next <= Top.n
      <4>1. Top.next \in Top.next .. Top.n /\ Token.call = lists[Top.run][Top.next]
        BY <1>4, <1>6, <3>1
      <4> QED BY <4>1 DEF SinkCall
    <3>2. CASE ~(Top.next <= Top.n)
      BY <1>6, <3>2 DEF SinkCall
    <3> QED BY <3>1, <3>2
  <2> QED BY <1>2, <2>1, <2>2 DEF SinkCall
<1>9. f.op # "sink" => f \in Frame /\ CallMade(f, m + 1) /\ f.next >= 2
  BY <1>2, <1>4, <1>5, <1>7, <1>8 DEF CallMade
<1>10. f.op # "sink" /\ ~InSink'
  BY <1>1, <1>2, <1>4 DEF InSink, Top
<1>11. /\ m \in 0 .. Len(frames) /\ m <= Len(frames') /\ Len(frames') \in {m, m + 1}
       /\ \A g \in {frames'[m + 1]} :
            Len(frames') = m + 1 /\ g.op # "sink" =>
              g \in Frame /\ CallMade(g, m + 1) /\ (g.fetched # {} => g.next >= 2)
       /\ ~(Len(frames') = m + 1 /\ frames'[m + 1].op = "sink")
       /\ InSink' => npending' = 0
  BY <1>4, <1>9, <1>10
<1>12. UNCHANGED <<lists, log>> /\ \A i \in 1 .. m : frames'[i] = frames[i]
  BY <1>1, <1>4
<1> QED BY <1>11, <1>12, QuietCalls

(* The sink runs: the call it interrupts has read a token.                 *)
LEMMA DrainCalls ==
  ASSUME IInv, IInv', Meant, CallsMade, Drain
  PROVE  CallsMade'
<1>1. /\ InCall /\ frames # <<>> /\ Top.op # "sink" /\ Top.fetched # {} /\ npending = 0
      /\ UNCHANGED <<lists, cur, npending, log>> /\ Push([op |-> "sink", at |-> depth])
  BY DEF Drain, held, InCall, IInv, HeldByTop
<1>2. PICK f : f = [op |-> "sink", at |-> depth]
  OBVIOUS
<1>3. f \in SinkFrame /\ f.op = "sink" /\ Push(f) /\ TypeOK
  BY <1>1, <1>2 DEF SinkFrame, IInv, TypeOK
<1>4. PICK m : m = Len(frames)
  OBVIOUS
<1>5. /\ m \in Nat /\ m > 0 /\ Len(frames') = m + 1 /\ frames'[m + 1] = f
      /\ \A i \in 1 .. m : frames'[i] = frames[i]
  BY <1>1, <1>3, <1>4, StackPush, FirstFrame DEF IInv
<1>6. frames[m].op # "sink" => frames[m].next >= 2
  BY <1>1, <1>4, <1>5 DEF CallsMade, Top
<1>7. /\ m \in 0 .. Len(frames) /\ m <= Len(frames') /\ Len(frames') \in {m, m + 1}
      /\ \A g \in {frames'[m + 1]} :
           Len(frames') = m + 1 /\ g.op # "sink" =>
             g \in Frame /\ CallMade(g, m + 1) /\ (g.fetched # {} => g.next >= 2)
      /\ Len(frames') = m + 1 /\ frames'[m + 1].op = "sink" =>
           m > 0 /\ (frames[m].op # "sink" => frames[m].next >= 2)
      /\ InSink' => npending' = 0
  BY <1>1, <1>3, <1>4, <1>5, <1>6
<1>8. UNCHANGED <<lists, log>>
  BY <1>1
<1> QED BY <1>5, <1>7, <1>8, QuietCalls

(* The sink, or a call, returns to what is below it.                       *)
LEMMA PopCalls ==
  ASSUME IInv, IInv', Meant, CallsMade, frames # <<>>, frames' = Popped,
         UNCHANGED <<lists, npending, log>>, npending = 0
  PROVE  CallsMade'
<1>1. PICK m : m = Len(frames) - 1
  OBVIOUS
<1>2. /\ m \in Nat /\ Len(frames) = m + 1 /\ Len(frames') = m
      /\ \A i \in 1 .. m : frames'[i] = frames[i]
  BY <1>1, StackPop DEF IInv
<1>3. /\ m \in 0 .. Len(frames) /\ m <= Len(frames') /\ Len(frames') \in {m, m + 1}
      /\ Len(frames') # m + 1
  BY <1>2
<1> QED BY <1>2, <1>3, QuietCalls

LEMMA WriteCalls ==
  ASSUME IInv, IInv', Meant, CallsMade, Write
  PROVE  CallsMade'
<1>1. /\ InCall /\ frames # <<>> /\ Top.op # "sink" /\ npending = 0
      /\ UNCHANGED <<lists, cur, npending, log>>
  BY DEF Write, held, InCall, IInv, HeldByTop
<1>2. PICK t \in Top.fetched :
        /\ t.what \in {"start", Top.op}
        /\ \/ /\ t.what = "start"
              /\ \E f \in Frame :
                   /\ frames' = [frames EXCEPT ![Len(frames)] = f]
                   /\ f.op = Top.op /\ f.call = Top.call /\ f.run = Top.run /\ f.n = Top.n
                   /\ f.next = Top.next /\ f.fetched = {}
           \/ frames' = Popped
  BY WriteStep
<1>3. CASE frames' = Popped
  BY <1>1, <1>3, PopCalls
<1>4. ASSUME t.what = "start", NEW f \in Frame, frames' = [frames EXCEPT ![Len(frames)] = f],
             f.op = Top.op, f.call = Top.call, f.run = Top.run, f.n = Top.n,
             f.next = Top.next, f.fetched = {}
      PROVE  CallsMade'
  <2>1. PICK m : m = Len(frames) - 1
    OBVIOUS
  <2>2. /\ Len(frames) = m + 1 /\ m \in Nat /\ Len(frames') = m + 1 /\ frames'[m + 1] = f
        /\ \A i \in 1 .. m : frames'[i] = frames[i]
        /\ Top = frames[m + 1] /\ m + 1 \in 1 .. Len(frames) /\ Top \in Frame
    <3>1. /\ Len(frames) \in Nat /\ Len(frames) >= 1 /\ Len(frames') = Len(frames)
          /\ \A i \in 1 .. Len(frames) : frames'[i] = IF i = Len(frames) THEN f ELSE frames[i]
      BY <1>1, <1>4, StackStep DEF IInv
    <3>2. Len(frames) = m + 1 /\ m \in Nat
      BY <2>1, <3>1
    <3>3. Top = frames[m + 1] /\ m + 1 \in 1 .. Len(frames)
      BY <3>2 DEF Top
    <3>4. Top \in Frame
      BY <1>1, <3>3, FrameKinds DEF IInv
    <3> QED BY <3>1, <3>2, <3>3, <3>4
  <2>3. CallMade(Top, m + 1)
    BY <1>1, <2>2 DEF CallsMade
  <2>4. OwnCall(Top) => OwnCall(f)
    <3> SUFFICES ASSUME OwnCall(Top) PROVE OwnCall(f)
      OBVIOUS
    <3>1. /\ \A j \in f.next .. f.n : lists[f.run][j] \in Due \cap Begins /\ lists[f.run][j] < f.call
          /\ \A i, j \in f.next .. f.n : i < j => lists[f.run][i] < lists[f.run][j]
          /\ f.call \in Due /\ TokenOf(f.call).what = f.op
      BY <1>4 DEF OwnCall
    <3>2. f.next <= f.n + 1
      BY <1>2, <1>4 DEF OwnCall, Frame
    <3> QED BY <1>4, <3>1, <3>2 DEF OwnCall
  <2>5. SinkCall(Top) => SinkCall(f)
    BY <1>4 DEF SinkCall
  <2>6. CallMade(f, m + 1)
    BY <2>3, <2>4, <2>5 DEF CallMade
  <2>7. f.op # "sink" /\ ~InSink'
    BY <1>1, <1>4, <2>2 DEF InSink, Top
  <2>8. /\ m \in 0 .. Len(frames) /\ m <= Len(frames') /\ Len(frames') \in {m, m + 1}
        /\ \A g \in {frames'[m + 1]} :
             Len(frames') = m + 1 /\ g.op # "sink" =>
               g \in Frame /\ CallMade(g, m + 1) /\ (g.fetched # {} => g.next >= 2)
        /\ ~(Len(frames') = m + 1 /\ frames'[m + 1].op = "sink")
        /\ InSink' => npending' = 0
    BY <1>4, <2>2, <2>6, <2>7
  <2>9. UNCHANGED <<lists, log>>
    BY <1>1
  <2> QED BY <2>2, <2>8, <2>9, QuietCalls
<1> QED BY <1>2, <1>3, <1>4

LEMMA InitCalls == Init => CallsMade
<1> SUFFICES ASSUME Init PROVE CallsMade
  OBVIOUS
<1>1. frames = <<>> /\ Len(frames) = 0
  BY EmptySeq DEF Init
<1> QED BY <1>1 DEF CallsMade, InSink

LEMMA NextCalls ==
  SinkDepth <= 1 /\ IInv /\ IInv' /\ Meant /\ HeldBack /\ CallsMade /\ [Next]_vars => CallsMade'
<1> SUFFICES ASSUME SinkDepth <= 1, IInv, IInv', Meant, HeldBack, CallsMade, [Next]_vars
             PROVE  CallsMade'
  OBVIOUS
<1>1. CASE Begin
  BY <1>1, BeginCalls
<1>2. CASE DropEmpty
  BY <1>2, DropCalls
<1>3. CASE WriteField
  <2>1. Callable /\ Commit("field") /\ Logged("field")
    BY <1>3 DEF WriteField
  <2> QED BY <2>1, CommitCalls
<1>4. CASE EndSequence
  <2>1. Callable /\ Commit("end") /\ Logged("end") /\ depth > Floor /\ npending = 0
    BY <1>4 DEF EndSequence
  <2> QED BY <2>1, CommitCalls
<1>5. CASE EndKeep
  <2>1. Callable /\ Commit("end") /\ Logged("keep") /\ depth > Floor
    BY <1>5 DEF EndKeep
  <2> QED BY <2>1, CommitCalls
<1>6. CASE Fetch \/ Drain \/ Write
  BY <1>6, FetchCalls, DrainCalls, WriteCalls
<1>7. CASE SinkReturns
  <2>1. InSink /\ depth = Top.at /\ frames' = Popped /\ frames # <<>>
        /\ UNCHANGED <<lists, cur, npending, log>>
    BY <1>7 DEF SinkReturns, Floor, InSink, held
  <2>2. Top.at \in Nat /\ npending \in Nat
    BY <2>1, TopFrame, FrameKinds DEF IInv, TypeOK
  <2>3. npending = 0
    BY <2>1, <2>2 DEF IInv, HeldByTop
  <2> QED BY <2>1, <2>3, PopCalls
<1>8. CASE Fail
  <2>1. frames' = <<>> /\ Len(frames') = 0
    BY <1>8, EmptySeq DEF Fail
  <2> QED BY <2>1 DEF CallsMade, InSink
<1>9. CASE UNCHANGED vars
  <2>1. UNCHANGED <<lists, cur, npending, frames, log>>
    BY <1>9 DEF vars, held
  <2>2. /\ TypeOK /\ TypeOK' /\ Len(frames) \in Nat
        /\ UNCHANGED log \/ \E op \in Ops : Logged(op)
    <3>1. TypeOK /\ TypeOK'
      BY DEF IInv
    <3>2. Len(frames) \in Nat
      BY <3>1, LenProperties DEF TypeOK
    <3> QED BY <2>1, <3>1, <3>2
  <2>3. \A i \in 1 .. Len(frames) : \A f \in {frames'[i]} : f.op # "sink" => CallMade(f, i)'
    <3>1. PICK m : m = Len(frames)
      OBVIOUS
    <3>2. m \in 0 .. Len(frames) /\ m <= Len(frames') /\ \A i \in 1 .. m : frames'[i] = frames[i]
      BY <2>1, <2>2, <3>1
    <3>3. \A i \in 1 .. m : \A f \in {frames'[i]} : f.op # "sink" => CallMade(f, i)'
      BY <2>1, <2>2, <3>2, CallsStay
    <3> QED BY <3>1, <3>3
  <2>4. \A c : Foreign(c) => Foreign(c)'
    BY <2>2, Later
  <2> QED BY <2>1, <2>3, <2>4 DEF CallsMade, InSink, Top
<1> QED BY <1>1, <1>2, <1>3, <1>4, <1>5, <1>6, <1>7, <1>8, <1>9 DEF Next

(* encoder.py, __init__: the swap keeps the headers a call has still to    *)
(* write those of sequences opened before it, if no sink opens a second    *)
(* sequence inside its first.                                              *)
LEMMA RunKept == IInv /\ CallsMade => RunNotOverwritten
<1> SUFFICES ASSUME IInv, CallsMade, NEW i \in 1 .. Len(frames), frames[i].op # "sink",
                    NEW j \in frames[i].next .. frames[i].n
             PROVE  lists[frames[i].run][j] < frames[i].call
  BY DEF RunNotOverwritten
<1>1. PICK f : f = frames[i]
  OBVIOUS
<1>2. CallMade(f, i)
  BY <1>1 DEF CallsMade
<1> QED BY <1>1, <1>2 DEF CallMade, OwnCall, SinkCall

-----------------------------------------------------------------------------
(* What the wire holds.                                                    *)

(* The calls whose tokens the caller's call under way has still to write.  *)
Bottom == IF frames = <<>> THEN {} ELSE {frames[1]}
ToWrite(f) == {lists[f.run][j] : j \in f.next .. f.n} \cup {t.call : t \in f.fetched} \cup {f.call}
Waiting == UNION {ToWrite(f) : f \in Bottom}

(* Everything due is on the wire or waiting, in order, and what may become *)
(* due yet comes later.                                                    *)
WireKept ==
  /\ \A i \in 1 .. Len(out) : out[i].call \in 1 .. Len(log)
  /\ \A i \in Written : \E k \in Due : out[i] = TokenOf(k)
  /\ InCallOrder
  /\ \A i \in Written : \A c \in Waiting : out[i].call < c
  /\ \A i \in Written : \A b \in Opened : ~Framed(b) => out[i].call < b
  /\ ~failed => \A k \in Due : k \in Waiting \/ \E i \in Written : out[i] = TokenOf(k)
  /\ failed => frames = <<>> /\ NoTokenAhead

(* Nothing is written.                                                     *)
LEMMA WireStays ==
  ASSUME TypeOK, TypeOK', Meant, WireKept, UNCHANGED log \/ \E op \in Ops : Logged(op),
         out' = out, ~failed',
         \A i \in Written : \A c \in Waiting' : out[i].call < c,
         \A i \in Written : \A b \in Opened' : ~Framed(b)' => out[i].call < b,
         \A k \in Due' : k \in Waiting' \/ (k \in Due /\ \E i \in Written : out[i] = TokenOf(k))
  PROVE  WireKept'
<1>1. /\ \A k \in Due : k \in Due' /\ TokenOf(k)' = TokenOf(k)
      /\ Own \subseteq Own'
  BY Later
<1>2. /\ Len(log) \in Nat /\ Len(log') \in Nat /\ Len(log) <= Len(log')
      /\ \A k \in 1 .. Len(log) : k \in Own' => k \in Own
  <2>1. CASE UNCHANGED log
    BY <2>1, LenProperties DEF TypeOK, Own
  <2>2. ASSUME NEW op \in Ops, Logged(op)
        PROVE  /\ Len(log) \in Nat /\ Len(log') \in Nat /\ Len(log) <= Len(log')
               /\ \A k \in 1 .. Len(log) : k \in Own' => k \in Own
    <3>1. PICK n : n = Len(log) + 1
      OBVIOUS
    <3>2. /\ n \in Nat /\ Len(log') = n /\ Len(log) = n - 1
          /\ Own' = Own \cup (IF Level = 0 THEN {n} ELSE {})
      BY <2>2, <3>1, LogGrows
    <3> QED BY <3>2
  <2> QED BY <2>1, <2>2
<1>3. \A i \in 1 .. Len(out') : out'[i].call \in 1 .. Len(log')
  BY <1>2 DEF WireKept
<1>4. Written' = Written
  <2>1. \A i \in 1 .. Len(out) : out[i].call \in Own' <=> out[i].call \in Own
    BY <1>1, <1>2 DEF WireKept
  <2> QED BY <2>1 DEF Written
<1>5. \A i \in Written' : \E k \in Due' : out'[i] = TokenOf(k)'
  BY <1>1, <1>4 DEF WireKept
<1>6. InCallOrder'
  BY <1>4 DEF WireKept, InCallOrder
<1>7. ASSUME NEW k \in Due' PROVE k \in Waiting' \/ \E i \in Written' : out'[i] = TokenOf(k)'
  BY <1>1, <1>4
<1> QED BY <1>3, <1>4, <1>5, <1>6, <1>7 DEF WireKept

(* A call of a sink's.                                                     *)
LEMMA SinkWire ==
  ASSUME TypeOK, TypeOK', Meant, WireKept, ~failed, ~failed', NEW op \in Ops, Logged(op), Level # 0,
         out' = out, Waiting' = Waiting
  PROVE  WireKept'
<1>1. /\ Own' = Own /\ Opened' = Opened
  BY SinkMeans
<1>2. Due' = Due
  <2>1. \A k \in Own : OnWire(k)' <=> OnWire(k)
    BY DueKept
  <2> QED BY <1>1, <2>1 DEF Due
<1>3. \A b \in Opened : Framed(b)' <=> Framed(b)
  BY FramedMoves, OwnTyped
<1>4. /\ \A i \in Written : \A c \in Waiting' : out[i].call < c
      /\ \A i \in Written : \A b \in Opened' : ~Framed(b)' => out[i].call < b
      /\ \A k \in Due' : k \in Waiting' \/ (k \in Due /\ \E i \in Written : out[i] = TokenOf(k))
  BY <1>1, <1>2, <1>3 DEF WireKept
<1> QED BY <1>4, WireStays

(* Writing, all but the write itself.                                      *)
LEMMA QuietWire ==
  ASSUME TypeOK, TypeOK', Meant, WireKept, ~failed, ~failed', UNCHANGED <<log, out>>, Waiting' = Waiting
  PROVE  WireKept'
<1>1. /\ Own' = Own /\ Opened' = Opened /\ Due' = Due /\ Opened \subseteq Own
      /\ \A k \in Own : Framed(k)' <=> Framed(k)
  BY QuietMeans, OwnTyped
<1>2. /\ \A i \in Written : \A c \in Waiting' : out[i].call < c
      /\ \A i \in Written : \A b \in Opened' : ~Framed(b)' => out[i].call < b
      /\ \A k \in Due' : k \in Waiting' \/ (k \in Due /\ \E i \in Written : out[i] = TokenOf(k))
  BY <1>1 DEF WireKept
<1> QED BY <1>2, WireStays

LEMMA BottomIs ==
  /\ frames = <<>> => Waiting = {}
  /\ \A f : frames # <<>> /\ f = frames[1] => Waiting = ToWrite(f)
  BY DEF Waiting, Bottom

(* Between its calls the caller opens a sequence: it comes after all that  *)
(* is written.                                                             *)
LEMMA BeginWire ==
  ASSUME IInv, IInv', Meant, WireKept, frames = <<>>, Begin
  PROVE  WireKept'
<1>1. PICK n : n = Len(log) + 1
  OBVIOUS
<1>2. /\ ~failed /\ ~failed' /\ Logged("begin") /\ frames' = <<>> /\ out' = out
      /\ "begin" \in Ops /\ TypeOK /\ TypeOK' /\ Level = 0
  BY LevelIs DEF Begin, Callable, Ops, IInv
<1>3. /\ Own' = Own \cup {n} /\ \A k \in Own : k < n
      /\ Opened' = Opened \cup {n} /\ ~OnWire(n)'
  BY <1>1, <1>2, OwnMeans, DueNew
<1>4. Waiting = {} /\ Waiting' = {}
  BY <1>2 DEF Waiting, Bottom
<1>5. \A b \in Opened : Framed(b)' <=> Framed(b)
  BY <1>2, FramedMoves, OwnTyped
<1>6. Due' \subseteq Due
  <2>1. \A k \in Own : OnWire(k)' <=> OnWire(k)
    BY <1>2, DueKept
  <2> QED BY <1>3, <2>1 DEF Due
<1>7. \A i \in Written : out[i].call < n
  BY <1>3 DEF Written
<1>8. /\ \A i \in Written : \A c \in Waiting' : out[i].call < c
      /\ \A i \in Written : \A b \in Opened' : ~Framed(b)' => out[i].call < b
      /\ \A k \in Due' : k \in Waiting' \/ (k \in Due /\ \E i \in Written : out[i] = TokenOf(k))
  BY <1>2, <1>3, <1>4, <1>5, <1>6, <1>7 DEF WireKept
<1>9. UNCHANGED log \/ \E o \in Ops : Logged(o)
  BY <1>2
<1> QED BY <1>2, <1>8, <1>9, WireStays

(* It closes an empty one: neither its begin nor its end is due.           *)
LEMMA DropWire ==
  ASSUME IInv, IInv', Meant, HeldBack, WireKept, frames = <<>>, DropEmpty
  PROVE  WireKept'
<1>1. PICK n : n = Len(log) + 1
  OBVIOUS
<1>2. /\ ~failed /\ ~failed' /\ Logged("end") /\ frames' = <<>> /\ out' = out /\ npending > 0
      /\ "end" \in Ops /\ TypeOK /\ TypeOK' /\ Level = 0 /\ npending \in Nat /\ depth \in Nat
      /\ npending <= depth /\ Between
  BY LevelIs DEF DropEmpty, Callable, Ops, IInv, TypeOK, HeldBack
<1>3. PICK m \in Opened : OpenAfter(m) = Balance /\ ~Framed(m)
  <2>1. npending \in 1 .. npending /\ depth - npending + npending = Balance
    BY <1>2 DEF Between
  <2> QED BY <1>2, <2>1 DEF Between
<1>4. ~OnWire(n)'
  <2>1. OnWire(n)' <=> "end" = "keep" \/ Framed(m)
    BY <1>1, <1>2, <1>3, DueNew
  <2> QED BY <1>3, <2>1
<1>5. /\ Own' = Own \cup {n} /\ Opened' \subseteq Opened
  <2>1. /\ Own' = Own \cup {n} /\ Opened' = {b \in Opened : OpenAfter(b) # Balance}
    BY <1>1, <1>2, OwnMeans
  <2> QED BY <2>1
<1>6. Waiting = {} /\ Waiting' = {}
  BY <1>2 DEF Waiting, Bottom
<1>7. \A b \in Opened : Framed(b)' <=> Framed(b)
  BY <1>2, FramedMoves, OwnTyped
<1>8. Due' \subseteq Due
  <2>1. \A k \in Own : OnWire(k)' <=> OnWire(k)
    BY <1>2, DueKept
  <2> QED BY <1>4, <1>5, <2>1 DEF Due
<1>9. /\ \A i \in Written : \A c \in Waiting' : out[i].call < c
      /\ \A i \in Written : \A b \in Opened' : ~Framed(b)' => out[i].call < b
      /\ \A k \in Due' : k \in Waiting' \/ (k \in Due /\ \E i \in Written : out[i] = TokenOf(k))
  BY <1>2, <1>5, <1>6, <1>7, <1>8 DEF WireKept
<1>10. UNCHANGED log \/ \E o \in Ops : Logged(o)
  BY <1>2
<1> QED BY <1>2, <1>9, <1>10, WireStays

(* It makes a call that writes: what becomes due with it is what it takes. *)
LEMMA CommitWire ==
  ASSUME IInv, IInv', Meant, HeldBack, HeldBack', WireKept, frames = <<>>,
         Callable, NEW op \in {"field", "end"}, Commit(op),
         NEW name \in {"field", "end", "keep"}, Logged(name)
  PROVE  WireKept'
<1>1. PICK n : n = Len(log) + 1
  OBVIOUS
<1>2. /\ npending \in Nat /\ depth \in Nat /\ npending <= depth /\ ~failed /\ ~failed'
      /\ cur \in {0, 1} /\ name \in Ops /\ TypeOK /\ TypeOK' /\ lists' = lists /\ out' = out
      /\ Level = 0 /\ Between
  BY LevelIs DEF IInv, Ops, TypeOK, Commit, Callable, HeldBack
<1>3. PICK f : f = [op |-> op, call |-> n, run |-> cur, n |-> npending, next |-> 1,
                    fetched |-> {}, at |-> depth]
  OBVIOUS
<1>4. Push(f) /\ f \in Frame /\ f.call = n /\ f.run = cur /\ f.n = npending /\ f.next = 1
      /\ f.fetched = {}
  BY <1>1, <1>2, <1>3, LevelTyped DEF Commit, Frame, Call
<1>5. frames' # <<>> /\ frames'[1] = f
  <2>1. Len(frames) = 0 /\ frames' # <<>> /\ frames'[Len(frames) + 1] = f
    BY <1>2, <1>4, StackPush, EmptySeq
  <2> QED BY <2>1
<1>6. Waiting = {} /\ Waiting' = {lists[cur][j] : j \in 1 .. npending} \cup {n}
  <2>1. Waiting = {}
    BY DEF Waiting, Bottom
  <2>2. Waiting' = UNION {ToWrite(g)' : g \in {f}}
    BY <1>5 DEF Waiting, Bottom
  <2>3. ToWrite(f)' = {lists[cur][j] : j \in 1 .. npending} \cup {n}
    BY <1>2, <1>4 DEF ToWrite
  <2> QED BY <2>1, <2>2, <2>3
<1>7. /\ Own' = Own \cup {n} /\ \A k \in Own : k < n
  BY <1>1, <1>2, OwnMeans
<1>8. /\ Balance = depth
      /\ \A i \in 1 .. npending :
           \E b \in Opened : lists[cur][i] = b /\ OpenAfter(b) = depth - npending + i /\ ~Framed(b)
      /\ \A b \in Opened : OpenAfter(b) <= depth - npending => Framed(b)
  BY <1>2 DEF Between
<1>9. ASSUME NEW i \in Written, NEW c \in Waiting' PROVE out[i].call < c
  <2>1. CASE c = n
    BY <1>7, <2>1 DEF Written
  <2>2. CASE c # n
    <3>1. PICK j \in 1 .. npending : c = lists[cur][j]
      BY <1>6, <1>9, <2>2
    <3>2. c \in Opened /\ ~Framed(c)
      BY <1>8, <3>1
    <3> QED BY <3>2 DEF WireKept
  <2> QED BY <2>1, <2>2
<1>10. \A b \in Opened' : Framed(b)'
  <2>1. \A g \in {frames'[1]} : During(g)'
    BY <1>5 DEF HeldBack
  <2> QED BY <2>1 DEF During
<1>11. ASSUME NEW k \in Due'
       PROVE  k \in Waiting' \/ (k \in Due /\ \E i \in Written : out[i] = TokenOf(k))
  <2>1. CASE k = n
    BY <1>6, <2>1
  <2>2. CASE k \in Own /\ OnWire(k)
    BY <1>2, <1>6, <2>2 DEF WireKept, Due
  <2>3. CASE k \in Own /\ ~OnWire(k)
    <3>1. OnWire(k)'
      BY <1>11 DEF Due
    <3>2. k \in Opened
      BY <1>2, <2>3, <3>1, DueKept
    <3>3. log[k].op = "begin"
      BY <3>2 DEF Opened, Begins
    <3>4. ~Framed(k)
      BY <2>3, <3>3 DEF OnWire, Closes
    <3>5. OpenAfter(k) \in 1 .. Balance /\ ~(OpenAfter(k) <= depth - npending)
      BY <1>8, <3>2, <3>4 DEF Meant
    <3>6. PICK j \in 1 .. npending : OpenAfter(k) = depth - npending + j
      <4>1. OpenAfter(k) - (depth - npending) \in 1 .. npending
        BY <1>2, <1>8, <3>5
      <4>2. OpenAfter(k) = depth - npending + (OpenAfter(k) - (depth - npending))
        BY <1>2, <1>8, <3>5
      <4> QED BY <4>1, <4>2
    <3>7. PICK b \in Opened : lists[cur][j] = b /\ OpenAfter(b) = depth - npending + j
      BY <1>8
    <3>8. b = k
      <4>1. b \in Int /\ k \in Int
        BY <1>2, <3>2, OwnTyped
      <4>2. ~(OpenAfter(b) < OpenAfter(k)) /\ ~(OpenAfter(k) < OpenAfter(b))
        BY <1>2, <3>6, <3>7
      <4> QED BY <3>2, <4>1, <4>2 DEF Meant
    <3> QED BY <1>6, <3>7, <3>8
  <2> QED BY <1>7, <1>11, <2>1, <2>2, <2>3 DEF Due
<1>12. UNCHANGED log \/ \E o \in Ops : Logged(o)
  BY <1>2
<1> QED BY <1>2, <1>9, <1>10, <1>11, <1>12, WireStays

LEMMA WaitingStays ==
  ASSUME frames # <<>>, frames' # <<>>, frames'[1] = frames[1],
         \A f \in {frames[1]} : \A j \in f.next .. f.n : lists'[f.run][j] = lists[f.run][j]
  PROVE  Waiting' = Waiting
<1>1. PICK f : f = frames[1]
  OBVIOUS
<1>2. ToWrite(f)' = ToWrite(f)
  BY <1>1 DEF ToWrite
<1>3. Waiting = ToWrite(f) /\ Waiting' = UNION {ToWrite(g)' : g \in {f}}
  BY <1>1 DEF Waiting, Bottom
<1> QED BY <1>2, <1>3

(* The sink opens a sequence: its slot is none of those the caller's call  *)
(* has still to read.                                                      *)
LEMMA SinkBeginWire ==
  ASSUME SinkDepth <= 1, IInv, IInv', Meant, CallsMade, WireKept, frames # <<>>, Begin
  PROVE  WireKept'
<1>1. /\ Callable /\ lists' = [lists EXCEPT ![cur][npending + 1] = Call] /\ frames' = frames
      /\ ~failed /\ ~failed' /\ out' = out /\ Logged("begin") /\ "begin" \in Ops
      /\ (InSink => depth - Floor < SinkDepth) /\ TypeOK /\ TypeOK'
  BY DEF Begin, Callable, Ops, IInv
<1>2. /\ npending \in Nat /\ depth \in Nat /\ Floor \in Nat /\ ~InCall /\ Floor + npending <= depth
      /\ cur \in {0, 1} /\ lists \in [{0, 1} -> [1 .. MaxDepth -> Nat]]
  BY <1>1, CallSite DEF IInv
<1>3. InSink /\ Level # 0 /\ npending = 0
  <2>1. InSink
    BY <1>2 DEF InSink, InCall
  <2> QED BY <1>1, <1>2, <2>1, LevelIs, CallBounds
<1>4. PICK f : f = frames[1]
  OBVIOUS
<1>5. f \in Frame /\ f.next >= 2
  <2>1. Len(frames) > 1 /\ 1 \in 1 .. Len(frames) /\ frames[1].op # "sink" /\ frames[1] \in Frame
    BY <1>3, FirstFrame
  <2> QED BY <1>4, <2>1 DEF CallsMade
<1>6. ASSUME NEW j \in f.next .. f.n PROVE lists'[f.run][j] = lists[f.run][j]
  <2>1. j # npending + 1 /\ f.run \in {0, 1}
    BY <1>3, <1>5 DEF Frame
  <2> QED BY <1>1, <1>2, <2>1
<1>7. Waiting' = Waiting
  BY <1>1, <1>4, <1>6, WaitingStays
<1> QED BY <1>1, <1>3, <1>7, SinkWire

(* The sink makes any other call.                                          *)
LEMMA SinkOtherWire ==
  ASSUME IInv, IInv', Meant, WireKept, frames # <<>>, Callable, NEW op \in Ops, Logged(op),
         UNCHANGED <<lists, out, failed>>, frames' # <<>>, frames'[1] = frames[1]
  PROVE  WireKept'
<1>1. ~failed /\ ~failed' /\ InSink /\ TypeOK /\ TypeOK'
  BY DEF Callable, InSink, InCall, IInv
<1>2. Level # 0
  BY <1>1, LevelIs
<1>3. Waiting' = Waiting
  BY WaitingStays
<1> QED BY <1>1, <1>2, <1>3, SinkWire

(* Reading a token moves its call from the slots to it.                    *)
LEMMA FetchWire ==
  ASSUME IInv, IInv', Meant, CallsMade, WireKept, Fetch
  PROVE  WireKept'
<1>1. /\ InCall /\ frames # <<>> /\ Top.op # "sink" /\ Top.fetched = {} /\ TypeOK /\ TypeOK'
      /\ UNCHANGED <<lists, cur, npending, log, out, failed>>
  BY DEF Fetch, held, InCall, IInv
<1>2. ~failed /\ ~failed'
  BY <1>1 DEF WireKept
<1>3. PICK f \in Frame :
         /\ frames' = [frames EXCEPT ![Len(frames)] = f]
         /\ f.op = Top.op /\ f.call = Top.call /\ f.run = Top.run /\ f.n = Top.n /\ f.at = Top.at
         /\ f.next = Top.next + 1 /\ f.fetched = {Token}
  BY FetchStep
<1>4. /\ Len(frames) \in Nat /\ Len(frames) >= 1 /\ Len(frames') = Len(frames) /\ frames' # <<>>
      /\ \A i \in 1 .. Len(frames) : frames'[i] = IF i = Len(frames) THEN f ELSE frames[i]
  BY <1>1, <1>3, StackStep
<1>5. CASE Len(frames) = 1
  <2>1. PICK g : g = frames[1]
    OBVIOUS
  <2>2. /\ g = Top /\ g.op # "sink" /\ g \in Frame /\ OwnCall(g) /\ frames'[1] = f
    <3>1. 1 \in 1 .. Len(frames) /\ g = Top /\ g.op # "sink" /\ g \in Frame
      BY <1>1, <1>5, <2>1, FirstFrame
    <3>2. CallMade(g, 1)
      BY <2>1, <3>1 DEF CallsMade
    <3> QED BY <1>4, <1>5, <3>1, <3>2 DEF CallMade
  <2>3. g.next \in Nat /\ g.n \in Nat /\ g.next <= g.n + 1 /\ g.fetched = {}
    BY <1>1, <2>2 DEF OwnCall, Frame
  <2>4. Waiting = {lists[g.run][j] : j \in g.next .. g.n} \cup {g.call}
    <3>1. Waiting = ToWrite(g)
      BY <1>1, <2>1, BottomIs
    <3> QED BY <2>3, <3>1 DEF ToWrite
  <2>5. Waiting' = {lists[g.run][j] : j \in g.next + 1 .. g.n} \cup {Token.call} \cup {g.call}
    <3>1. Waiting' = UNION {ToWrite(h)' : h \in {f}}
      BY <1>4, <2>2 DEF Waiting, Bottom
    <3>2. ToWrite(f)' = {lists[g.run][j] : j \in g.next + 1 .. g.n} \cup {Token.call} \cup {g.call}
      BY <1>1, <1>3, <2>2 DEF ToWrite
    <3> QED BY <3>1, <3>2
  <2>6. Waiting' = Waiting
    <3>1. CASE g.next <= g.n
      <4>1. Token.call = lists[g.run][g.next]
        BY <2>2, <3>1 DEF Token
      <4>2. \A j : j \in g.next .. g.n <=> j = g.next \/ j \in g.next + 1 .. g.n
        BY <2>3, <3>1
      <4> QED BY <2>4, <2>5, <4>1, <4>2
    <3>2. CASE ~(g.next <= g.n)
      <4>1. Token.call = g.call
        BY <2>2, <3>2 DEF Token
      <4>2. \A j : j \notin g.next .. g.n /\ j \notin g.next + 1 .. g.n
        BY <2>3, <3>2
      <4> QED BY <2>4, <2>5, <4>1, <4>2
    <3> QED BY <3>1, <3>2
  <2> QED BY <1>1, <1>2, <2>6, QuietWire
<1>6. CASE Len(frames) # 1
  <2>1. frames'[1] = frames[1]
    BY <1>4, <1>6
  <2>2. Waiting' = Waiting
    BY <1>1, <1>4, <2>1, WaitingStays
  <2> QED BY <1>1, <1>2, <2>2, QuietWire
<1> QED BY <1>5, <1>6

(* The sink is entered, and left.                                          *)
LEMMA DrainWire ==
  ASSUME IInv, IInv', Meant, WireKept, Drain \/ SinkReturns
  PROVE  WireKept'
<1>1. /\ frames # <<>> /\ TypeOK /\ TypeOK' /\ UNCHANGED <<lists, log, out, failed>>
  BY DEF Drain, SinkReturns, InCall, InSink, held, IInv
<1>2. ~failed /\ ~failed'
  BY <1>1 DEF WireKept
<1>3. frames' # <<>> /\ frames'[1] = frames[1]
  <2>1. CASE Drain
    <3>1. Push([op |-> "sink", at |-> depth]) /\ [op |-> "sink", at |-> depth] \in Frame \cup SinkFrame
      BY <2>1 DEF Drain, SinkFrame, IInv, TypeOK
    <3> QED BY <1>1, <3>1, StackPush, FirstFrame
  <2>2. CASE SinkReturns
    <3>1. InSink /\ frames' = Popped
      BY <2>2 DEF SinkReturns
    <3>2. Len(frames) > 1 /\ Len(frames) \in Nat
      BY <1>1, <3>1, FirstFrame
    <3> QED BY <1>1, <3>1, <3>2, StackPop
  <2> QED BY <2>1, <2>2
<1>4. Waiting' = Waiting
  BY <1>1, <1>3, WaitingStays
<1> QED BY <1>1, <1>2, <1>4, QuietWire

LEMMA OutGrows ==
  ASSUME TypeOK, NEW t \in Tokens, out' = Append(out, t), UNCHANGED log
  PROVE  /\ Len(out) \in Nat /\ Len(out') = Len(out) + 1 /\ out'[Len(out) + 1] = t
         /\ \A i \in 1 .. Len(out) : out'[i] = out[i]
         /\ Written \subseteq 1 .. Len(out)
         /\ Written' = Written \cup (IF t.call \in Own THEN {Len(out) + 1} ELSE {})
<1>1. /\ Len(out) \in Nat /\ Len(out') = Len(out) + 1 /\ out'[Len(out) + 1] = t
      /\ \A i \in 1 .. Len(out) : out'[i] = out[i]
  BY AppendProperties, LenProperties DEF TypeOK
<1>2. Own' = Own
  BY DEF Own
<1>3. Written \subseteq 1 .. Len(out)
  BY DEF Written
<1>4. ASSUME NEW i PROVE i \in Written' <=> i \in Written \/ (i = Len(out) + 1 /\ t.call \in Own)
  BY <1>1, <1>2 DEF Written
<1> QED BY <1>1, <1>3, <1>4

(* The next of what is waiting is written.                                 *)
LEMMA WireGrows ==
  ASSUME TypeOK, TypeOK', Meant, WireKept, ~failed, ~failed', UNCHANGED log,
         NEW t \in Tokens, out' = Append(out, t), \A b \in Opened : Framed(b),
         t.call \in Due, t.call \in Waiting, t = TokenOf(t.call),
         \A c \in Waiting' : t.call < c /\ c \in Waiting,
         \A c \in Waiting : c = t.call \/ c \in Waiting'
  PROVE  WireKept'
<1>1. PICK n : n = Len(out) + 1
  OBVIOUS
<1>2. /\ Own' = Own /\ Opened' = Opened /\ Due' = Due /\ Opened \subseteq Own /\ Due \subseteq Own
      /\ \A k \in Own : TokenOf(k)' = TokenOf(k) /\ (Framed(k)' <=> Framed(k))
  BY QuietMeans, OwnTyped DEF Due
<1>3. /\ n \in Nat /\ Len(out') = n /\ Len(out) = n - 1 /\ out'[n] = t
      /\ \A i \in 1 .. n - 1 : out'[i] = out[i]
      /\ Written \subseteq 1 .. n - 1 /\ Written' = Written \cup {n}
  <2>1. t.call \in Own
    BY <1>2
  <2> QED BY <1>1, <2>1, OutGrows
<1>4. /\ \A i \in Written : out'[i] = out[i] /\ out'[i].call < t.call /\ i < n
      /\ \A i \in Written : \E k \in Due : out[i] = TokenOf(k)
  <2>1. ASSUME NEW i \in Written PROVE out'[i] = out[i] /\ i < n
    BY <1>3
  <2>2. \A i \in Written : out[i].call < t.call
    BY DEF WireKept
  <2>3. \A i \in Written : \E k \in Due : out[i] = TokenOf(k)
    BY DEF WireKept
  <2> QED BY <2>1, <2>2, <2>3
<1>5. \A i \in 1 .. Len(out') : out'[i].call \in 1 .. Len(log')
  <2>1. t.call \in 1 .. Len(log)
    BY <1>2, OwnTyped
  <2>2. \A i \in 1 .. n - 1 : out'[i].call \in 1 .. Len(log)
    BY <1>3 DEF WireKept
  <2> QED BY <1>3, <2>1, <2>2
<1>6. \A i \in Written' : \E k \in Due' : out'[i] = TokenOf(k)'
  <2>1. out'[n] = TokenOf(t.call)'
    BY <1>2, <1>3
  <2>2. ASSUME NEW i \in Written PROVE \E k \in Due' : out'[i] = TokenOf(k)'
    BY <1>2, <1>4
  <2> QED BY <1>2, <1>3, <2>1, <2>2
<1>7. InCallOrder'
  <2> SUFFICES ASSUME NEW i \in Written', NEW j \in Written', i < j
               PROVE  out'[i].call < out'[j].call
    BY DEF InCallOrder
  <2>1. i \in Written
    <3>1. i \in Int /\ j \in Int /\ j <= n
      BY <1>3
    <3> QED BY <1>3, <3>1
  <2>2. CASE j = n
    BY <1>3, <1>4, <2>1, <2>2
  <2>3. CASE j \in Written
    BY <1>4, <2>1, <2>3 DEF WireKept, InCallOrder
  <2> QED BY <1>3, <2>2, <2>3
<1>8. \A i \in Written' : \A c \in Waiting' : out'[i].call < c
  <2>1. \A i \in Written : \A c \in Waiting' : out'[i].call < c
    BY <1>4 DEF WireKept
  <2> QED BY <1>3, <2>1
<1>9. \A i \in Written' : \A b \in Opened' : ~Framed(b)' => out'[i].call < b
  BY <1>2
<1>10. ASSUME NEW k \in Due' PROVE k \in Waiting' \/ \E i \in Written' : out'[i] = TokenOf(k)'
  <2>1. CASE k = t.call
    BY <1>2, <1>3, <2>1
  <2>2. CASE k # t.call
    <3>1. k \in Waiting' \/ \E i \in Written : out[i] = TokenOf(k)
      BY <1>2, <2>2 DEF WireKept
    <3>2. TokenOf(k)' = TokenOf(k)
      BY <1>2
    <3> QED BY <1>3, <1>4, <3>1, <3>2
  <2> QED BY <2>1, <2>2
<1> QED BY <1>5, <1>6, <1>7, <1>8, <1>9, <1>10 DEF WireKept

(* A sink writes: it is none of the caller's tokens.                       *)
LEMMA ForeignGrows ==
  ASSUME TypeOK, TypeOK', Meant, WireKept, ~failed, ~failed', UNCHANGED log,
         NEW t \in Tokens, out' = Append(out, t), Foreign(t.call), Waiting' = Waiting
  PROVE  WireKept'
<1>1. PICK n : n = Len(out) + 1
  OBVIOUS
<1>2. /\ Own' = Own /\ Opened' = Opened /\ Due' = Due /\ Opened \subseteq Own /\ Due \subseteq Own
      /\ \A k \in Own : TokenOf(k)' = TokenOf(k) /\ (Framed(k)' <=> Framed(k))
  BY QuietMeans, OwnTyped DEF Due
<1>3. /\ n \in Nat /\ Len(out') = n /\ Len(out) = n - 1 /\ out'[n] = t
      /\ \A i \in 1 .. n - 1 : out'[i] = out[i]
      /\ Written \subseteq 1 .. n - 1 /\ Written' = Written
  <2>1. t.call \notin Own
    BY DEF Foreign, Own
  <2>2. /\ Len(out) \in Nat /\ Len(out') = Len(out) + 1 /\ out'[Len(out) + 1] = t
        /\ \A i \in 1 .. Len(out) : out'[i] = out[i]
        /\ Written \subseteq 1 .. Len(out) /\ Written' = Written \cup {}
    BY <2>1, OutGrows
  <2> QED BY <1>1, <2>2
<1>4. \A i \in Written : out'[i] = out[i]
  BY <1>3
<1>5. \A i \in 1 .. Len(out') : out'[i].call \in 1 .. Len(log')
  <2>1. t.call \in 1 .. Len(log)
    BY DEF Foreign
  <2>2. \A i \in 1 .. n - 1 : out'[i].call \in 1 .. Len(log)
    BY <1>3 DEF WireKept
  <2> QED BY <1>3, <2>1, <2>2
<1>6. \A i \in Written' : \E k \in Due' : out'[i] = TokenOf(k)'
  BY <1>2, <1>3, <1>4 DEF WireKept
<1>7. InCallOrder'
  BY <1>3, <1>4 DEF WireKept, InCallOrder
<1>8. /\ \A i \in Written' : \A c \in Waiting' : out'[i].call < c
      /\ \A i \in Written' : \A b \in Opened' : ~Framed(b)' => out'[i].call < b
  BY <1>2, <1>3, <1>4 DEF WireKept
<1>9. \A k \in Due' : k \in Waiting' \/ \E i \in Written' : out'[i] = TokenOf(k)'
  BY <1>2, <1>3, <1>4 DEF WireKept
<1> QED BY <1>5, <1>6, <1>7, <1>8, <1>9 DEF WireKept

LEMMA WriteWire ==
  ASSUME IInv, IInv', Meant, HeldBack, CallsMade, WireKept, Write
  PROVE  WireKept'
<1>1. /\ InCall /\ frames # <<>> /\ Top.op # "sink" /\ TypeOK /\ TypeOK'
      /\ UNCHANGED <<lists, cur, log, failed>>
  BY DEF Write, held, InCall, IInv
<1>2. ~failed /\ ~failed'
  BY <1>1 DEF WireKept
<1>3. PICK t \in Top.fetched :
        /\ out' = Append(out, t) /\ t \in Tokens /\ t.what \in {"start", Top.op}
        /\ \/ /\ t.what = "start"
              /\ \E f \in Frame :
                   /\ frames' = [frames EXCEPT ![Len(frames)] = f]
                   /\ f.op = Top.op /\ f.call = Top.call /\ f.run = Top.run /\ f.n = Top.n
                   /\ f.next = Top.next /\ f.fetched = {}
           \/ t.what = Top.op /\ t.what # "start" /\ frames' = Popped
  BY WriteStep
<1>4. Len(frames) \in Nat /\ Len(frames) >= 1
  BY <1>1, FirstFrame
<1>5. CASE Len(frames) = 1
  <2>1. PICK g : g = frames[1]
    OBVIOUS
  <2>2. /\ g = Top /\ g.op # "sink" /\ g \in Frame /\ OwnCall(g)
    <3>1. 1 \in 1 .. Len(frames) /\ g = Top /\ g.op # "sink" /\ g \in Frame
      BY <1>1, <1>5, <2>1, FirstFrame
    <3>2. CallMade(g, 1)
      BY <2>1, <3>1 DEF CallsMade
    <3> QED BY <3>1, <3>2 DEF CallMade
  <2>3. /\ g.next \in Nat /\ g.n \in Nat /\ g.op \in {"field", "end"} /\ g.fetched = {t}
        /\ t.call \in Due /\ t = TokenOf(t.call)
        /\ \A j \in g.next .. g.n : t.call < lists[g.run][j]
        /\ \/ t.what = "start" /\ t.call < g.call /\ g.next <= g.n + 1
           \/ t.what = g.op /\ t.call = g.call /\ g.next = g.n + 2
    BY <1>3, <2>2 DEF OwnCall, Frame
  <2>4. Waiting = {lists[g.run][j] : j \in g.next .. g.n} \cup {t.call} \cup {g.call}
    <3>1. Waiting = ToWrite(g)
      BY <1>1, <2>1, BottomIs
    <3> QED BY <2>3, <3>1 DEF ToWrite
  <2>5. /\ \A c \in Waiting' : t.call < c /\ c \in Waiting
        /\ \A c \in Waiting : c = t.call \/ c \in Waiting'
    <3>1. ASSUME t.what = "start", NEW f \in Frame, frames' = [frames EXCEPT ![Len(frames)] = f],
                 f.call = Top.call, f.run = Top.run, f.n = Top.n, f.next = Top.next, f.fetched = {}
          PROVE  /\ \A c \in Waiting' : t.call < c /\ c \in Waiting
                 /\ \A c \in Waiting : c = t.call \/ c \in Waiting'
      <4>1. frames' # <<>> /\ frames'[1] = f
        BY <1>1, <1>5, <3>1, StackStep
      <4>2. Waiting' = UNION {ToWrite(h)' : h \in {f}}
        BY <4>1 DEF Waiting, Bottom
      <4>3. ToWrite(f)' = {lists[g.run][j] : j \in g.next .. g.n} \cup {g.call}
        BY <1>1, <2>2, <3>1 DEF ToWrite
      <4>4. Waiting' = {lists[g.run][j] : j \in g.next .. g.n} \cup {g.call}
        BY <4>2, <4>3
      <4>5. t.call < g.call
        BY <2>3, <3>1
      <4> QED BY <2>3, <2>4, <4>4, <4>5
    <3>2. ASSUME t.what # "start", frames' = Popped
          PROVE  /\ \A c \in Waiting' : t.call < c /\ c \in Waiting
                 /\ \A c \in Waiting : c = t.call \/ c \in Waiting'
      <4>1. frames' = <<>>
        BY <1>1, <1>5, <3>2, StackPop
      <4>2. Waiting' = {}
        BY <4>1 DEF Waiting, Bottom
      <4>3. t.call = g.call /\ \A j : j \notin g.next .. g.n
        BY <2>3, <3>2
      <4> QED BY <2>4, <4>2, <4>3
    <3> QED BY <1>3, <3>1, <3>2
  <2>6. \A b \in Opened : Framed(b)
    <3>1. During(g)
      BY <1>1, <2>1 DEF HeldBack
    <3> QED BY <3>1 DEF During
  <2>7. t.call \in Waiting
    BY <2>4
  <2> QED BY <1>1, <1>2, <1>3, <2>3, <2>5, <2>6, <2>7, WireGrows
<1>6. CASE Len(frames) # 1
  <2>1. Foreign(t.call)
    <3>1. PICK m : m = Len(frames)
      OBVIOUS
    <3>2. PICK g : g = frames[m]
      OBVIOUS
    <3>3. m \in 1 .. Len(frames) /\ m # 1 /\ g = Top
      BY <1>4, <1>6, <3>1, <3>2 DEF Top
    <3>4. CallMade(g, m)
      BY <1>1, <3>2, <3>3 DEF CallsMade
    <3> QED BY <1>3, <3>3, <3>4 DEF CallMade, SinkCall
  <2>2. frames' # <<>> /\ frames'[1] = frames[1]
    <3>1. CASE frames' = Popped
      BY <1>1, <1>4, <1>6, <3>1, StackPop
    <3>2. ASSUME NEW f \in Frame, frames' = [frames EXCEPT ![Len(frames)] = f]
          PROVE  frames' # <<>> /\ frames'[1] = frames[1]
      <4>1. /\ frames' # <<>>
            /\ \A i \in 1 .. Len(frames) : frames'[i] = IF i = Len(frames) THEN f ELSE frames[i]
        BY <1>1, <3>2, StackStep
      <4>2. 1 \in 1 .. Len(frames) /\ 1 # Len(frames)
        BY <1>4, <1>6
      <4> QED BY <4>1, <4>2
    <3> QED BY <1>3, <3>1, <3>2
  <2>3. Waiting' = Waiting
    BY <1>1, <2>2, WaitingStays
  <2> QED BY <1>1, <1>2, <1>3, <2>1, <2>3, ForeignGrows
<1> QED BY <1>5, <1>6

(* Nothing due is missing before a token the wire holds.                   *)
LEMMA AheadIs == WireKept => NoTokenAhead
<1> SUFFICES ASSUME WireKept, ~failed PROVE NoTokenAhead
  BY DEF WireKept
<1>1. \A i \in Written : \E k \in Due : out[i] = TokenOf(k)
  BY DEF WireKept
<1>2. ASSUME NEW k \in Due, NEW i \in Written, k < out[i].call
      PROVE  \E j \in Written : j < i /\ out[j] = TokenOf(k)
  <2>1. \A a \in Written : a \in Int /\ out[a].call \in Int
    BY DEF Written, Own
  <2>2. k \in Int
    BY DEF Due, Own
  <2>3. k \notin Waiting
    <3>1. \A c \in Waiting : out[i].call < c
      BY DEF WireKept
    <3> QED BY <1>2, <2>1, <2>2, <3>1
  <2>4. PICK j \in Written : out[j] = TokenOf(k)
    BY <2>3 DEF WireKept
  <2>5. out[j].call = k
    BY <2>4 DEF TokenOf
  <2>6. j < i
    <3>1. ~(i < j) /\ i # j
      BY <1>2, <2>1, <2>2, <2>5 DEF WireKept, InCallOrder
    <3> QED BY <2>1, <3>1
  <2> QED BY <2>4, <2>6
<1> QED BY <1>1, <1>2 DEF NoTokenAhead, WireKept

(* No call is made and nothing written, and no more will be.               *)
LEMMA FailedWire ==
  ASSUME TypeOK, TypeOK', Meant, WireKept, UNCHANGED <<log, out>>, failed', frames' = <<>>
  PROVE  WireKept'
<1>1. /\ Own' = Own /\ Opened' = Opened /\ Due' = Due /\ Opened \subseteq Own /\ Due \subseteq Own
      /\ \A k \in Own : TokenOf(k)' = TokenOf(k) /\ (Framed(k)' <=> Framed(k))
  BY QuietMeans, OwnTyped DEF Due
<1>2. Written' = Written /\ (InCallOrder' <=> InCallOrder)
  BY <1>1 DEF Written, InCallOrder
<1>3. Waiting' = {}
  BY DEF Waiting, Bottom
<1>4. {TokenOf(k)' : k \in Due'} = {TokenOf(k) : k \in Due}
  BY <1>1
<1>5. NoTokenAhead'
  <2>1. NoTokenAhead
    BY AheadIs
  <2>2. \A k \in Due' : TokenOf(k)' = TokenOf(k)
    BY <1>1
  <2> QED BY <1>1, <1>2, <1>4, <2>1, <2>2 DEF NoTokenAhead
<1>6. /\ \A i \in Written' : \E k \in Due' : out'[i] = TokenOf(k)'
      /\ \A i \in Written' : \A b \in Opened' : ~Framed(b)' => out'[i].call < b
      /\ \A i \in 1 .. Len(out') : out'[i].call \in 1 .. Len(log')
  BY <1>1, <1>2 DEF WireKept
<1>7. InCallOrder'
  BY <1>2 DEF WireKept
<1> QED BY <1>3, <1>5, <1>6, <1>7 DEF WireKept

LEMMA InitWire == Init => WireKept
<1> SUFFICES ASSUME Init PROVE WireKept
  OBVIOUS
<1>1. out = <<>> /\ frames = <<>> /\ ~failed /\ log = <<>>
  BY DEF Init
<1>2. Len(out) = 0 /\ Len(log) = 0
  BY <1>1, EmptySeq
<1>3. Written = {} /\ Own = {} /\ Due = {}
  BY <1>2 DEF Written, Own, Due
<1> QED BY <1>1, <1>2, <1>3 DEF WireKept, InCallOrder

LEMMA NextWire ==
  /\ SinkDepth <= 1 /\ IInv /\ IInv' /\ Meant /\ HeldBack /\ HeldBack' /\ CallsMade
  /\ WireKept /\ [Next]_vars
  => WireKept'
<1> SUFFICES ASSUME SinkDepth <= 1, IInv, IInv', Meant, HeldBack, HeldBack', CallsMade, WireKept,
                    [Next]_vars
             PROVE  WireKept'
  OBVIOUS
<1>1. TypeOK /\ TypeOK'
  BY DEF IInv
<1>2. CASE Begin
  BY <1>2, BeginWire, SinkBeginWire
<1>3. CASE DropEmpty
  <2>1. CASE frames = <<>>
    BY <1>3, <2>1, DropWire
  <2>2. CASE frames # <<>>
    <3>1. Callable /\ Logged("end") /\ "end" \in Ops /\ UNCHANGED <<lists, out, failed, frames>>
      BY <1>3 DEF DropEmpty, Ops
    <3> QED BY <2>2, <3>1, SinkOtherWire
  <2> QED BY <2>1, <2>2
<1>4. ASSUME Callable, NEW op \in {"field", "end"}, Commit(op),
             NEW name \in {"field", "end", "keep"}, Logged(name)
      PROVE  WireKept'
  <2>1. CASE frames = <<>>
    BY <1>4, <2>1, CommitWire
  <2>2. CASE frames # <<>>
    <3>1. PICK f : /\ f = [op |-> op, call |-> Call, run |-> cur, n |-> npending, next |-> 1,
                           fetched |-> {}, at |-> depth]
                   /\ Push(f)
      BY <1>4 DEF Commit
    <3>2. f \in Frame
      BY <1>1, <3>1, LevelTyped DEF TypeOK, Frame
    <3>3. frames' # <<>> /\ frames'[1] = frames[1]
      BY <1>1, <2>2, <3>1, <3>2, StackPush, FirstFrame
    <3>4. UNCHANGED <<lists, out, failed>> /\ name \in Ops
      BY <1>4 DEF Commit, Ops
    <3> QED BY <1>4, <2>2, <3>3, <3>4, SinkOtherWire
  <2> QED BY <2>1, <2>2
<1>5. CASE WriteField
  BY <1>4, <1>5 DEF WriteField
<1>6. CASE EndSequence
  BY <1>4, <1>6 DEF EndSequence
<1>7. CASE EndKeep
  BY <1>4, <1>7 DEF EndKeep
<1>8. CASE Fetch \/ Drain \/ SinkReturns \/ Write
  BY <1>8, FetchWire, DrainWire, WriteWire
<1>9. CASE Fail
  BY <1>1, <1>9, FailedWire DEF Fail
<1>10. CASE UNCHANGED vars
  <2>1. UNCHANGED <<lists, frames, failed, log, out>>
    BY <1>10 DEF vars, held
  <2>2. CASE failed
    BY <1>1, <2>1, <2>2, FailedWire DEF WireKept
  <2>3. CASE ~failed
    <3>1. Waiting' = Waiting
      <4>1. \A f : ToWrite(f)' = ToWrite(f)
        BY <2>1 DEF ToWrite
      <4>2. Bottom' = Bottom
        BY <2>1 DEF Bottom
      <4> QED BY <4>1, <4>2 DEF Waiting
    <3> QED BY <1>1, <2>1, <2>3, <3>1, QuietWire
  <2> QED BY <2>2, <2>3
<1> QED BY <1>2, <1>3, <1>5, <1>6, <1>7, <1>8, <1>9, <1>10 DEF Next

-----------------------------------------------------------------------------
(* The theorems about the wire.                                            *)

LEMMA WireInvariance ==
  ASSUME SinkDepth <= 1
  PROVE  Spec => [](IInv /\ CallsMade /\ WireKept)
<1>1. Init => CallsMade /\ WireKept
  BY InitCalls, InitWire
<1>2. (IInv /\ Meant /\ HeldBack) /\ (IInv /\ Meant /\ HeldBack)' /\ CallsMade /\ WireKept /\ [Next]_vars
        => (CallsMade /\ WireKept)'
  BY NextCalls, NextWire
<1> QED BY <1>1, <1>2, HeldInvariance, PTL DEF Spec

(* test_sequences, MESSAGE_SPEC 2: between two of the caller's calls the   *)
(* wire holds, of the caller's, exactly the fields and the sequences that  *)
(* hold something or are kept, in the order of the calls, however often    *)
(* the flush sink ran and whatever it wrote, as long as no sink opens a    *)
(* sequence inside one of its own.                                         *)
THEOREM WireIsCanonical ==
  ASSUME SinkDepth <= 1
  PROVE  Spec => []Canonical
<1>1. WireKept => Canonical
  <2> SUFFICES ASSUME WireKept, frames = <<>>, ~failed
               PROVE  {out[i] : i \in Written} = {TokenOf(k) : k \in Due} /\ InCallOrder
    BY DEF Canonical
  <2>1. Waiting = {}
    BY BottomIs
  <2>2. \A i \in Written : \E k \in Due : out[i] = TokenOf(k)
    BY DEF WireKept
  <2>3. \A k \in Due : \E i \in Written : out[i] = TokenOf(k)
    BY <2>1 DEF WireKept
  <2>4. {out[i] : i \in Written} = {TokenOf(k) : k \in Due}
    BY <2>2, <2>3
  <2> QED BY <2>4 DEF WireKept
<1> QED BY <1>1, WireInvariance, PTL

(* A write that fails, at whatever point of whatever call, leaves a        *)
(* beginning of that: no token of the caller's stands on the wire before   *)
(* one that was due ahead of it.                                           *)
THEOREM NothingAhead ==
  ASSUME SinkDepth <= 1
  PROVE  Spec => []NoTokenAhead
<1> QED BY AheadIs, WireInvariance, PTL

(* encoder.py, __init__: as long as no sink opens a sequence inside one of *)
(* its own, its run never overwrites the one being emitted; run            *)
(* `overwritten` shows the assumption is needed.                           *)
THEOREM RunIsKept ==
  ASSUME SinkDepth <= 1
  PROVE  Spec => []RunNotOverwritten
<1> QED BY RunKept, WireInvariance, PTL
=============================================================================
