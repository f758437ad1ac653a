---------------------------- MODULE LazyFraming ----------------------------
(***************************************************************************)
(* Lazy sequence framing (encoder.py): a sequence's header is held back    *)
(* until something is written inside it, and a sequence closed empty       *)
(* leaves nothing on the wire.  The held-back ids are the first npending   *)
(* slots of one of two fixed lists; committing a run swaps the lists,      *)
(* because putting a header out may fill the buffer, and the flush sink    *)
(* that then runs may call the encoder itself.                             *)
(*                                                                         *)
(* A sequence's id is the number of the call that opened it, so a header   *)
(* on the wire names its call.  A token (header, end marker, field) is     *)
(* written whole; what a drain does to bytes is OutputBuffer's matter.     *)
(***************************************************************************)
EXTENDS Integers, Sequences, FiniteSets

CONSTANTS
  MaxDepth,    (* MAX_DEPTH; 255 in the code                                 *)
  MaxCalls,    (* bound: no more calls than this, the sink's included       *)
  MaxDrains,   (* bound: the sink runs at most this often                   *)
  SinkDepth    (* bound: sequences one run of the sink may have open        *)

ASSUME DepthAssumption == MaxDepth \in Nat \ {0}
ASSUME CallBounds == MaxCalls \in Nat /\ MaxDrains \in Nat /\ SinkDepth \in Nat

VARIABLES
  lists,       (* the two lists of MaxDepth slots                           *)
  cur,         (* which of them is _pending; the other is _spare            *)
  npending,    (* _npending                                                 *)
  depth,       (* _depth                                                    *)
  frames,      (* calls that have not returned, the innermost last          *)
  failed,      (* a write raised, or the sticky latch is set                *)
  log,         (* history: the calls that were not refused, in order        *)
  out,         (* history: the tokens written                               *)
  drains       (* how often the sink has run                                *)

held == <<lists, cur, npending>>
vars == <<held, depth, frames, failed, log, out, drains>>

Tokens == [what : {"start", "end", "field"}, call : Nat]

(* A call under way: slots next .. n of its committed run are still to be  *)
(* read, then comes its own token; at is _depth when it began.  fetched:   *)
(* the token the code has computed and not written yet.  A sink frame is   *)
(* the flush sink running inside the call below it.                        *)
Frame == [op : {"field", "end"}, call : Nat, run : {0, 1}, n : Nat, next : Nat,
          fetched : SUBSET Tokens, at : Nat]
SinkFrame == [op : {"sink"}, at : Nat]

Top == frames[Len(frames)]
InSink == frames # <<>> /\ Top.op = "sink"
InCall == frames # <<>> /\ Top.op # "sink"
Push(f) == frames' = Append(frames, f)
Popped == SubSeq(frames, 1, Len(frames) - 1)

TypeOK ==
  /\ lists \in [{0, 1} -> [1 .. MaxDepth -> Nat]] /\ cur \in {0, 1}
  /\ npending \in Nat /\ depth \in Nat
  /\ frames \in Seq(Frame \cup SinkFrame)
  /\ failed \in BOOLEAN
  /\ log \in Seq([op : {"begin", "field", "end", "keep"}, level : Nat])
  /\ out \in Seq(Tokens)
  /\ drains \in Nat

Init ==
  /\ lists = [l \in {0, 1} |-> [i \in 1 .. MaxDepth |-> 0]]
  /\ cur = 0 /\ npending = 0 /\ depth = 0
  /\ frames = <<>> /\ failed = FALSE
  /\ log = <<>> /\ out = <<>> /\ drains = 0

-----------------------------------------------------------------------------
(* The calls: from the caller, or from the sink.                           *)

Level == Cardinality({i \in 1 .. Len(frames) : frames[i].op = "sink"})
Call == Len(log) + 1
Logged(op) == log' = Append(log, [op |-> op, level |-> Level])

(* The depth below which the running sink may not close: it closes only    *)
(* what it opened itself.                                                  *)
Floor == IF InSink THEN Top.at ELSE 0

Callable == ~failed /\ ~InCall /\ Len(log) < MaxCalls

(* write_sequence_begin_lazy: the id goes into a slot, nothing is written. *)
Begin ==
  /\ Callable
  /\ depth < MaxDepth
  /\ InSink => depth - Floor < SinkDepth
  /\ lists' = [lists EXCEPT ![cur][npending + 1] = Call]
  /\ npending' = npending + 1
  /\ depth' = depth + 1
  /\ Logged("begin")
  /\ UNCHANGED <<cur, frames, failed, out, drains>>

(* Mutant: the run stays pending after it is committed.                    *)
CommitKept(op) ==
  /\ Push([op |-> op, call |-> Call, run |-> cur, n |-> npending, next |-> 1,
           fetched |-> {}, at |-> depth])
  /\ UNCHANGED <<lists, cur, npending, depth, failed, out, drains>>

(* _commit_pending: the run is swapped out before its first byte goes out. *)
Commit(op) ==
  /\ Push([op |-> op, call |-> Call, run |-> cur, n |-> npending, next |-> 1,
           fetched |-> {}, at |-> depth])
  /\ IF npending > 0 THEN cur' = 1 - cur /\ npending' = 0
                     ELSE UNCHANGED <<cur, npending>>
  /\ UNCHANGED <<lists, depth, failed, out, drains>>

(* Any field write, through _header.                                       *)
WriteField ==
  /\ Callable
  /\ Commit("field")
  /\ Logged("field")

(* Mutant: the pending run is not looked at before it is popped.           *)
DropUnseen ==
  /\ Callable /\ depth > Floor
  /\ npending' = npending - 1
  /\ depth' = depth - 1
  /\ Logged("end")
  /\ UNCHANGED <<lists, cur, frames, failed, out, drains>>

(* Mutant: a sequence dropped empty leaves its id pending.                 *)
DropUnpopped ==
  /\ Callable /\ depth > Floor
  /\ npending > 0
  /\ depth' = depth - 1
  /\ Logged("end")
  /\ UNCHANGED <<held, frames, failed, out, drains>>

(* write_sequence_end: an empty sequence vanishes, any other is ended.     *)
DropEmpty ==
  /\ Callable /\ depth > Floor
  /\ npending > 0
  /\ npending' = npending - 1
  /\ depth' = depth - 1
  /\ Logged("end")
  /\ UNCHANGED <<lists, cur, frames, failed, out, drains>>

EndSequence ==
  /\ Callable /\ depth > Floor
  /\ npending = 0
  /\ Commit("end")
  /\ Logged("end")

(* write_sequence_end_keep: the held-back headers first, then the end.     *)
EndKeep ==
  /\ Callable /\ depth > Floor
  /\ Commit("end")
  /\ Logged("keep")

-----------------------------------------------------------------------------
(* Writing what a call commits, one token after the other.                 *)

(* Mutant: the id is read from the list in use now.                        *)
TokenOfCurrent ==
  IF Top.next <= Top.n
  THEN [what |-> "start", call |-> lists[cur][Top.next]]
  ELSE [what |-> Top.op, call |-> Top.call]

Token ==
  IF Top.next <= Top.n
  THEN [what |-> "start", call |-> lists[Top.run][Top.next]]
  ELSE [what |-> Top.op, call |-> Top.call]

(* _emit_varint is entered with a value, so a header's id is read before   *)
(* the sink runs for it.                                                   *)
Fetch ==
  /\ InCall /\ Top.fetched = {}
  /\ frames' = [frames EXCEPT ![Len(frames)].fetched = {Token},
                              ![Len(frames)].next = @ + 1]
  /\ UNCHANGED <<held, depth, failed, log, out, drains>>

(* The buffer is full: the sink runs, and may call the encoder.            *)
Drain ==
  /\ InCall /\ Top.fetched # {}
  /\ drains < MaxDrains
  /\ drains' = drains + 1
  /\ Push([op |-> "sink", at |-> depth])
  /\ UNCHANGED <<held, depth, failed, log, out>>

SinkReturns ==
  /\ InSink
  /\ depth = Floor
  /\ frames' = Popped
  /\ UNCHANGED <<held, depth, failed, log, out, drains>>

(* The token is written.  After its own token the call returns; an end     *)
(* marker closes the sequence only once it is out.                         *)
Write ==
  /\ InCall
  /\ \E t \in Top.fetched :
       /\ out' = Append(out, t)
       /\ \/ /\ t.what = "start"
             /\ frames' = [frames EXCEPT ![Len(frames)].fetched = {}]
             /\ UNCHANGED depth
          \/ /\ t.what # "start"
             /\ frames' = Popped
             /\ depth' = IF t.what = "end" THEN depth - 1 ELSE depth
  /\ UNCHANGED <<held, failed, log, drains>>

(* No room and no sink, or a sink that raises: the error passes through    *)
(* every call under way.  A sticky encoder ignores what follows, and a     *)
(* caller told of it has no message; what was held back is gone.           *)
Fail ==
  /\ InCall /\ Top.fetched # {}
  /\ failed' = TRUE
  /\ frames' = <<>>
  /\ UNCHANGED <<held, depth, log, out, drains>>

Next ==
  \/ Begin \/ WriteField \/ DropEmpty \/ EndSequence \/ EndKeep
  \/ Fetch \/ Drain \/ SinkReturns \/ Write \/ Fail

Spec == Init /\ [][Next]_vars

-----------------------------------------------------------------------------
(* What a series of calls means, read off the calls alone.                 *)

Own == {k \in 1 .. Len(log) : log[k].level = 0}
Closes(k) == log[k].op \in {"end", "keep"}

(* How many of the caller's own sequences are open after call k.           *)
OpenAfter(k) ==
    Cardinality({j \in Own : j <= k /\ log[j].op = "begin"})
  - Cardinality({j \in Own : j <= k /\ Closes(j)})

(* Call j is made inside the sequence call b opened, its end included.     *)
Inside(b, j) == b < j /\ \A i \in (b .. j - 1) \cap Own : OpenAfter(i) >= OpenAfter(b)

(* A sequence is framed when anything inside it is: a field, or a sequence *)
(* that is kept.                                                           *)
Framed(b) == \E j \in Own : Inside(b, j) /\ log[j].op \in {"field", "keep"}

Opener(e) == CHOOSE b \in Own :
               /\ log[b].op = "begin" /\ Inside(b, e)
               /\ \A c \in Own : log[c].op = "begin" /\ Inside(c, e) => c <= b

OnWire(k) ==
  CASE log[k].op = "field" -> TRUE
    [] log[k].op = "begin" -> Framed(k)
    [] Closes(k)           -> Framed(Opener(k))

(* What the wire should hold: a token for each of these calls.             *)
Due == {k \in Own : OnWire(k)}

TokenOf(k) ==
  [what |-> CASE log[k].op = "field" -> "field"
              [] log[k].op = "begin" -> "start"
              [] Closes(k)           -> "end",
   call |-> k]

(* What it does hold of the caller's own calls, as places in out.          *)
Written == {i \in 1 .. Len(out) : out[i].call \in Own}

InCallOrder == \A i, j \in Written : i < j => out[i].call < out[j].call

(* Canonical framing (test_sequences, MESSAGE_SPEC 2): between two calls   *)
(* of the caller the wire holds, of the caller's calls, exactly the fields *)
(* and the sequences with something in them or kept, in the order of the   *)
(* calls, whenever and as often as the flush sink ran and whatever it      *)
(* wrote itself.                                                           *)
Canonical ==
  frames = <<>> /\ ~failed =>
    {out[i] : i \in Written} = {TokenOf(k) : k \in Due} /\ InCallOrder

(* ... and a write that failed has left a beginning of that: before each   *)
(* token that is due stands every one that is due before it.               *)
NoTokenAhead ==
  /\ {out[i] : i \in Written} \subseteq {TokenOf(k) : k \in Due} /\ InCallOrder
  /\ \A k \in Due : \A i \in Written :
       k < out[i].call => \E j \in Written : j < i /\ out[j] = TokenOf(k)

(* encoder.py, __init__: the pending run is "always a contiguous suffix of *)
(* the open sequences", which is what lets an end simply pop the last.     *)
OpenCalls == {b \in Own : log[b].op = "begin" /\ \A e \in Own : ~(Closes(e) /\ e > b /\ Opener(e) = b)}

PendingIsSuffix ==
  frames = <<>> /\ ~failed =>
    /\ npending <= Cardinality(OpenCalls) /\ depth = Cardinality(OpenCalls)
    /\ \A i \in 1 .. npending :
         /\ lists[cur][i] \in OpenCalls
         /\ Cardinality({b \in OpenCalls : b > lists[cur][i]}) = npending - i

(* The run never outgrows its slots, also while the sink runs a run of its *)
(* own: begin_lazy stores without a bound check of its own.                *)
RunFits ==
  /\ npending <= depth /\ depth <= MaxDepth
  /\ \A i \in 1 .. Len(frames) : frames[i].op # "sink" => frames[i].n <= MaxDepth

(* encoder.py, __init__: the two lists are swapped "so the sink's own run  *)
(* never overwrites the one being emitted": the headers a call has still   *)
(* to write are those of sequences opened before it.                       *)
RunNotOverwritten ==
  \A i \in 1 .. Len(frames) :
    frames[i].op # "sink" =>
      \A j \in frames[i].next .. frames[i].n : lists[frames[i].run][j] < frames[i].call
=============================================================================
