--------------------------- MODULE DecodePromise ---------------------------
(***************************************************************************)
(* What push-feed decoding promises (CORELIB_PLAN 5.2 as decoder.py quotes *)
(* it), with no buffer, cursor or chunk in sight: bytes arrive, every      *)
(* construct the handler takes is delivered once, in order, after its last *)
(* byte; a message that earns a verdict gets it once everything before the *)
(* offending construct has been delivered, and then nothing more happens.  *)
(***************************************************************************)
EXTENDS MessageMeaning

VARIABLES msg, fed, delivered, verdict

vars == <<msg, fed, delivered, verdict>>

Init == msg \in Messages /\ fed = 0 /\ delivered = <<>> /\ verdict = "open"

Supply ==
  /\ verdict = "open"
  /\ fed' \in fed .. Len(Bytes[msg])
  /\ UNCHANGED <<msg, delivered, verdict>>

Deliver ==
  /\ verdict = "open"
  /\ \E c \in HeardBy(msg, fed) :
       /\ delivered' = Append(delivered, c)
       /\ Listing(delivered', {d \in HeardBy(msg, fed) : d <= c})
  /\ UNCHANGED <<msg, fed, verdict>>

Decide ==
  /\ verdict = "open"
  /\ Listing(delivered, HeardBy(msg, fed))
  /\ Rejected(msg, fed)
  /\ verdict' = Verdict(msg)
  /\ UNCHANGED <<msg, fed, delivered>>

NewMessage ==
  /\ msg' \in Messages /\ fed' = 0 /\ delivered' = <<>> /\ verdict' = "open"

Next == Supply \/ Deliver \/ Decide \/ NewMessage

Spec == Init /\ [][Next]_vars
=============================================================================
