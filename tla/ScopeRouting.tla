---------------------------- MODULE ScopeRouting ----------------------------
(***************************************************************************)
(* Who gets a field: the walk of decoder.py (_drive_push) over headers,    *)
(* with its two stacks.  One remembers the destination table of every open *)
(* scope, the other the handlers set aside while a child handler has the   *)
(* sub-tree.  A field the current table names is stored (_mapped_field), a *)
(* closed table drops what it does not name, the rest goes to the current  *)
(* handler's hooks, or to nobody.  A value may run out of bytes; it is     *)
(* finished when the next feed brings more.                                *)
(*                                                                         *)
(* The bytes themselves are PushDecoder's: here a header arrives whole and *)
(* a value arrives with as many of its words as the feed held.  The        *)
(* message is whatever well-formed message comes; it is not kept.  What    *)
(* every step ought to do is worked out beside the code's own state, from  *)
(* scopes (one entry for every open sequence, whoever opened it) and held  *)
(* (the message as a tree of values).                                      *)
(***************************************************************************)
EXTENDS HeldValues

CONSTANTS
  Top,         (* the decoder's handler; "nobody" if it has none            *)
  Handlers,    (* handler objects, Top among them unless it is nobody       *)
  Overrides,   (* the control hooks each handler's class overrides          *)
  Answer,      (* what each handler answers on_sequence_begin for an id:    *)
               (* "same", "decline" or another handler                      *)
  Declines,    (* the ids each handler's on_field answers False for         *)
  TextBound,   (* what each handler's on_schema_bound answers for a string  *)
  Payloads,    (* for every value tag the payloads that may arrive          *)
  LengthCap,   (* the receiver cap, for a string and for an array           *)
  MaxDepth,    (* MAX_DEPTH; 255 in the code                                *)
  MaxCount,    (* bound: occurrences of one sequence that are counted       *)
  Words0,      (* the words buffer as the caller prepared it                *)
  Objects0     (* the objects list as the caller prepared it                *)

Ids == (UNION {DOMAIN T[t].rows : t \in DOMAIN T}) \cup (UNION {DOMAIN Answer[h] : h \in Handlers})

Hooks == {"on_field", "on_schema_bound", "on_sequence_begin"}

ASSUME HandlerAssumption ==
  /\ "nobody" \notin Handlers /\ Top \in Handlers \cup {"nobody"}
  /\ {"same", "decline"} \cap Handlers = {}
  /\ \A h \in Handlers : /\ Overrides[h] \subseteq Hooks
                         /\ \A id \in DOMAIN Answer[h] :
                              Answer[h][id] \in {"same", "decline"} \cup Handlers

ASSUME DepthAssumption == MaxDepth \in Nat

ASSUME PayloadAssumption ==
  /\ DOMAIN Payloads = Tags \ {"sequence"}
  /\ \A g \in DOMAIN Payloads : \A d \in Payloads[g] :
       d \in Seq(Nat) /\ (g = "unsigned" => Len(d) = 1)

Fields == [id : Ids, tag : Tags \ {"sequence"}, data : UNION {Payloads[g] : g \in DOMAIN Payloads}]
Arriving == {f \in Fields : f.data \in Payloads[f.tag]}
NoField == [id |-> 0, tag |-> "sequence", data |-> <<>>]

VARIABLES
  depth,        (* _depth                                                   *)
  bmap,         (* _bmap: the current table, or none                        *)
  bstack,       (* _bstack[0:_bsp]                                          *)
  visitor,      (* _visitor                                                 *)
  vstack,       (* _vstack[0:_vsp] with _vdepth                             *)
  flags,        (* the handler the _wants_* flags were taken from           *)
  makeField,    (* the walk's local copy of _make_field                     *)
  words,        (* the caller's words buffer                                *)
  objects,      (* the caller's objects list                                *)
  resume,       (* _resume_kind is _R_VISIT                                 *)
  resumeEntry,  (* _resume_entry as <<table, id>>; <<>> for None            *)
  cur,          (* the field whose value is in flight                       *)
  verdict,      (* fine, or the rejection that ended the decode             *)
  said,         (* history: the hooks the last step called                  *)
  due,          (* history: the hooks it should have called                 *)
  scopes,       (* history: the open scopes, outermost first                *)
  held          (* history: the values the message means so far             *)

routing == <<bmap, bstack, visitor, vstack, flags, makeField>>
storage == <<words, objects>>
flight  == <<resume, resumeEntry, cur, verdict>>
vars    == <<depth, routing, storage, flight, said, due, scopes, held>>

-----------------------------------------------------------------------------
Call(h, hook, id, data) == [who |-> h, hook |-> hook, id |-> id, data |-> data]

Scope(table, who, by, path) ==
  [table |-> table, who |-> who, by |-> by, path |-> path]

Here == Last(scopes)

Wants(h, hook) == h # "nobody" /\ hook \in Overrides[h]

Replies(h, id) ==
  IF Wants(h, "on_sequence_begin") /\ id \in DOMAIN Answer[h] THEN Answer[h][id] ELSE "same"

(* A header the current table names, under the tag it declares.            *)
Names(table, id)      == table # "none" /\ id \in DOMAIN T[table].rows
Typed(table, id, tag) == Names(table, id) /\ Tag(T[table].rows[id].kind) = tag
Closed(table)         == table # "none" /\ T[table].closed

Init ==
  /\ depth = 0 /\ bmap = Root /\ bstack = <<>>
  /\ visitor = Top /\ vstack = <<>> /\ flags = Top
  /\ makeField = Wants(Top, "on_field")
  /\ words = Words0 /\ objects = Objects0
  /\ resume = FALSE /\ resumeEntry = <<>> /\ cur = NoField /\ verdict = "fine"
  /\ said = <<>> /\ due = <<>>
  /\ scopes = <<Scope(Root, Top, "decoder", <<>>)>>
  /\ held = Prepared(Words0, Objects0)

(* The walk is at a header.                                                *)
Walking == verdict = "fine" /\ ~resume

-----------------------------------------------------------------------------
(* What a handler is owed, told from the innermost open scope s alone.     *)

HasLength(f) == f.tag \in {"text", "array"}

DueBegin(s, id) ==
  IF Typed(s.table, id, "sequence") \/ Closed(s.table) \/ ~Wants(s.who, "on_sequence_begin")
  THEN <<>> ELSE <<Call(s.who, "on_sequence_begin", id, <<>>)>>

DueEnd(s) ==
  IF s.by = "table" THEN <<>> ELSE <<Call(s.who, "on_sequence_end", 0, <<>>)>>

DueHeader(s, f) ==
  LET asked == IF Wants(s.who, "on_field")
               THEN <<Call(s.who, "on_field", f.id, <<>>)>> ELSE <<>>
      bound == IF Wants(s.who, "on_schema_bound") /\ HasLength(f)
               THEN <<Call(s.who, "on_schema_bound", f.id, <<>>)>> ELSE <<>>
  IN IF asked # <<>> /\ f.id \in Declines[s.who] THEN asked ELSE asked \o bound

(* The header's hooks are owed once, the value itself once it has landed.  *)
DueValue(s, f, resumed, landed) ==
  IF Names(s.table, f.id) \/ Closed(s.table) \/ s.who = "nobody" THEN <<>>
  ELSE (IF resumed THEN <<>> ELSE DueHeader(s, f))
       \o (IF landed THEN <<Call(s.who, "on_value", f.id, f.data)>> ELSE <<>>)

-----------------------------------------------------------------------------
(* SEQUENCE_END.                                                           *)

PopTable ==
  /\ bmap' = IF bstack = <<>> THEN bmap ELSE Last(bstack)
  /\ bstack' = IF bstack = <<>> THEN bstack ELSE Front(bstack)

CloseScope ==
  /\ Walking /\ depth > 0
  /\ depth' = depth - 1 /\ scopes' = Front(scopes)
  /\ PopTable
  /\ due' = DueEnd(Here)
  /\ UNCHANGED <<storage, flight, held>>

(* _bind_visitor: the flags are the handler's, and so is the walk's copy.   *)
TakeOver(h) ==
  visitor' = h /\ flags' = h /\ makeField' = Wants(h, "on_field")

KeepHandler == UNCHANGED <<visitor, vstack, flags, makeField>>

(* The handler set aside comes back at the next end, whoever's it is.      *)
HandBackAtAnyEnd ==
  IF vstack # <<>> THEN TakeOver(Last(vstack).who) /\ vstack' = Front(vstack)
  ELSE KeepHandler

(* The handler set aside where the scope that just closed was handed over. *)
HandBack ==
  IF vstack # <<>> /\ Last(vstack).depth = depth'
  THEN TakeOver(Last(vstack).who) /\ vstack' = Front(vstack)
  ELSE KeepHandler

(* The table descended into it: no handler heard it open.                  *)
EndOfBoundScope ==
  /\ bstack # <<>> /\ bmap # "none"
  /\ CloseScope
  /\ said' = <<>>
  /\ KeepHandler

(* A child handler hears its own scope close before it is set aside.       *)
EndOfHandlerScope ==
  /\ bstack = <<>> \/ bmap = "none"
  /\ CloseScope
  /\ said' = IF visitor = "nobody" THEN <<>>
             ELSE <<Call(visitor, "on_sequence_end", 0, <<>>)>>
  /\ HandBack

-----------------------------------------------------------------------------
(* Selecting an option: _reset_option when it is not the one held.         *)

(* What freeze prepared for the rows of the one-of tables.                 *)
Plan ==
  [e \in UNION {{<<t, id>> : id \in DOMAIN T[t].rows} :
                  t \in {u \in DOMAIN T : T[u].which >= 0}} |->
     LET r == T[e[1]].rows[e[2]] IN
     [words |-> ResetWords(T, r), objects |-> ResetObjects(T, r), into |-> ResetInto(T, r)]]

Switches(e) ==
  LET w == T[e[1]].which IN w >= 0 /\ words[w] # e[2]

(* A selected option keeps the option its inner union held before.         *)
WordsSelectedKeepingInner(e) ==
  LET w == T[e[1]].which
      kept == {p \in Plan[e].words : \A t \in DOMAIN T : p[1] # T[t].which}
      fresh == IF Switches(e) THEN Overlay(words, kept) ELSE words
  IN IF w >= 0 THEN [fresh EXCEPT ![w] = e[2]] ELSE words

WordsSelected(e) ==
  LET w == T[e[1]].which
      fresh == IF Switches(e) THEN Overlay(words, Plan[e].words) ELSE words
  IN IF w >= 0 THEN [fresh EXCEPT ![w] = e[2]] ELSE words

ObjectsSelected(e) ==
  IF Switches(e) THEN OverlayInto(Overlay(objects, Plan[e].objects), Plan[e].into)
  ELSE objects

(* The depth limit is not asked.                                           *)
StartAtAnyDepth(id) == Walking

-----------------------------------------------------------------------------
(* SEQUENCE_START.                                                         *)

StartAt(id) == Walking /\ depth < MaxDepth

(* _next_wire refuses a start past MAX_DEPTH.                              *)
TooDeep ==
  /\ Walking /\ depth = MaxDepth
  /\ verdict' = "INVALID" /\ said' = <<>> /\ due' = <<>>
  /\ UNCHANGED <<depth, routing, storage, resume, resumeEntry, cur, scopes, held>>

(* The table has a child for it.                                           *)
Descend(id) ==
  LET r == T[bmap].rows[id]
      place == Append(Here.path, id)
      w == WordsSelected(<<bmap, id>>)
  IN
  /\ StartAt(id) /\ Typed(bmap, id, "sequence")
  /\ r.count >= 0 => w[r.count] < MaxCount
  /\ words' = IF r.count < 0 THEN w ELSE [w EXCEPT ![r.count] = @ + 1]
  /\ objects' = ObjectsSelected(<<bmap, id>>)
  /\ depth' = depth + 1
  /\ bstack' = Append(bstack, bmap) /\ bmap' = r.child
  /\ scopes' = Append(scopes, Scope(r.child, Here.who, "table", place))
  /\ held' = Opened(r, Selected(held, place), place)
  /\ said' = <<>> /\ due' = DueBegin(Here, id)
  /\ KeepHandler
  /\ UNCHANGED flight

(* The table is set aside only while it is in force.                       *)
SuppressLiveTable ==
  IF bmap = "none" THEN UNCHANGED <<bmap, bstack>>
  ELSE bstack' = Append(bstack, bmap) /\ bmap' = "none"

(* Its ids mean nothing to the enclosing table.  Pushed even where that is *)
(* none already: every end pops one.                                       *)
SuppressTable ==
  IF Root = "none" THEN UNCHANGED <<bmap, bstack>>
  ELSE bstack' = Append(bstack, bmap) /\ bmap' = "none"

(* A handler takes the sub-tree, or hands it to another handler.           *)
OpenToHandler(id) ==
  LET answer == Replies(visitor, id) IN
  /\ StartAt(id) /\ ~Typed(bmap, id, "sequence") /\ ~Closed(bmap)
  /\ visitor # "nobody" /\ answer # "decline"
  /\ depth' = depth + 1
  /\ SuppressTable
  /\ IF answer \in Handlers
     THEN /\ vstack' = Append(vstack, [who |-> visitor, depth |-> depth])
          /\ TakeOver(answer)
     ELSE KeepHandler
  /\ scopes' = Append(scopes, Scope("none",
                 IF Replies(Here.who, id) \in Handlers THEN Replies(Here.who, id)
                                                       ELSE Here.who,
                 "handler", <<>>))
  /\ said' = IF Wants(flags, "on_sequence_begin")
             THEN <<Call(visitor, "on_sequence_begin", id, <<>>)>> ELSE <<>>
  /\ due' = DueBegin(Here, id)
  /\ UNCHANGED <<storage, flight, held>>

(* _skip_sequence: the sub-tree passes unheard and the depth is as before. *)
SkipSequence(id) ==
  /\ StartAt(id) /\ ~Typed(bmap, id, "sequence")
  /\ Closed(bmap) \/ visitor = "nobody" \/ Replies(visitor, id) = "decline"
  /\ said' = IF ~Closed(bmap) /\ Wants(flags, "on_sequence_begin")
             THEN <<Call(visitor, "on_sequence_begin", id, <<>>)>> ELSE <<>>
  /\ due' = DueBegin(Here, id)
  /\ UNCHANGED <<depth, routing, storage, flight, scopes, held>>

-----------------------------------------------------------------------------

(* A handler's suspended value leaves the row of an earlier one in place.  *)
SettledKeepingRow(outcome, e, f) ==
  /\ resume' = (outcome = "INCOMPLETE")
  /\ resumeEntry' = IF resume' /\ e # <<>> THEN e ELSE resumeEntry
  /\ cur' = IF resume' THEN f ELSE NoField
  /\ verdict' = IF outcome \in {"INVALID", "LIMIT"} THEN outcome ELSE verdict

(* How the read of a value left the walk: suspended with the route to take *)
(* up again (e is its row, <<>> the handler), rejected, or done with it.   *)
Settled(outcome, e, f) ==
  /\ resume' = (outcome = "INCOMPLETE")
  /\ resumeEntry' = IF resume' THEN e ELSE resumeEntry
  /\ cur' = IF resume' THEN f ELSE NoField
  /\ verdict' = IF outcome \in {"INVALID", "LIMIT"} THEN outcome ELSE verdict

-----------------------------------------------------------------------------
(* A value the table names.  Of its words the first j have arrived.        *)

TooWide(r, f, j) ==
  r.kind \in {"unsigned", "array"} /\ \E k \in 1 .. j : f.data[k] > r.hi

MappedOutcome(r, f, j) ==
  LET n == Len(f.data) IN
  CASE Declared(r) >= 0 /\ n > Declared(r)                       -> "INVALID"
    [] r.kind = "text" /\ Declared(r) < 0 /\ n > LengthCap       -> "LIMIT"
    [] r.kind = "into" /\ ~(Declared(r) >= 0 /\ n > Declared(r))
         /\ n > Len(objects[r.at])                               -> "REFUSED"
    [] OTHER -> IF TooWide(r, f, j) THEN "INVALID"
                ELSE IF j < n THEN "INCOMPLETE" ELSE "stored"

(* The elements that reached their slots: up to the first refused one.     *)
Filled(r, f, j) ==
  IF r.kind \notin ArrayKinds \/ Len(f.data) > r.cap THEN {}
  ELSE {<<r.at + k - 1, f.data[k]>> : k \in {i \in 1 .. j : ~TooWide(r, f, i)}}

StoredWords(r, f) ==
  (CASE r.kind \in ScalarKinds -> {<<r.at, Meant(r, f.data)[1]>>}
     [] r.kind \in ArrayKinds  -> {<<r.at + k - 1, Meant(r, f.data)[k]>> : k \in DOMAIN f.data}
     [] OTHER                  -> {})
  \cup
  (IF r.count < 0 THEN {}
   ELSE {<<r.count, IF r.kind \in ArrayKinds \cup {"into"} THEN Len(f.data) ELSE 1>>})

MappedField(e, f, j) ==
  LET r == T[e[1]].rows[e[2]]
      outcome == MappedOutcome(r, f, j)
      place == Append(Here.path, e[2])
      w == WordsSelected(e)
      o == ObjectsSelected(e)
      selected == IF Here.by = "handler" THEN held ELSE Selected(held, place)
  IN
  /\ words' = IF outcome = "stored" THEN Overlay(w, StoredWords(r, f))
                                    ELSE Overlay(w, Filled(r, f, j))
  /\ objects' = IF outcome # "stored" THEN o
                ELSE CASE r.kind = "text" -> [o EXCEPT ![r.at] = f.data]
                       [] r.kind = "into" -> [o EXCEPT ![r.at] = Copied(@, f.data)]
                       [] OTHER           -> o
  /\ held' = IF outcome = "stored" /\ Here.by # "handler"
             THEN Replaced(r, selected, place, f.data) ELSE selected
  /\ Settled(outcome, e, f)
  /\ said' = <<>>

Mapped(f, j) ==
  /\ Walking /\ Typed(bmap, f.id, f.tag)
  /\ MappedField(<<bmap, f.id>>, f, j)
  /\ due' = DueValue(Here, f, FALSE, ~resume')
  /\ UNCHANGED <<depth, routing, scopes>>

-----------------------------------------------------------------------------
(* A value for the handler.                                                *)

Skipped(f) ==
  \/ Names(bmap, f.id) /\ ~Typed(bmap, f.id, f.tag)
  \/ ~Names(bmap, f.id) /\ (Closed(bmap) \/ visitor = "nobody")

Asks(f) == makeField /\ ~Skipped(f)
Refuses(f) == Asks(f) /\ f.id \in Declines[visitor]

FieldCall(f) ==
  IF Asks(f) THEN <<Call(visitor, "on_field", f.id, <<>>)>> ELSE <<>>

BoundCall(f) ==
  IF Wants(flags, "on_schema_bound") /\ HasLength(f)
  THEN <<Call(visitor, "on_schema_bound", f.id, <<>>)>> ELSE <<>>

SchemaBound(h, f) == IF f.tag = "text" THEN TextBound[h] ELSE -1

(* Mistyped, unknown to a closed table, declined, or wanted by nobody.     *)
SkipField(f) ==
  /\ Walking /\ ~Typed(bmap, f.id, f.tag)
  /\ Skipped(f) \/ Refuses(f)
  /\ said' = FieldCall(f) /\ due' = DueValue(Here, f, FALSE, FALSE)
  /\ UNCHANGED <<depth, routing, storage, flight, scopes, held>>

VisitOutcome(f, j, bounded) ==
  LET n == Len(f.data)
      bound == IF bounded THEN SchemaBound(visitor, f) ELSE -1
  IN CASE bound >= 0 /\ n > bound                        -> "INVALID"
       [] bound < 0 /\ HasLength(f) /\ n > LengthCap     -> "LIMIT"
       [] OTHER -> IF j < n THEN "INCOMPLETE" ELSE "handed"

ValueCall(f) == <<Call(visitor, "on_value", f.id, f.data)>>

Visit(f, j) ==
  LET outcome == VisitOutcome(f, j, Wants(flags, "on_schema_bound")) IN
  /\ Walking /\ ~Typed(bmap, f.id, f.tag) /\ ~Skipped(f) /\ ~Refuses(f)
  /\ said' = FieldCall(f) \o BoundCall(f)
             \o (IF outcome = "handed" THEN ValueCall(f) ELSE <<>>)
  /\ Settled(outcome, <<>>, f)
  /\ due' = DueValue(Here, f, FALSE, ~resume' /\ verdict' = "fine")
  /\ UNCHANGED <<depth, routing, storage, scopes, held>>

-----------------------------------------------------------------------------
(* The next feed finishes the value, by the route it was suspended on.     *)

NextFeed == makeField' = Wants(flags, "on_field")

ResumeMapped(j) ==
  /\ verdict = "fine" /\ resume /\ resumeEntry # <<>>
  /\ MappedField(resumeEntry, cur, j) /\ NextFeed
  /\ due' = DueValue(Here, cur, TRUE, ~resume')
  /\ UNCHANGED <<depth, bmap, bstack, visitor, vstack, flags, scopes>>

ResumeVisit(j) ==
  /\ verdict = "fine" /\ resume /\ resumeEntry = <<>>
  /\ resume' = (j < Len(cur.data))
  /\ cur' = IF resume' THEN cur ELSE NoField
  /\ said' = IF resume' THEN <<>> ELSE ValueCall(cur)
  /\ due' = DueValue(Here, cur, TRUE, ~resume')
  /\ NextFeed
  /\ UNCHANGED <<depth, bmap, bstack, visitor, vstack, flags, storage,
                 resumeEntry, verdict, scopes, held>>

(***************************************************************************)
(* reset: the next message, at any point of this one.  The decoder rewinds *)
(* to its own handler and table; the caller prepares the storage afresh.   *)
(***************************************************************************)
Reset ==
  /\ depth' = 0 /\ resume' = FALSE /\ resumeEntry' = <<>> /\ cur' = NoField
  /\ verdict' = "fine"
  /\ TakeOver(IF vstack = <<>> THEN visitor ELSE vstack[1].who) /\ vstack' = <<>>
  /\ bmap' = IF bstack = <<>> THEN bmap ELSE bstack[1]
  /\ bstack' = <<>>
  /\ words' = Words0 /\ objects' = Objects0
  /\ said' = <<>> /\ due' = <<>>
  /\ scopes' = SubSeq(scopes, 1, 1)
  /\ held' = Prepared(Words0, Objects0)

Next ==
  \/ EndOfBoundScope \/ EndOfHandlerScope \/ TooDeep \/ Reset
  \/ \E id \in Ids : Descend(id) \/ OpenToHandler(id) \/ SkipSequence(id)
  \/ \E f \in Arriving :
       \/ SkipField(f)
       \/ \E j \in 0 .. Len(f.data) : Mapped(f, j) \/ Visit(f, j)
  \/ \E j \in 0 .. Len(cur.data) : ResumeMapped(j) \/ ResumeVisit(j)

Spec == Init /\ [][Next]_vars

-----------------------------------------------------------------------------
TypeOK ==
  /\ depth \in 0 .. MaxDepth
  /\ bmap \in DOMAIN T \cup {"none"} /\ bstack \in Seq(DOMAIN T \cup {"none"})
  /\ visitor \in Handlers \cup {"nobody"} /\ flags \in Handlers \cup {"nobody"}
  /\ vstack \in Seq([who : Handlers \cup {"nobody"}, depth : Nat])
  /\ makeField \in BOOLEAN /\ resume \in BOOLEAN
  /\ cur \in Fields \cup {NoField}
  /\ verdict \in {"fine", "INVALID", "LIMIT"}

(***************************************************************************)
(* The two stacks agree with the nesting of the message.  Whatever mix of  *)
(* table scopes, handler scopes and child handlers is open, the table and  *)
(* the handler in force are those of the innermost scope, the flags are    *)
(* that handler's, and everything to go back to is on the stacks.          *)
(***************************************************************************)
HandedOver == {k \in 2 .. Len(scopes) : scopes[k].who # scopes[k - 1].who}

TablesMirrorScopes ==
  /\ Len(scopes) = depth + 1
  /\ bmap = Here.table
  /\ bstack = IF Root = "none" THEN <<>> ELSE [k \in 1 .. depth |-> scopes[k].table]

HandlersMirrorScopes ==
  /\ visitor = Here.who /\ flags = visitor
  /\ makeField = Wants(visitor, "on_field")
  /\ Len(vstack) <= depth
  /\ \A k \in HandedOver :
       \E i \in DOMAIN vstack : vstack[i] = [who |-> scopes[k - 1].who, depth |-> k - 2]

(***************************************************************************)
(* Every hook call goes to the handler whose scope it is about, with that  *)
(* handler's own overrides, and nobody else is told: a scope is heard from *)
(* both ends or not at all, a field the table names reaches no handler,    *)
(* and a value cut by the end of a feed is handed over once.               *)
(***************************************************************************)
HeardByItsOwner == said = due

(***************************************************************************)
(* The storage means the message: between values, every place a reader can *)
(* reach shows what the message says of it, and every union it can reach   *)
(* the option held.  Mistyped and unknown fields have switched nothing; an *)
(* option selected anew shows nothing of its earlier life, and no other    *)
(* field lost anything to the reset.  While a value is in flight its own   *)
(* place is excepted.                                                      *)
(***************************************************************************)
InFlight == IF resume /\ resumeEntry # <<>> THEN {Append(Here.path, cur.id)} ELSE {}

StorageShowsMessage ==
  verdict = "fine" =>
    /\ \A place \in Places \ InFlight :
         Reads(held, place) => Shows(held, place, words, objects)
    /\ \A path \in Unions : Reads(held, path) => ShowsOption(held, path, words)
=============================================================================
