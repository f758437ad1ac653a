-------------------------- MODULE DestinationTable --------------------------
(***************************************************************************)
(* A destination table (binding.py): which slot of the caller's storage a  *)
(* field id's value belongs to, and what a union option starts from when   *)
(* it is selected anew (MESSAGE_SPEC 7.4.1).  Every operator takes the     *)
(* tables T, a function from table names to tables: a child table writes   *)
(* into the same storage as its parent, and a schema may be recursive.     *)
(*                                                                         *)
(* A value is a sequence of words: one word for a number, the elements of  *)
(* an array, the bytes of a string or blob.  Slots of words and of objects *)
(* are numbers from 0; -1 stands for no slot, as in the code.              *)
(***************************************************************************)
EXTENDS Integers, Sequences, FiniteSets

(* The kinds the walk tells apart: one plain word, a boolean, and so on.   *)
Kinds == {"unsigned", "boolean", "text", "into", "array", "flags", "sequence"}

(* The wire tag a row accepts: a boolean travels as an unsigned, an array  *)
(* of booleans as an array of unsigned, an into row as what it copies.     *)
Tag(kind) ==
  CASE kind = "boolean" -> "unsigned"
    [] kind = "flags"   -> "array"
    [] kind = "into"    -> "text"
    [] OTHER            -> kind

Tags == {Tag(k) : k \in Kinds}

ArrayKinds  == {"array", "flags"}
ObjectKinds == {"text", "into"}
ScalarKinds == {"unsigned", "boolean"}

(* All the kinds of one word, and all that take cap words.                 *)
OneWordKinds   == ScalarKinds \cup {"signed", "float32", "float64"}
ManyWordsKinds == ArrayKinds \cup {"signeds", "floats32", "floats64"}

(***************************************************************************)
(* One row.  hi is the declared element width; default the declared        *)
(* default in the form its own arrival would leave, empty when there is    *)
(* none (a scalar always has one, 0 if the schema names none).             *)
(***************************************************************************)
Row == [kind : Kinds, at : Nat, cap : Nat, count : Nat \cup {-1},
        child : STRING, hi : Nat, default : Seq(Nat)]

(* A table: whether an id it does not name is skipped; for a one-of table  *)
(* the slot of the held option's id (which) and the default option (first).*)
IsTable(t) ==
  /\ t.closed \in BOOLEAN /\ t.which \in Nat \cup {-1} /\ t.first \in Nat
  /\ DOMAIN t.rows \subseteq Nat
  /\ \A id \in DOMAIN t.rows : t.rows[id] \in Row

(* The schema bound a row states; -1 when it states none.                  *)
Declared(r) ==
  IF r.kind \in ManyWordsKinds \/ (r.kind \in ObjectKinds /\ r.cap > 0)
  THEN r.cap ELSE -1

-----------------------------------------------------------------------------
(* What a row owns, as pairs of a slot and the value it starts from.       *)

OwnWords(r) ==
  (CASE r.kind \in OneWordKinds   -> {<<r.at, r.default[1]>>}
     [] r.kind \in ManyWordsKinds -> {<<r.at + k - 1, r.default[k]>> :
                                        k \in DOMAIN r.default}
     [] OTHER                     -> {})
  \cup
  (IF r.count < 0 THEN {}
   ELSE {<<r.count, IF r.kind \in ManyWordsKinds \cup {"into"}
                    THEN Len(r.default) ELSE 0>>})

OwnObjects(r) == IF r.kind = "text" THEN {<<r.at, r.default>>} ELSE {}

OwnInto(r) ==
  IF r.kind = "into" /\ r.default # <<>> THEN {<<r.at, r.default>>} ELSE {}

-----------------------------------------------------------------------------
(* The tables below a table.                                               *)

RowsOf(T, t) == {T[t].rows[id] : id \in DOMAIN T[t].rows}

ChildrenIn(rows) == {r.child : r \in {q \in rows : q.kind = "sequence"}}

(* Everything from start on that Below leads to, one level at a time.      *)
Closure(start, Below(_), levels) ==
  LET Level[n \in 0 .. levels] ==
        IF n = 0 THEN start
        ELSE Level[n - 1] \cup UNION {Below(t) : t \in Level[n - 1]}
  IN Level[levels]

(***************************************************************************)
(* The rows of a table that a value newly started holds: all of a struct's,*)
(* the default option's of a union.                                        *)
(***************************************************************************)
FreshRows(T, t) ==
  IF T[t].which < 0 THEN RowsOf(T, t)
  ELSE {T[t].rows[id] : id \in DOMAIN T[t].rows \cap {T[t].first}}

(* The tables of such rows below r: the least set with r's child and with  *)
(* the children of every table in it (a schema may be recursive).          *)
FreshTables(T, r) ==
  IF r.kind # "sequence" THEN {}
  ELSE {u \in DOMAIN T :
          \A S \in SUBSET DOMAIN T :
            r.child \in S /\ (\A t \in S : ChildrenIn(FreshRows(T, t)) \subseteq S)
            => u \in S}

(***************************************************************************)
(* _option_reset: every slot an option owns and the value it starts from,  *)
(* over its whole subtree.                                                 *)
(***************************************************************************)
Replayed(T, r, Own(_)) ==
  Own(r) \cup UNION {UNION {Own(q) : q \in FreshRows(T, t)} :
                       t \in FreshTables(T, r)}

ResetWords(T, r) ==
  Replayed(T, r, OwnWords)
  \cup {<<T[t].which, T[t].first>> :
          t \in {u \in FreshTables(T, r) : T[u].which >= 0}}

ResetObjects(T, r) == Replayed(T, r, OwnObjects)
ResetInto(T, r)    == Replayed(T, r, OwnInto)

-----------------------------------------------------------------------------
(* Writing the pairs into storage.  No two of them name one slot: rows     *)
(* that are held together own different slots.                             *)
Overlay(storage, pairs) ==
  [s \in DOMAIN storage |->
     IF \E p \in pairs : p[1] = s THEN (CHOOSE p \in pairs : p[1] = s)[2]
     ELSE storage[s]]

(* Copying a payload over the front of a buffer.                           *)
Copied(buffer, payload) ==
  [k \in DOMAIN buffer |->
     IF k \in DOMAIN payload THEN payload[k] ELSE buffer[k]]

OverlayInto(objects, pairs) ==
  [s \in DOMAIN objects |->
     IF \E p \in pairs : p[1] = s
     THEN Copied(objects[s], (CHOOSE p \in pairs : p[1] = s)[2])
     ELSE objects[s]]
=============================================================================
