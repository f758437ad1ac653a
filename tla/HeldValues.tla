----------------------------- MODULE HeldValues -----------------------------
(***************************************************************************)
(* What the storage behind a destination table promises its reader: the    *)
(* message as a tree of values, with no slots and no reset lists.  A place *)
(* in the tree is the path of ids that leads to it.  A scalar, string or   *)
(* array is replaced whole by its own arrival, a struct merges, and a      *)
(* union holds the last correctly typed option: one selected anew starts   *)
(* from its default, everything below it included (MESSAGE_SPEC 7.4.1).    *)
(* Only schemas whose tables form a tree have such places; a recursive one *)
(* writes the same slots however deep the message nests.                   *)
(***************************************************************************)
EXTENDS DestinationTable

CONSTANTS
  T,     (* the tables by name                                              *)
  Root   (* the table of the decoder's handler; "none" if it has none       *)

ASSUME TableAssumption ==
  /\ \A t \in DOMAIN T : IsTable(T[t]) /\ ChildrenIn(RowsOf(T, t)) \subseteq DOMAIN T
  /\ "none" \notin DOMAIN T /\ Root \in DOMAIN T \cup {"none"}

Front(p)       == SubSeq(p, 1, Len(p) - 1)
Last(p)        == p[Len(p)]
Under(p, q)    == Len(p) <= Len(q) /\ SubSeq(q, 1, Len(p)) = p
Above(p, q)    == Len(p) < Len(q) /\ Under(p, q)

(* The tables of the tree, each with the path that leads to it.            *)
Scopes ==
  IF Root = "none" THEN {}
  ELSE Closure({[path |-> <<>>, table |-> Root]},
         LAMBDA s : {[path |-> Append(s.path, id), table |-> T[s.table].rows[id].child] :
                       id \in {i \in DOMAIN T[s.table].rows :
                                 T[s.table].rows[i].kind = "sequence"}},
         Cardinality(DOMAIN T))

TableAt == [p \in {s.path : s \in Scopes} |-> T[(CHOOSE s \in Scopes : s.path = p).table]]

Places == UNION {{Append(p, id) : id \in DOMAIN TableAt[p].rows} : p \in DOMAIN TableAt}

RowAt == [l \in Places |-> TableAt[Front(l)].rows[Last(l)]]

Unions == {p \in DOMAIN TableAt : TableAt[p].which >= 0}

-----------------------------------------------------------------------------
(* The tree as the caller prepared it, read off the storage once.          *)

Stored(r, words, objects) ==
  CASE r.kind \in ScalarKinds -> <<words[r.at]>>
    [] r.kind \in ArrayKinds  -> [k \in 1 .. words[r.count] |-> words[r.at + k - 1]]
    [] r.kind = "text"        -> objects[r.at]
    [] r.kind = "into"        -> SubSeq(objects[r.at], 1, words[r.count])
    [] OTHER                  -> <<>>

(* How often the row arrived, where its count slot says so.                *)
Arrivals(r, words) ==
  IF r.count < 0 \/ r.kind \in ArrayKinds \cup {"into"} THEN 0 ELSE words[r.count]

Prepared(words, objects) ==
  [val  |-> [l \in Places |-> Stored(RowAt[l], words, objects)],
   seen |-> [l \in Places |-> Arrivals(RowAt[l], words)],
   opt  |-> [p \in Unions |-> words[TableAt[p].which]]]

-----------------------------------------------------------------------------
(* An arrival at a place.                                                  *)

Selected(held, place) ==
  LET union == Front(place) IN
  IF union \notin Unions \/ held.opt[union] = Last(place) THEN held
  ELSE [val  |-> [l \in Places |-> IF Under(place, l)
                    THEN RowAt[l].default ELSE held.val[l]],
        seen |-> [l \in Places |-> IF Under(place, l) THEN 0
                                             ELSE held.seen[l]],
        opt  |-> [p \in Unions |->
                    IF p = union THEN Last(place)
                    ELSE IF Under(place, p) THEN TableAt[p].first
                    ELSE held.opt[p]]]

Opened(r, held, place) ==
  IF r.count < 0 THEN held ELSE [held EXCEPT !.seen[place] = @ + 1]

Meant(r, data) ==
  IF r.kind \in {"boolean", "flags"}
  THEN [k \in DOMAIN data |-> IF data[k] = 0 THEN 0 ELSE 1] ELSE data

Replaced(r, held, place, data) ==
  [held EXCEPT !.val[place] = Meant(r, data),
               !.seen[place] = IF r.count < 0 \/ r.kind \in ArrayKinds \cup {"into"}
                               THEN @ ELSE 1]

-----------------------------------------------------------------------------
(* A reader reaches a place when every union above it holds that option.   *)
Reads(held, place) ==
  \A u \in Unions : Above(u, place) => held.opt[u] = place[Len(u) + 1]

(* The storage shows the tree at one place ...                             *)
Shows(held, place, words, objects) ==
  /\ Arrivals(RowAt[place], words) = held.seen[place]
  /\ Stored(RowAt[place], words, objects) = held.val[place]

(* ... and the option a union holds.                                       *)
ShowsOption(held, path, words) == words[TableAt[path].which] = held.opt[path]

-----------------------------------------------------------------------------
(***************************************************************************)
(* Storage laid out for such a tree.  Only options of one union may share  *)
(* slots, for only one of them is ever held (binding.py:1096); what a row  *)
(* writes has room, its default included; a slot that holds a buffer of    *)
(* the caller's takes no built string.                                     *)
(***************************************************************************)
WordSlots(r) ==
  (CASE r.kind \in ScalarKinds -> {r.at}
     [] r.kind \in ArrayKinds  -> r.at .. r.at + r.cap - 1
     [] OTHER                  -> {})
  \cup (IF r.count < 0 THEN {} ELSE {r.count})

ObjectSlots(r) == IF r.kind \in ObjectKinds THEN {r.at} ELSE {}

(* The two lie in different options of one union.                          *)
Apart(p, q) ==
  \E u \in Unions : Above(u, p) /\ Above(u, q) /\ p[Len(u) + 1] # q[Len(u) + 1]

TablesFormTree ==
  /\ IsFiniteSet(DOMAIN T)
  /\ \A s, u \in Scopes : s.path = u.path <=> s.table = u.table
  /\ \A s \in Scopes : \A id \in DOMAIN T[s.table].rows :
       T[s.table].rows[id].kind = "sequence" =>
         [path |-> Append(s.path, id), table |-> T[s.table].rows[id].child] \in Scopes

SlotsApart ==
  /\ \A l, m \in Places : l # m /\ ~Apart(l, m) =>
       /\ WordSlots(RowAt[l]) \cap WordSlots(RowAt[m]) = {}
       /\ ObjectSlots(RowAt[l]) \cap ObjectSlots(RowAt[m]) = {}
  /\ \A u \in Unions, l \in Places :
       ~Apart(u, l) => TableAt[u].which \notin WordSlots(RowAt[l])
  /\ \A u, v \in Unions : u # v /\ ~Apart(u, v) => TableAt[u].which # TableAt[v].which
  /\ \A l, m \in Places :
       RowAt[l].kind = "into" /\ RowAt[m].kind = "text" => RowAt[l].at # RowAt[m].at

HasRoom(r, words, objects) ==
  /\ WordSlots(r) \subseteq DOMAIN words /\ ObjectSlots(r) \subseteq DOMAIN objects
  /\ r.kind \in ScalarKinds => Len(r.default) = 1 /\ r.count # r.at
  /\ r.kind \in ArrayKinds =>
       /\ r.count >= 0 /\ r.count \notin r.at .. r.at + r.cap - 1
       /\ Len(r.default) <= r.cap
  /\ r.kind = "into" =>
       /\ r.count >= 0 /\ objects[r.at] \in Seq(Nat)
       /\ Len(r.default) <= Len(objects[r.at])
  /\ r.kind = "sequence" => r.default = <<>>

(* An array's count slot never says more than its slots hold.              *)
Counted(r, words) == r.kind \in ArrayKinds => words[r.count] \in 0 .. r.cap

Laid(words, objects) ==
  /\ TablesFormTree /\ SlotsApart
  /\ \A l \in Places :
       /\ HasRoom(RowAt[l], words, objects)
       /\ Reads(Prepared(words, objects), l) => Counted(RowAt[l], words)
  /\ \A u \in Unions : TableAt[u].which \in DOMAIN words
=============================================================================
