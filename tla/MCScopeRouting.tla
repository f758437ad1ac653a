--------------------------- MODULE MCScopeRouting ---------------------------
(***************************************************************************)
(* Schemas and handlers for TLC.                                           *)
(***************************************************************************)
EXTENDS ScopeRouting, TLC

Leaf(kind, at, cap, count, hi, default) ==
  [kind |-> kind, at |-> at, cap |-> cap, count |-> count, child |-> "",
   hi |-> hi, default |-> default]

Nested(child, count) ==
  [kind |-> "sequence", at |-> 0, cap |-> 0, count |-> count, child |-> child,
   hi |-> 0, default |-> <<>>]

Struct(closed, rows) ==
  [closed |-> closed, which |-> -1, first |-> 0, rows |-> rows]

Union(which, first, rows) ==
  [closed |-> TRUE, which |-> which, first |-> first, rows |-> rows]

-----------------------------------------------------------------------------
(* Routing.  Ids 1 and 2 mean different things in every scope: a child     *)
(* table, a number, an unknown id, the handlers' own sub-trees.            *)
RoutingTables ==
  "root" :> Struct(FALSE, 1 :> Nested("closed", -1) @@ 2 :> Leaf("unsigned", 0, 0, -1, 5, <<0>>)
                          @@ 3 :> Nested("open", 2))
  @@ "closed" :> Struct(TRUE, 2 :> Leaf("unsigned", 1, 0, -1, 5, <<0>>)
                              @@ 3 :> Nested("open", -1))
  @@ "open" :> Struct(FALSE, 1 :> Leaf("unsigned", 0, 0, -1, 5, <<0>>))

(* a hands 2 to b and declines 4; b hands 1 to c, which hands 3 back to a. *)
RoutingAnswers ==
  "a" :> (2 :> "b" @@ 4 :> "decline")
  @@ "b" :> (1 :> "c" @@ 2 :> "same")
  @@ "c" :> (3 :> "a")

RoutingOverrides ==
  "a" :> {"on_sequence_begin", "on_schema_bound"}
  @@ "b" :> {"on_field", "on_sequence_begin"}
  @@ "c" :> {"on_field"}

RoutingDeclines == "a" :> {} @@ "b" :> {1} @@ "c" :> {2}
RoutingBounds   == "a" :> 1 @@ "b" :> -1 @@ "c" :> -1

RoutingPayloads ==
  "unsigned" :> {<<1>>} @@ "text" :> {<<1>>, <<1, 1>>, <<1, 1, 1>>} @@ "array" :> {}

RoutingWords == (0 :> 0) @@ (1 :> 0) @@ (2 :> 0)

-----------------------------------------------------------------------------
(* Storage: a union of a number, a struct and an array; the struct holds a *)
(* number in the first option's slot, an array, a string copied into a     *)
(* buffer, and a union of its own whose default is its second option.      *)
StorageTables ==
  "root" :> Struct(FALSE, 1 :> Nested("union", -1))
  @@ "union" :> Union(0, 1,
        1 :> Leaf("unsigned", 1, 0, -1, 1, <<1>>) @@ 2 :> Nested("struct", 2))
  @@ "struct" :> Struct(TRUE,
        1 :> Leaf("boolean", 1, 0, 3, 0, <<1>>)
        @@ 2 :> Leaf("array", 4, 2, 6, 1, <<1>>)
        @@ 3 :> Nested("inner", -1))
  @@ "inner" :> Union(7, 2,
        1 :> Leaf("text", 0, 0, -1, 0, <<>>) @@ 2 :> Leaf("into", 1, 0, 8, 0, <<1>>)
        @@ 3 :> Leaf("flags", 8, 1, 9, 0, <<>>))

StoragePayloads ==
  "unsigned" :> {<<0>>, <<2>>} @@ "text" :> {<<0>>, <<1, 1>>}
  @@ "array" :> {<<0>>, <<2, 0>>}

StorageWords   == [s \in 0 .. 9 |-> CASE s = 0 -> 1 [] s = 7 -> 2 [] OTHER -> 0]
StorageObjects == (0 :> <<>>) @@ (1 :> <<0>>)

(* The storage is laid out as the theorem about it asks.                   *)
ASSUME StorageIsLaid == T = StorageTables => Laid(Words0, Objects0)

(* No handlers, or no objects.                                             *)
Nothing == [h \in {} |-> <<>>]
=============================================================================
