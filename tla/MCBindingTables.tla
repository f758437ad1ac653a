-------------------------- MODULE MCBindingTables --------------------------
(***************************************************************************)
(* Two tables for TLC, an ordinary one and a union, and the arguments the  *)
(* binder methods are called with: ids on both sides of the direct index,  *)
(* slots and counts that set the storage alone, widths and defaults that   *)
(* are taken and that are refused.                                         *)
(***************************************************************************)
EXTENDS BindingTables, TLC

MCTables == {"struct", "union"}
MCWhich  == "struct" :> -1 @@ "union" :> 1
MCFirst  == "struct" :> 0 @@ "union" :> 0

(* Words are of three bits: 0 .. 7, or -4 .. 3.                            *)
MCArgs ==
  [unsigned |-> {[id |-> 0, at |-> 2, count |-> <<>>, max |-> <<1>>, default |-> <<1>>],
                 [id |-> 2, at |-> 3, count |-> <<>>, max |-> <<8>>, default |-> <<>>]},
   signed   |-> {[id |-> 0, at |-> 0, count |-> <<2>>, min |-> <<-2>>, max |-> <<1>>, default |-> <<-1>>],
                 [id |-> 0, at |-> 0, count |-> <<2>>, min |-> <<1>>, max |-> <<>>, default |-> <<>>]},
   boolean  |-> {[id |-> 1, at |-> 1, count |-> <<>>, default |-> <<2>>]},
   float    |-> {[id |-> 1, at |-> 0, count |-> <<>>, default |-> <<3>>]},
   text     |-> {[id |-> 2, at |-> 1, cap |-> 1, count |-> <<3>>, default |-> <<<<1>>>>]},
   array    |-> {[id |-> 0, at |-> 1, cap |-> 2, count |-> <<0>>, max |-> <<1>>, default |-> <<<<-1>>>>]},
   floats   |-> {[id |-> 2, at |-> 0, cap |-> 2, count |-> <<3>>, default |-> <<>>]},
   sequence |-> {[id |-> 1, count |-> <<2>>]}]

MCMaxRows == "struct" :> 2 @@ "union" :> 1

MCStorage ==
  {[words |-> -1, objects |-> 0], [words |-> 2, objects |-> -1],
   [words |-> 4, objects |-> 2]}
=============================================================================
