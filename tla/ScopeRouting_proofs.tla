------------------------ MODULE ScopeRouting_proofs ------------------------
(***************************************************************************)
(* The stacks of the walk agree with the nesting of the message, and every *)
(* hook call goes to the handler it is owed to, for every schema, every    *)
(* set of handlers and every depth limit; and the storage means the        *)
(* message for every schema laid out as a tree.                            *)
(***************************************************************************)
EXTENDS ScopeRouting, SequenceTheorems, FiniteSetTheorems, WellFoundedInduction, TLAPS

Listeners == Handlers \cup {"nobody"}
ScopeSet == [table : DOMAIN T \cup {"none"}, who : Listeners, by : {"decoder", "table", "handler"}, path : Seq(Ids)]
Aside == [who : Listeners, depth : Nat]

Typing ==
  /\ depth \in 0 .. MaxDepth
  /\ scopes \in Seq(ScopeSet) /\ Len(scopes) = depth + 1
  /\ bmap \in DOMAIN T \cup {"none"}
  /\ bstack \in Seq(DOMAIN T \cup {"none"})
  /\ vstack \in Seq(Aside)

(* Where there is no table there never is one.                             *)
NoTableAnywhere == Root = "none" => \A k \in 1 .. depth + 1 : scopes[k].table = "none"

TablesKept ==
  /\ scopes[1].table = Root
  /\ bmap = scopes[depth + 1].table
  /\ bstack = IF Root = "none" THEN <<>> ELSE [k \in 1 .. depth |-> scopes[k].table]

HandlerInForce ==
  /\ visitor = scopes[depth + 1].who /\ flags = visitor
  /\ makeField = Wants(visitor, "on_field")

(***************************************************************************)
(* What a handler set aside is worth: it was in force in the scope around  *)
(* the one handed over, which is a handler's scope and still open; the     *)
(* deeper ones lie above the shallower ones; and wherever two neighbouring *)
(* scopes differ in their handler, one was set aside.                      *)
(***************************************************************************)
AsideIsOuter ==
  \A i \in 1 .. Len(vstack) :
    /\ vstack[i].depth \in 0 .. depth - 1 /\ vstack[i].depth >= i - 1
    /\ vstack[i].who = scopes[vstack[i].depth + 1].who
    /\ scopes[vstack[i].depth + 2].table = "none"

AsideInOrder ==
  \A i, j \in 1 .. Len(vstack) : i < j => vstack[i].depth < vstack[j].depth

AsideIsAll ==
  \A k \in 2 .. depth + 1 :
    scopes[k].who # scopes[k - 1].who => \E i \in 1 .. Len(vstack) : vstack[i].depth = k - 2

(* Up to the first handing over the decoder's own handler is in force.     *)
TopFirst ==
  /\ vstack = <<>> => \A k \in 1 .. depth + 1 : scopes[k].who = Top
  /\ vstack # <<>> => \A k \in 1 .. vstack[1].depth + 1 : scopes[k].who = Top

HandlersKept == HandlerInForce /\ AsideIsOuter /\ AsideInOrder /\ AsideIsAll /\ TopFirst

IInv == Typing /\ NoTableAnywhere /\ TablesKept /\ HandlersKept

(* What a step does to the nesting, and that it leaves the handlers alone. *)
Opens(new) == depth < MaxDepth /\ depth' = depth + 1 /\ scopes' = Append(scopes, new)

HandlersStay ==
  visitor' = visitor /\ vstack' = vstack /\ flags' = flags /\ makeField' = makeField

-----------------------------------------------------------------------------
LEMMA FrontFacts ==
  ASSUME NEW S, NEW s \in Seq(S), Len(s) > 0
  PROVE  /\ Front(s) \in Seq(S) /\ Len(Front(s)) = Len(s) - 1
         /\ \A k \in 1 .. Len(s) - 1 : Front(s)[k] = s[k]
         /\ Last(s) \in S /\ Last(s) = s[Len(s)]
<1>1. Len(s) \in Nat /\ Len(s) \in 1 .. Len(s) /\ Len(s) - 1 \in Int
      /\ \A k \in 1 .. Len(s) : s[k] \in S
  BY LenProperties, ElementOfSeq
<1>2. /\ SubSeq(s, 1, Len(s) - 1) \in Seq(S)
      /\ Len(SubSeq(s, 1, Len(s) - 1)) = Len(s) - 1
      /\ \A k \in 1 .. Len(s) - 1 : SubSeq(s, 1, Len(s) - 1)[k] = s[k]
  <2> DEFINE n == Len(s) - 1
  <2>1. n \in Int /\ n >= 0 /\ \A k \in 1 .. n : s[k] \in S
    BY <1>1
  <2>2. /\ SubSeq(s, 1, n) \in Seq(S)
        /\ Len(SubSeq(s, 1, n)) = IF 1 <= n THEN n - 1 + 1 ELSE 0
        /\ \A k \in 1 .. n - 1 + 1 : SubSeq(s, 1, n)[k] = s[1 + k - 1]
    <3> HIDE DEF n
    <3> QED BY <2>1, SubSeqProperties
  <2>3. n = Len(s) - 1 /\ n - 1 + 1 = n /\ \A k \in 1 .. n : 1 + k - 1 = k
    BY <2>1
  <2> HIDE DEF n
  <2> QED BY <2>1, <2>2, <2>3, <1>1
<1> QED BY <1>1, <1>2 DEF Front, Last

LEMMA PushFacts ==
  ASSUME NEW S, NEW s \in Seq(S), NEW x \in S
  PROVE  /\ Append(s, x) \in Seq(S) /\ Len(Append(s, x)) = Len(s) + 1
         /\ Append(s, x) # <<>>
         /\ \A k \in 1 .. Len(s) : Append(s, x)[k] = s[k]
         /\ Append(s, x)[Len(s) + 1] = x
BY AppendProperties

LEMMA ChildIsTable ==
  ASSUME NEW t \in DOMAIN T, NEW id \in DOMAIN T[t].rows,
         Tag(T[t].rows[id].kind) = "sequence"
  PROVE  T[t].rows[id].child \in DOMAIN T
<1>1. T[t].rows[id].kind = "sequence"
  <2>1. T[t].rows[id].kind \in Kinds BY TableAssumption DEF IsTable, Row
  <2> QED BY <2>1 DEF Tag, Kinds
<1>2. T[t].rows[id] \in RowsOf(T, t) BY DEF RowsOf
<1>3. T[t].rows[id].child \in ChildrenIn(RowsOf(T, t)) BY <1>1, <1>2 DEF ChildrenIn
<1> QED BY <1>3, TableAssumption

(* The innermost scope.                                                    *)
LEMMA HereFacts ==
  ASSUME Typing
  PROVE  /\ Here = scopes[depth + 1] /\ Here \in ScopeSet
         /\ depth \in Nat
         /\ \A k \in 1 .. depth + 1 : scopes[k] \in ScopeSet
BY DepthAssumption DEF Typing, Here, Last

-----------------------------------------------------------------------------
(* Opening a scope.                                                        *)

LEMMA OpeningExtends ==
  ASSUME IInv, NEW new \in ScopeSet, Opens(new)
  PROVE  /\ depth' \in 0 .. MaxDepth
         /\ scopes' \in Seq(ScopeSet) /\ Len(scopes') = depth' + 1
         /\ \A k \in 1 .. depth + 1 : scopes'[k] = scopes[k]
         /\ scopes'[depth + 2] = new
<1>1. scopes \in Seq(ScopeSet) /\ Len(scopes) = depth + 1 /\ depth \in Nat
  BY HereFacts DEF IInv, Typing
<1>2. /\ Append(scopes, new) \in Seq(ScopeSet) /\ Len(Append(scopes, new)) = depth + 2
      /\ \A k \in 1 .. depth + 1 : Append(scopes, new)[k] = scopes[k]
      /\ Append(scopes, new)[depth + 2] = new
  BY <1>1, PushFacts
<1> QED BY <1>1, <1>2, DepthAssumption DEF Opens

LEMMA OpeningKeepsTables ==
  ASSUME IInv, NEW new \in ScopeSet, Opens(new),
         bmap' = new.table,
         bstack' = IF Root = "none" THEN bstack ELSE Append(bstack, bmap),
         Root = "none" => new.table = "none"
  PROVE  /\ NoTableAnywhere' /\ TablesKept'
         /\ bstack' \in Seq(DOMAIN T \cup {"none"})
<1>1. /\ depth \in Nat /\ depth' = depth + 1
      /\ \A k \in 1 .. depth + 1 : scopes'[k] = scopes[k]
      /\ scopes'[depth + 2] = new
  BY OpeningExtends, HereFacts DEF IInv, Opens
<1>2. NoTableAnywhere'
  BY <1>1 DEF IInv, NoTableAnywhere
<1>3. bstack \in Seq(DOMAIN T \cup {"none"}) /\ bmap \in DOMAIN T \cup {"none"}
  BY DEF IInv, Typing
<1>4. /\ scopes[1].table = Root /\ bmap = scopes[depth + 1].table
      /\ bstack = IF Root = "none" THEN <<>> ELSE [k \in 1 .. depth |-> scopes[k].table]
  BY DEF IInv, TablesKept
<1>5. scopes'[1].table = Root /\ bmap' = scopes'[depth' + 1].table
  BY <1>1, <1>4
<1>6. CASE Root = "none"
  <2>1. bstack' = <<>>
    BY <1>4, <1>6
  <2> QED BY <1>2, <1>3, <1>5, <1>6, <2>1, EmptySeq DEF TablesKept
<1>7. CASE Root # "none"
  <2> DEFINE tables == [k \in 1 .. depth |-> scopes[k].table]
  <2>1. bstack = tables /\ Len(bstack) = depth
    BY <1>1, <1>3, <1>4, <1>7, LenProperties
  <2>2. \A k \in 1 .. depth : bstack[k] = scopes[k].table
    BY <2>1
  <2>3. /\ bstack' \in Seq(DOMAIN T \cup {"none"}) /\ Len(bstack') = depth + 1
        /\ \A k \in 1 .. depth : bstack'[k] = bstack[k]
        /\ bstack'[depth + 1] = bmap
    <3>1. bstack' = Append(bstack, bmap)
      BY <1>7
    <3> DEFINE S == DOMAIN T \cup {"none"}
    <3>2. bstack \in Seq(S) /\ bmap \in S
      BY <1>3
    <3> HIDE DEF S
    <3>3. /\ bstack' \in Seq(S) /\ Len(bstack') = Len(bstack) + 1
          /\ \A k \in 1 .. Len(bstack) : bstack'[k] = bstack[k]
          /\ bstack'[Len(bstack) + 1] = bmap
      BY <3>1, <3>2, PushFacts
    <3> QED BY <2>1, <3>3 DEF S
  <2>4. \A k \in 1 .. depth' : bstack'[k] = scopes'[k].table
    BY <1>1, <1>4, <2>2, <2>3
  <2>5. bstack' = [k \in 1 .. depth' |-> scopes'[k].table]
    BY <1>1, <2>3, <2>4, LenProperties
  <2> QED BY <1>2, <1>5, <1>7, <2>3, <2>5 DEF TablesKept
<1> QED BY <1>6, <1>7

(* The handler in force, and those set aside, told without the definitions. *)
LEMMA InForce ==
  ASSUME IInv
  PROVE  /\ visitor = scopes[depth + 1].who /\ flags = visitor /\ visitor \in Listeners
         /\ makeField = Wants(visitor, "on_field")
         /\ depth \in Nat /\ vstack \in Seq(Aside) /\ Len(vstack) \in Nat
<1>1. depth \in Nat /\ scopes[depth + 1] \in ScopeSet
  BY HereFacts DEF IInv
<1>2. vstack \in Seq(Aside) /\ Len(vstack) \in Nat
  BY LenProperties DEF IInv, Typing
<1>3. visitor = scopes[depth + 1].who /\ flags = visitor
      /\ makeField = Wants(visitor, "on_field")
  BY DEF IInv, HandlersKept, HandlerInForce
<1> QED BY <1>1, <1>2, <1>3 DEF ScopeSet

LEMMA AsideFacts ==
  ASSUME IInv, NEW i \in 1 .. Len(vstack)
  PROVE  /\ vstack[i] \in Aside
         /\ vstack[i].depth \in 0 .. depth - 1 /\ vstack[i].depth >= i - 1
         /\ vstack[i].who = scopes[vstack[i].depth + 1].who
         /\ scopes[vstack[i].depth + 2].table = "none"
         /\ vstack[i].depth + 1 \in 1 .. depth + 1 /\ vstack[i].depth + 2 \in 1 .. depth + 1
<1>1. vstack[i] \in Aside
  BY InForce, ElementOfSeq
<1>2. /\ vstack[i].depth \in 0 .. depth - 1 /\ vstack[i].depth >= i - 1
      /\ vstack[i].who = scopes[vstack[i].depth + 1].who
      /\ scopes[vstack[i].depth + 2].table = "none"
  BY DEF IInv, HandlersKept, AsideIsOuter
<1>3. depth \in Nat
  BY InForce
<1> QED BY <1>1, <1>2, <1>3

LEMMA OrderFacts ==
  ASSUME IInv, NEW i \in 1 .. Len(vstack), NEW j \in 1 .. Len(vstack), i < j
  PROVE  vstack[i].depth < vstack[j].depth
BY DEF IInv, HandlersKept, AsideInOrder

LEMMA SwitchFacts ==
  ASSUME IInv, NEW k \in 2 .. depth + 1, scopes[k].who # scopes[k - 1].who
  PROVE  \E i \in 1 .. Len(vstack) : vstack[i].depth = k - 2
BY DEF IInv, HandlersKept, AsideIsAll

LEMMA TopFacts ==
  ASSUME IInv
  PROVE  /\ (Len(vstack) = 0) <=> (vstack = <<>>)
         /\ Len(vstack) = 0 => \A k \in 1 .. depth + 1 : scopes[k].who = Top
         /\ Len(vstack) # 0 => \A k \in 1 .. vstack[1].depth + 1 : scopes[k].who = Top
<1>1. (Len(vstack) = 0) <=> (vstack = <<>>)
  BY InForce, EmptySeq
<1>2. TopFirst
  BY DEF IInv, HandlersKept
<1> QED BY <1>1, <1>2 DEF TopFirst

LEMMA OpeningInPlaceKeepsHandlers ==
  ASSUME IInv, NEW new \in ScopeSet, Opens(new), new.who = Here.who, HandlersStay
  PROVE  HandlersKept'
<1>1. /\ depth \in Nat /\ depth' = depth + 1
      /\ \A k \in 1 .. depth + 1 : scopes'[k] = scopes[k]
      /\ scopes'[depth + 2] = new /\ new.who = scopes[depth + 1].who
  BY OpeningExtends, HereFacts DEF IInv, Opens
<1>2. visitor' = visitor /\ vstack' = vstack /\ flags' = flags /\ makeField' = makeField
  BY DEF HandlersStay
<1>3. HandlerInForce'
  BY <1>1, <1>2, InForce DEF HandlerInForce, Wants
<1>4. AsideIsOuter'
  <2> SUFFICES ASSUME NEW i \in 1 .. Len(vstack)
               PROVE  /\ vstack[i].depth \in 0 .. depth /\ vstack[i].depth >= i - 1
                      /\ vstack[i].who = scopes'[vstack[i].depth + 1].who
                      /\ scopes'[vstack[i].depth + 2].table = "none"
    <3>1. depth' - 1 = depth
      BY <1>1
    <3> QED BY <1>2, <3>1 DEF AsideIsOuter
  <2>1. /\ vstack[i].depth \in 0 .. depth - 1 /\ vstack[i].depth >= i - 1
        /\ vstack[i].who = scopes[vstack[i].depth + 1].who
        /\ scopes[vstack[i].depth + 2].table = "none"
    BY AsideFacts
  <2>2. vstack[i].depth + 1 \in 1 .. depth + 1 /\ vstack[i].depth + 2 \in 1 .. depth + 1
    BY AsideFacts
  <2>3. /\ scopes'[vstack[i].depth + 1] = scopes[vstack[i].depth + 1]
        /\ scopes'[vstack[i].depth + 2] = scopes[vstack[i].depth + 2]
    BY <1>1, <2>2
  <2>4. vstack[i].depth \in 0 .. depth
    BY <1>1, <2>1
  <2> QED BY <2>1, <2>3, <2>4
<1>5. AsideInOrder'
  BY <1>2, OrderFacts DEF AsideInOrder
<1>6. AsideIsAll'
  <2> SUFFICES ASSUME NEW k \in 2 .. depth + 2, scopes'[k].who # scopes'[k - 1].who
               PROVE  \E i \in 1 .. Len(vstack) : vstack[i].depth = k - 2
    BY <1>1, <1>2 DEF AsideIsAll
  <2>1. k \in 2 .. depth + 1 /\ scopes[k].who # scopes[k - 1].who
    BY <1>1
  <2> QED BY <2>1, SwitchFacts
<1>7. TopFirst'
  <2>1. CASE Len(vstack) = 0
    <3>1. \A k \in 1 .. depth + 2 : scopes'[k].who = Top
      BY <1>1, <2>1, TopFacts
    <3>2. vstack = <<>>
      BY <2>1, TopFacts
    <3> QED BY <1>1, <1>2, <3>1, <3>2 DEF TopFirst
  <2>2. CASE Len(vstack) # 0
    <3>1. vstack[1].depth \in 0 .. depth - 1
          /\ \A k \in 1 .. vstack[1].depth + 1 : scopes'[k].who = Top
      <4>1. 1 \in 1 .. Len(vstack) BY <2>2, InForce
      <4>2. vstack[1].depth \in 0 .. depth - 1 BY <4>1, AsideFacts
      <4> QED BY <1>1, <2>2, <4>2, TopFacts
    <3>2. vstack # <<>>
      BY <2>2, TopFacts
    <3> QED BY <1>2, <3>1, <3>2 DEF TopFirst
  <2> QED BY <2>1, <2>2
<1> QED BY <1>3, <1>4, <1>5, <1>6, <1>7 DEF HandlersKept

LEMMA HandingOverKeepsHandlers ==
  ASSUME IInv, NEW new \in ScopeSet, Opens(new), new.table = "none", TakeOver(new.who),
         vstack' = Append(vstack, [who |-> visitor, depth |-> depth])
  PROVE  HandlersKept' /\ vstack' \in Seq(Aside)
<1> DEFINE aside == [who |-> visitor, depth |-> depth]
           n == Len(vstack)
<1>1. /\ depth \in Nat /\ depth' = depth + 1
      /\ \A k \in 1 .. depth + 1 : scopes'[k] = scopes[k]
      /\ scopes'[depth + 2] = new
  BY OpeningExtends, HereFacts DEF IInv, Opens
<1>2. visitor' = new.who /\ flags' = new.who /\ makeField' = Wants(new.who, "on_field")
  BY DEF TakeOver
<1>3. aside \in Aside /\ aside.who = scopes[depth + 1].who /\ aside.depth = depth
  BY InForce DEF Aside
<1>4. vstack \in Seq(Aside) /\ n \in Nat
  BY InForce
<1>5. /\ vstack' \in Seq(Aside) /\ Len(vstack') = n + 1 /\ vstack' # <<>>
      /\ \A i \in 1 .. n : vstack'[i] = vstack[i]
      /\ vstack'[n + 1] = aside
  BY <1>3, <1>4, PushFacts
<1>6. depth >= n
  <2>1. CASE n = 0 BY <1>1, <2>1
  <2>2. CASE n # 0
    <3>1. n \in 1 .. n BY <1>4, <2>2
    <3>2. vstack[n].depth \in 0 .. depth - 1 /\ vstack[n].depth >= n - 1
      BY <3>1, AsideFacts
    <3> QED BY <1>1, <1>4, <3>2
  <2> QED BY <2>1, <2>2
<1> HIDE DEF aside
<1>7. HandlerInForce'
  BY <1>1, <1>2 DEF HandlerInForce, Wants
<1>8. AsideIsOuter'
  <2> SUFFICES ASSUME NEW i \in 1 .. n + 1
               PROVE  /\ vstack'[i].depth \in 0 .. depth /\ vstack'[i].depth >= i - 1
                      /\ vstack'[i].who = scopes'[vstack'[i].depth + 1].who
                      /\ scopes'[vstack'[i].depth + 2].table = "none"
    <3>1. depth' - 1 = depth
      BY <1>1
    <3> QED BY <1>5, <3>1 DEF AsideIsOuter
  <2>1. CASE i \in 1 .. n
    <3>1. /\ vstack[i].depth \in 0 .. depth - 1 /\ vstack[i].depth >= i - 1
          /\ vstack[i].who = scopes[vstack[i].depth + 1].who
          /\ scopes[vstack[i].depth + 2].table = "none"
      BY <2>1, AsideFacts
    <3>2. vstack[i].depth + 1 \in 1 .. depth + 1 /\ vstack[i].depth + 2 \in 1 .. depth + 1
      BY <2>1, AsideFacts
    <3>3. vstack'[i] = vstack[i]
      BY <1>5, <2>1
    <3>4. scopes'[vstack[i].depth + 1] = scopes[vstack[i].depth + 1]
          /\ scopes'[vstack[i].depth + 2] = scopes[vstack[i].depth + 2]
      BY <1>1, <3>2
    <3>5. vstack[i].depth \in 0 .. depth
      BY <1>1, <3>1
    <3> QED BY <3>1, <3>3, <3>4, <3>5
  <2>2. CASE i = n + 1
    <3>1. vstack'[i] = aside
      BY <1>5, <2>2
    <3>2. depth \in 0 .. depth /\ depth >= i - 1
      BY <1>1, <1>4, <1>6, <2>2
    <3>3. scopes'[depth + 1] = scopes[depth + 1] /\ scopes'[depth + 2].table = "none"
      <4>1. depth + 1 \in 1 .. depth + 1
        BY <1>1
      <4> QED BY <1>1, <4>1
    <3> QED BY <1>3, <3>1, <3>2, <3>3
  <2> QED BY <1>4, <2>1, <2>2
<1>9. AsideInOrder'
  <2> SUFFICES ASSUME NEW i \in 1 .. n + 1, NEW j \in 1 .. n + 1, i < j
               PROVE  vstack'[i].depth < vstack'[j].depth
    BY <1>5 DEF AsideInOrder
  <2>1. CASE j \in 1 .. n
    BY <1>4, <1>5, <2>1, OrderFacts
  <2>2. CASE j = n + 1
    <3>1. i \in 1 .. n /\ vstack[i].depth \in 0 .. depth - 1
      BY <1>4, <2>2, AsideFacts
    <3> QED BY <1>1, <1>3, <1>5, <2>2, <3>1
  <2> QED BY <1>4, <2>1, <2>2
<1>10. AsideIsAll'
  <2> SUFFICES ASSUME NEW k \in 2 .. depth + 2, scopes'[k].who # scopes'[k - 1].who
               PROVE  \E i \in 1 .. n + 1 : vstack'[i].depth = k - 2
    BY <1>1, <1>5 DEF AsideIsAll
  <2>1. CASE k = depth + 2
    <3>1. n + 1 \in 1 .. n + 1 /\ vstack'[n + 1].depth = k - 2
      BY <1>1, <1>3, <1>4, <1>5, <2>1
    <3> QED BY <3>1
  <2>2. CASE k \in 2 .. depth + 1
    <3>1. scopes[k].who # scopes[k - 1].who
      BY <1>1, <2>2
    <3>2. PICK i \in 1 .. n : vstack[i].depth = k - 2
      BY <2>2, <3>1, SwitchFacts
    <3> QED BY <1>4, <1>5, <3>2
  <2> QED BY <1>1, <2>1, <2>2
<1>11. TopFirst'
  <2>1. CASE n = 0
    <3>1. vstack'[1].depth = depth BY <1>3, <1>5, <2>1
    <3>2. \A k \in 1 .. depth + 1 : scopes'[k].who = Top
      BY <1>1, <2>1, TopFacts
    <3> QED BY <1>5, <3>1, <3>2 DEF TopFirst
  <2>2. CASE n # 0
    <3>1. 1 \in 1 .. n /\ vstack'[1] = vstack[1] BY <1>4, <1>5, <2>2
    <3>2. vstack[1].depth \in 0 .. depth - 1
          /\ \A k \in 1 .. vstack[1].depth + 1 : scopes'[k].who = Top
      <4>1. vstack[1].depth \in 0 .. depth - 1 BY <3>1, AsideFacts
      <4> QED BY <1>1, <2>2, <4>1, TopFacts
    <3> QED BY <1>5, <3>1, <3>2 DEF TopFirst
  <2> QED BY <2>1, <2>2
<1> QED BY <1>5, <1>7, <1>8, <1>9, <1>10, <1>11 DEF HandlersKept

LEMMA DescendKeeps ==
  ASSUME IInv, NEW id \in Ids, Descend(id)
  PROVE  IInv'
<1> DEFINE child == T[bmap].rows[id].child
           new == Scope(child, Here.who, "table", Append(Here.path, id))
<1>1. /\ bmap \in DOMAIN T /\ child \in DOMAIN T /\ Root # "none" /\ bmap # "none"
  <2>1. bmap \in DOMAIN T /\ bmap # "none"
        /\ id \in DOMAIN T[bmap].rows /\ Tag(T[bmap].rows[id].kind) = "sequence"
    BY DEF IInv, Typing, Descend, Typed, Names
  <2>2. Root # "none"
    BY <2>1, HereFacts DEF IInv, NoTableAnywhere, TablesKept, Typing
  <2> QED BY <2>1, <2>2, ChildIsTable
<1>2. Here.who \in Listeners /\ Append(Here.path, id) \in Seq(Ids)
  BY HereFacts, AppendProperties DEF IInv, ScopeSet
<1>3. new \in ScopeSet /\ new.who = Here.who /\ new.table = child
  BY <1>1, <1>2 DEF Scope, ScopeSet
<1>4. Opens(new) /\ bstack' = Append(bstack, bmap) /\ bmap' = child /\ HandlersStay
  BY DEF Descend, StartAt, KeepHandler, Opens, HandlersStay
<1> HIDE DEF child, new
<1>5. NoTableAnywhere' /\ TablesKept' /\ bstack' \in Seq(DOMAIN T \cup {"none"})
  BY <1>1, <1>3, <1>4, OpeningKeepsTables
<1>6. HandlersKept'
  BY <1>3, <1>4, OpeningInPlaceKeepsHandlers
<1>7. Typing'
  <2>1. /\ depth' \in 0 .. MaxDepth /\ scopes' \in Seq(ScopeSet) /\ Len(scopes') = depth' + 1
    BY <1>3, <1>4, OpeningExtends
  <2>2. vstack' \in Seq(Aside)
    BY <1>4, InForce DEF HandlersStay
  <2>3. bmap' \in DOMAIN T
    BY <1>1, <1>4
  <2> QED BY <1>5, <2>1, <2>2, <2>3 DEF Typing
<1> QED BY <1>5, <1>6, <1>7 DEF IInv

LEMMA OpenToHandlerKeeps ==
  ASSUME IInv, NEW id \in Ids, OpenToHandler(id)
  PROVE  IInv'
<1> DEFINE answer == Replies(visitor, id)
           heir == IF answer \in Handlers THEN answer ELSE Here.who
           new == Scope("none", heir, "handler", <<>>)
<1>1. Here.who = visitor /\ Here.who \in Listeners
  BY HereFacts DEF IInv, HandlersKept, HandlerInForce, ScopeSet
<1>2. heir \in Listeners
  BY <1>1 DEF Listeners
<1>3. new \in ScopeSet /\ new.who = heir /\ new.table = "none"
  BY <1>2 DEF Scope, ScopeSet
<1>4. /\ Opens(new) /\ SuppressTable
      /\ IF answer \in Handlers
         THEN /\ vstack' = Append(vstack, [who |-> visitor, depth |-> depth])
              /\ TakeOver(answer)
         ELSE KeepHandler
  BY <1>1 DEF OpenToHandler, StartAt, Opens
<1> HIDE DEF answer, new
<1>5. bmap' = "none" /\ bstack' = IF Root = "none" THEN bstack ELSE Append(bstack, bmap)
  <2>1. CASE Root = "none"
    BY <1>4, <2>1, HereFacts DEF SuppressTable, IInv, NoTableAnywhere, TablesKept
  <2>2. CASE Root # "none"
    BY <1>4, <2>2 DEF SuppressTable
  <2> QED BY <2>1, <2>2
<1>6. NoTableAnywhere' /\ TablesKept' /\ bstack' \in Seq(DOMAIN T \cup {"none"})
  BY <1>3, <1>4, <1>5, OpeningKeepsTables
<1>7. HandlersKept' /\ vstack' \in Seq(Aside)
  <2>1. CASE answer \in Handlers
    <3>1. TakeOver(new.who) /\ vstack' = Append(vstack, [who |-> visitor, depth |-> depth])
      BY <1>3, <1>4, <2>1
    <3> QED BY <1>3, <1>4, <3>1, HandingOverKeepsHandlers
  <2>2. CASE answer \notin Handlers
    <3>1. HandlersStay /\ new.who = Here.who
      BY <1>3, <1>4, <2>2 DEF KeepHandler, HandlersStay
    <3>2. vstack' \in Seq(Aside) BY <3>1 DEF HandlersStay, IInv, Typing
    <3> QED BY <1>3, <1>4, <3>1, <3>2, OpeningInPlaceKeepsHandlers
  <2> QED BY <2>1, <2>2
<1>8. Typing'
  <2>1. /\ depth' \in 0 .. MaxDepth /\ scopes' \in Seq(ScopeSet) /\ Len(scopes') = depth' + 1
    BY <1>3, <1>4, OpeningExtends
  <2> QED BY <1>5, <1>6, <1>7, <2>1 DEF Typing
<1> QED BY <1>6, <1>7, <1>8 DEF IInv

-----------------------------------------------------------------------------
(* Closing the innermost scope.                                            *)

Closes == depth > 0 /\ depth' = depth - 1 /\ scopes' = Front(scopes)

LEMMA ClosingForgets ==
  ASSUME IInv, Closes
  PROVE  /\ depth \in Nat /\ depth > 0 /\ depth' = depth - 1 /\ depth' \in 0 .. MaxDepth
         /\ scopes' \in Seq(ScopeSet) /\ Len(scopes') = depth' + 1
         /\ \A k \in 1 .. depth : scopes'[k] = scopes[k]
<1>1. scopes \in Seq(ScopeSet) /\ Len(scopes) = depth + 1 /\ depth \in Nat /\ depth <= MaxDepth
  BY HereFacts, DepthAssumption DEF IInv, Typing
<1>2. depth > 0 /\ depth' = depth - 1 /\ scopes' = Front(scopes)
  BY DEF Closes
<1>3. /\ Front(scopes) \in Seq(ScopeSet) /\ Len(Front(scopes)) = depth
      /\ \A k \in 1 .. depth : Front(scopes)[k] = scopes[k]
  BY <1>1, FrontFacts
<1> QED BY <1>1, <1>2, <1>3, DepthAssumption

LEMMA ClosingKeepsTables ==
  ASSUME IInv, Closes, PopTable
  PROVE  /\ NoTableAnywhere' /\ TablesKept' /\ bmap' \in DOMAIN T \cup {"none"}
         /\ bstack' \in Seq(DOMAIN T \cup {"none"})
<1> DEFINE S == DOMAIN T \cup {"none"}
<1>1. /\ depth \in Nat /\ depth > 0 /\ depth' = depth - 1
      /\ \A k \in 1 .. depth : scopes'[k] = scopes[k]
  BY ClosingForgets
<1>2. bstack \in Seq(S) /\ bmap \in S
  BY DEF IInv, Typing
<1>3. /\ scopes[1].table = Root /\ bmap = scopes[depth + 1].table
      /\ bstack = IF Root = "none" THEN <<>> ELSE [k \in 1 .. depth |-> scopes[k].table]
  BY DEF IInv, TablesKept
<1>4. Root = "none" => \A k \in 1 .. depth + 1 : scopes[k].table = "none"
  BY DEF IInv, NoTableAnywhere
<1>5. NoTableAnywhere'
  BY <1>1, <1>4 DEF NoTableAnywhere
<1>6. scopes'[1].table = Root
  BY <1>1, <1>3
<1>7. CASE Root = "none"
  <2>1. bstack' = <<>> /\ bmap' = bmap
    BY <1>3, <1>7 DEF PopTable
  <2>2. bmap = "none" /\ scopes'[depth' + 1].table = "none"
    BY <1>1, <1>3, <1>4, <1>7
  <2> QED BY <1>2, <1>5, <1>6, <1>7, <2>1, <2>2, EmptySeq DEF TablesKept
<1>8. CASE Root # "none"
  <2>1. bstack = [k \in 1 .. depth |-> scopes[k].table] /\ Len(bstack) = depth /\ bstack # <<>>
    BY <1>1, <1>2, <1>3, <1>8, LenProperties, EmptySeq
  <2>2. bstack' = Front(bstack) /\ bmap' = Last(bstack)
    BY <2>1 DEF PopTable
  <2> HIDE DEF S
  <2>3. /\ bstack' \in Seq(S) /\ Len(bstack') = depth - 1
        /\ \A k \in 1 .. depth - 1 : bstack'[k] = bstack[k]
        /\ bmap' \in S /\ bmap' = bstack[depth]
    <3>1. bstack \in Seq(S) /\ Len(bstack) > 0
      BY <1>1, <1>2, <2>1
    <3>2. /\ Front(bstack) \in Seq(S) /\ Len(Front(bstack)) = Len(bstack) - 1
          /\ \A k \in 1 .. Len(bstack) - 1 : Front(bstack)[k] = bstack[k]
          /\ Last(bstack) \in S /\ Last(bstack) = bstack[Len(bstack)]
      BY <3>1, FrontFacts
    <3>3. Len(bstack) = depth
      BY <2>1
    <3> QED BY <2>2, <3>2, <3>3
  <2>4. bmap' = scopes'[depth' + 1].table
    BY <1>1, <2>1, <2>3
  <2>5. \A k \in 1 .. depth' : bstack'[k] = scopes'[k].table
    <3>1. \A k \in 1 .. depth : bstack[k] = scopes[k].table
      BY <2>1
    <3> QED BY <1>1, <2>3, <3>1
  <2>6. bstack' = [k \in 1 .. depth' |-> scopes'[k].table]
    BY <1>1, <2>3, <2>5, LenProperties
  <2> QED BY <1>5, <1>6, <1>8, <2>3, <2>4, <2>6 DEF TablesKept, S
<1> QED BY <1>7, <1>8

(* No handler was set aside for the scope that closes.                     *)
LEMMA ClosingInPlaceKeepsHandlers ==
  ASSUME IInv, Closes, HandlersStay,
         \A i \in 1 .. Len(vstack) : vstack[i].depth # depth - 1
  PROVE  HandlersKept'
<1>1. /\ depth \in Nat /\ depth > 0 /\ depth' = depth - 1
      /\ \A k \in 1 .. depth : scopes'[k] = scopes[k]
  BY ClosingForgets
<1>2. visitor' = visitor /\ vstack' = vstack /\ flags' = flags /\ makeField' = makeField
  BY DEF HandlersStay
<1>3. HandlerInForce'
  <2>1. scopes[depth + 1].who = scopes[depth].who
    <3> SUFFICES ASSUME scopes[depth + 1].who # scopes[depth].who PROVE FALSE
      OBVIOUS
    <3>1. depth + 1 \in 2 .. depth + 1 /\ (depth + 1) - 1 = depth /\ (depth + 1) - 2 = depth - 1
      BY <1>1
    <3>2. \E i \in 1 .. Len(vstack) : vstack[i].depth = depth - 1
      BY <3>1, SwitchFacts
    <3> QED BY <3>2
  <2> QED BY <1>1, <1>2, <2>1, InForce DEF HandlerInForce, Wants
<1>4. \A i \in 1 .. Len(vstack) : vstack[i].depth \in 0 .. depth - 2
  BY <1>1, AsideFacts
<1>5. AsideIsOuter'
  <2> SUFFICES ASSUME NEW i \in 1 .. Len(vstack)
               PROVE  /\ vstack[i].depth \in 0 .. depth - 2 /\ vstack[i].depth >= i - 1
                      /\ vstack[i].who = scopes'[vstack[i].depth + 1].who
                      /\ scopes'[vstack[i].depth + 2].table = "none"
    BY <1>1, <1>2 DEF AsideIsOuter
  <2>1. /\ vstack[i].depth >= i - 1 /\ vstack[i].who = scopes[vstack[i].depth + 1].who
        /\ scopes[vstack[i].depth + 2].table = "none"
    BY AsideFacts
  <2>2. vstack[i].depth + 1 \in 1 .. depth /\ vstack[i].depth + 2 \in 1 .. depth
    BY <1>1, <1>4
  <2> QED BY <1>1, <1>4, <2>1, <2>2
<1>6. AsideInOrder'
  BY <1>2, OrderFacts DEF AsideInOrder
<1>7. AsideIsAll'
  <2> SUFFICES ASSUME NEW k \in 2 .. depth, scopes'[k].who # scopes'[k - 1].who
               PROVE  \E i \in 1 .. Len(vstack) : vstack[i].depth = k - 2
    BY <1>1, <1>2 DEF AsideIsAll
  <2>1. k \in 2 .. depth + 1 /\ scopes[k].who # scopes[k - 1].who
    BY <1>1
  <2> QED BY <2>1, SwitchFacts
<1>8. TopFirst'
  <2>1. CASE Len(vstack) = 0
    BY <1>1, <1>2, <2>1, TopFacts DEF TopFirst
  <2>2. CASE Len(vstack) # 0
    <3>1. 1 \in 1 .. Len(vstack)
      BY <2>2, InForce
    <3>2. vstack[1].depth \in 0 .. depth - 2
      BY <1>4, <3>1
    <3>3. \A k \in 1 .. vstack[1].depth + 1 : scopes'[k].who = Top
      BY <1>1, <2>2, <3>2, TopFacts
    <3> QED BY <1>2, <2>2, <3>3, TopFacts DEF TopFirst
  <2> QED BY <2>1, <2>2
<1> QED BY <1>3, <1>5, <1>6, <1>7, <1>8 DEF HandlersKept

LEMMA HandingBackKeepsHandlers ==
  ASSUME IInv, Closes, vstack # <<>>, Last(vstack).depth = depth - 1,
         TakeOver(Last(vstack).who), vstack' = Front(vstack)
  PROVE  HandlersKept' /\ vstack' \in Seq(Aside)
<1> DEFINE n == Len(vstack) - 1
<1>1. /\ depth \in Nat /\ depth > 0 /\ depth' = depth - 1
      /\ \A k \in 1 .. depth : scopes'[k] = scopes[k]
  BY ClosingForgets
<1>2. vstack \in Seq(Aside) /\ n \in Nat /\ n + 1 = Len(vstack) /\ n + 1 \in 1 .. Len(vstack)
  BY InForce, TopFacts
<1>3. /\ vstack' \in Seq(Aside) /\ Len(vstack') = n
      /\ \A i \in 1 .. n : vstack'[i] = vstack[i]
      /\ Last(vstack) = vstack[n + 1]
  <2>1. vstack \in Seq(Aside) /\ Len(vstack) > 0 /\ n = Len(vstack) - 1
    BY <1>2
  <2>2. /\ Front(vstack) \in Seq(Aside) /\ Len(Front(vstack)) = Len(vstack) - 1
        /\ \A k \in 1 .. Len(vstack) - 1 : Front(vstack)[k] = vstack[k]
        /\ Last(vstack) = vstack[Len(vstack)]
    BY <2>1, FrontFacts
  <2>3. vstack' = Front(vstack)
    OBVIOUS
  <2> QED BY <1>2, <2>2, <2>3
<1>4. vstack[n + 1].depth = depth - 1 /\ vstack[n + 1].who = scopes[depth].who
  <2>1. vstack[n + 1].who = scopes[vstack[n + 1].depth + 1].who
    BY <1>2, AsideFacts
  <2> QED BY <1>1, <1>3, <2>1
<1>5. visitor' = scopes[depth].who /\ flags' = visitor' /\ makeField' = Wants(visitor', "on_field")
  BY <1>3, <1>4 DEF TakeOver
<1>6. HandlerInForce'
  BY <1>1, <1>5 DEF HandlerInForce, Wants
<1>7. \A i \in 1 .. n : vstack[i].depth \in 0 .. depth - 2
  <2> SUFFICES ASSUME NEW i \in 1 .. n PROVE vstack[i].depth \in 0 .. depth - 2
    OBVIOUS
  <2>1. i \in 1 .. Len(vstack) /\ i < n + 1
    BY <1>2
  <2>2. vstack[i].depth < vstack[n + 1].depth
    BY <1>2, <2>1, OrderFacts
  <2>3. vstack[i].depth \in 0 .. depth - 1
    BY <2>1, AsideFacts
  <2> QED BY <1>1, <1>4, <2>2, <2>3
<1>8. AsideIsOuter'
  <2> SUFFICES ASSUME NEW i \in 1 .. n
               PROVE  /\ vstack'[i].depth \in 0 .. depth - 2 /\ vstack'[i].depth >= i - 1
                      /\ vstack'[i].who = scopes'[vstack'[i].depth + 1].who
                      /\ scopes'[vstack'[i].depth + 2].table = "none"
    <3>1. depth' - 1 = depth - 2 BY <1>1
    <3> QED BY <1>3, <3>1 DEF AsideIsOuter
  <2>1. /\ vstack[i].depth >= i - 1 /\ vstack[i].who = scopes[vstack[i].depth + 1].who
        /\ scopes[vstack[i].depth + 2].table = "none"
    <3>1. i \in 1 .. Len(vstack) BY <1>2
    <3> QED BY <3>1, AsideFacts
  <2>2. vstack[i].depth + 1 \in 1 .. depth /\ vstack[i].depth + 2 \in 1 .. depth
    BY <1>1, <1>7
  <2> QED BY <1>1, <1>3, <1>7, <2>1, <2>2
<1>9. AsideInOrder'
  <2> SUFFICES ASSUME NEW i \in 1 .. n, NEW j \in 1 .. n, i < j
               PROVE  vstack[i].depth < vstack[j].depth
    BY <1>3 DEF AsideInOrder
  <2>1. i \in 1 .. Len(vstack) /\ j \in 1 .. Len(vstack)
    BY <1>2
  <2> QED BY <2>1, OrderFacts
<1>10. AsideIsAll'
  <2> SUFFICES ASSUME NEW k \in 2 .. depth, scopes'[k].who # scopes'[k - 1].who
               PROVE  \E i \in 1 .. n : vstack'[i].depth = k - 2
    BY <1>1, <1>3 DEF AsideIsAll
  <2>1. k \in 2 .. depth + 1 /\ scopes[k].who # scopes[k - 1].who
    BY <1>1
  <2>2. PICK i \in 1 .. Len(vstack) : vstack[i].depth = k - 2
    BY <2>1, SwitchFacts
  <2>3. i # n + 1
    BY <1>1, <1>4, <2>2
  <2>4. i \in 1 .. n
    <3> HIDE DEF n
    <3> QED BY <1>2, <2>3
  <2> QED BY <1>3, <2>2, <2>4
<1>11. TopFirst'
  <2>1. Len(vstack) # 0 /\ 1 \in 1 .. Len(vstack)
    BY <1>2
  <2>2. CASE n = 0
    <3>1. vstack' = <<>>
      BY <1>3, <2>2, EmptySeq
    <3>2. \A k \in 1 .. depth : scopes[k].who = Top
      <4>1. vstack[1].depth = depth - 1 
        <5>1. n + 1 = 1 BY <2>2
        <5>2. vstack[n + 1] = vstack[1] BY <5>1
        <5> QED BY <1>4, <5>2
      <4>2. \A k \in 1 .. vstack[1].depth + 1 : scopes[k].who = Top BY <2>1, TopFacts
      <4> QED BY <1>1, <4>1, <4>2
    <3> QED BY <1>1, <3>1, <3>2 DEF TopFirst
  <2>3. CASE n # 0
    <3>1. vstack' # <<>> /\ vstack'[1] = vstack[1] /\ vstack[1].depth \in 0 .. depth - 2
      BY <1>2, <1>3, <1>7, <2>3, EmptySeq
    <3>2. \A k \in 1 .. vstack[1].depth + 1 : scopes'[k].who = Top
      BY <1>1, <2>1, <3>1, TopFacts
    <3> QED BY <3>1, <3>2 DEF TopFirst
  <2> QED BY <2>2, <2>3
<1> QED BY <1>3, <1>6, <1>8, <1>9, <1>10, <1>11 DEF HandlersKept

LEMMA EndOfBoundScopeKeeps ==
  ASSUME IInv, EndOfBoundScope
  PROVE  IInv'
<1>1. Closes /\ PopTable /\ HandlersStay /\ bmap # "none"
  BY DEF EndOfBoundScope, CloseScope, Closes, KeepHandler, HandlersStay
<1>2. \A i \in 1 .. Len(vstack) : vstack[i].depth # depth - 1
  <2> SUFFICES ASSUME NEW i \in 1 .. Len(vstack), vstack[i].depth = depth - 1
               PROVE  FALSE
    OBVIOUS
  <2>1. scopes[vstack[i].depth + 2].table = "none"
    BY AsideFacts
  <2>2. scopes[depth + 1].table # "none"
    BY <1>1 DEF IInv, TablesKept
  <2>3. vstack[i].depth + 2 = depth + 1
    BY InForce
  <2> QED BY <2>1, <2>2, <2>3
<1>3. HandlersKept'
  BY <1>1, <1>2, ClosingInPlaceKeepsHandlers
<1>4. vstack' \in Seq(Aside)
  BY <1>1, InForce DEF HandlersStay
<1> QED BY <1>1, <1>3, <1>4, ClosingForgets, ClosingKeepsTables DEF IInv, Typing

LEMMA EndOfHandlerScopeKeeps ==
  ASSUME IInv, EndOfHandlerScope
  PROVE  IInv'
<1>1. Closes /\ PopTable /\ HandBack
  BY DEF EndOfHandlerScope, CloseScope, Closes
<1>2. depth' = depth - 1 /\ depth \in Nat
  BY <1>1, ClosingForgets
<1>3. HandlersKept' /\ vstack' \in Seq(Aside)
  <2>1. CASE vstack # <<>> /\ Last(vstack).depth = depth - 1
    <3>1. TakeOver(Last(vstack).who) /\ vstack' = Front(vstack)
      BY <1>1, <1>2, <2>1 DEF HandBack
    <3> QED BY <1>1, <2>1, <3>1, HandingBackKeepsHandlers
  <2>2. CASE ~(vstack # <<>> /\ Last(vstack).depth = depth - 1)
    <3>1. HandlersStay
      BY <1>1, <1>2, <2>2 DEF HandBack, KeepHandler, HandlersStay
    <3>2. \A i \in 1 .. Len(vstack) : vstack[i].depth # depth - 1
      <4> SUFFICES ASSUME NEW i \in 1 .. Len(vstack), vstack[i].depth = depth - 1
                   PROVE  FALSE
        OBVIOUS
      <4> DEFINE n == Len(vstack)
      <4>1. n \in Nat /\ n \in 1 .. n /\ i \in 1 .. n /\ vstack # <<>>
        BY InForce, TopFacts
      <4>2. Last(vstack) = vstack[n]
        BY DEF Last
      <4>3. vstack[n].depth \in 0 .. depth - 1
        BY <4>1, AsideFacts
      <4>4. i < n
        BY <2>2, <4>1, <4>2
      <4>5. vstack[i].depth < vstack[n].depth
        BY <4>1, <4>4, OrderFacts
      <4> QED BY <1>2, <4>3, <4>5
    <3>3. vstack' \in Seq(Aside)
      BY <3>1, InForce DEF HandlersStay
    <3> QED BY <1>1, <3>1, <3>2, <3>3, ClosingInPlaceKeepsHandlers
  <2> QED BY <2>1, <2>2
<1> QED BY <1>1, <1>3, ClosingForgets, ClosingKeepsTables DEF IInv, Typing

-----------------------------------------------------------------------------
(* The steps that open and close nothing.                                  *)

LEMMA StayingKeeps ==
  ASSUME IInv, depth' = depth, scopes' = scopes, bmap' = bmap, bstack' = bstack, HandlersStay
  PROVE  IInv'
<1>1. visitor' = visitor /\ vstack' = vstack /\ flags' = flags /\ makeField' = makeField
  BY DEF HandlersStay
<1>2. Typing' /\ NoTableAnywhere' /\ TablesKept'
  BY <1>1 DEF IInv, Typing, NoTableAnywhere, TablesKept
<1>3. HandlersKept'
  BY <1>1 DEF IInv, HandlersKept, HandlerInForce, AsideIsOuter, AsideInOrder, AsideIsAll,
               TopFirst, Wants
<1> QED BY <1>2, <1>3 DEF IInv

(* The next feed takes the flags anew: they are what they were.            *)
LEMMA NextFeedStays ==
  ASSUME IInv, NextFeed, visitor' = visitor, vstack' = vstack, flags' = flags
  PROVE  HandlersStay
BY InForce DEF NextFeed, HandlersStay, Wants

LEMMA ValueKeeps ==
  ASSUME IInv,
         \/ TooDeep
         \/ \E id \in Ids : SkipSequence(id)
         \/ \E f \in Arriving : SkipField(f)
         \/ \E f \in Arriving : \E j \in 0 .. Len(f.data) : Mapped(f, j) \/ Visit(f, j)
         \/ \E j \in 0 .. Len(cur.data) : ResumeMapped(j) \/ ResumeVisit(j)
  PROVE  IInv'
<1>1. CASE \/ TooDeep
           \/ \E id \in Ids : SkipSequence(id)
           \/ \E f \in Arriving : SkipField(f)
           \/ \E f \in Arriving : \E j \in 0 .. Len(f.data) : Mapped(f, j) \/ Visit(f, j)
  <2>1. /\ depth' = depth /\ scopes' = scopes /\ bmap' = bmap /\ bstack' = bstack
        /\ HandlersStay
    BY <1>1 DEF TooDeep, SkipSequence, SkipField, Mapped, Visit, routing, HandlersStay
  <2> QED BY <2>1, StayingKeeps
<1>2. CASE \E j \in 0 .. Len(cur.data) : ResumeMapped(j) \/ ResumeVisit(j)
  <2>1. /\ depth' = depth /\ scopes' = scopes /\ bmap' = bmap /\ bstack' = bstack
        /\ visitor' = visitor /\ vstack' = vstack /\ flags' = flags /\ NextFeed
    BY <1>2 DEF ResumeMapped, ResumeVisit
  <2> QED BY <2>1, NextFeedStays, StayingKeeps
<1> QED BY <1>1, <1>2

(* The first scope is the decoder's own again, whatever was open.          *)
LEMMA StartKeeps ==
  ASSUME depth' = 0, bmap' = Root, bstack' = <<>>, visitor' = Top, vstack' = <<>>,
         flags' = Top, makeField' = Wants(Top, "on_field"),
         scopes' \in Seq(ScopeSet), Len(scopes') = 1,
         scopes'[1].table = Root, scopes'[1].who = Top
  PROVE  IInv'
<1>1. Typing'
  <2>1. Root \in DOMAIN T \cup {"none"} BY TableAssumption
  <2> QED BY <2>1, EmptySeq, DepthAssumption DEF Typing
<1>2. NoTableAnywhere' /\ TablesKept'
  <2>1. <<>> = [k \in 1 .. 0 |-> scopes'[k].table]
    OBVIOUS
  <2> QED BY <2>1 DEF NoTableAnywhere, TablesKept
<1>3. HandlersKept'
  <2>1. Len(vstack') = 0
    OBVIOUS
  <2> QED BY <2>1 DEF HandlersKept, HandlerInForce, AsideIsOuter, AsideInOrder, AsideIsAll,
                       TopFirst, Wants
<1> QED BY <1>1, <1>2, <1>3 DEF IInv

LEMMA ResetKeeps ==
  ASSUME IInv, Reset
  PROVE  IInv'
<1>1. scopes \in Seq(ScopeSet) /\ Len(scopes) = depth + 1 /\ depth \in Nat
      /\ scopes[1].table = Root
  BY HereFacts DEF IInv, Typing, TablesKept
<1>2. scopes' = SubSeq(scopes, 1, 1)
  BY DEF Reset
<1>3. scopes' \in Seq(ScopeSet) /\ Len(scopes') = 1 /\ scopes'[1] = scopes[1]
  <2>1. scopes[1] \in ScopeSet
    BY <1>1, ElementOfSeq
  <2>2. \A i \in 1 .. 1 : scopes[i] \in ScopeSet
    BY <2>1
  <2>3. /\ SubSeq(scopes, 1, 1) \in Seq(ScopeSet)
        /\ Len(SubSeq(scopes, 1, 1)) = IF 1 <= 1 THEN 1 - 1 + 1 ELSE 0
        /\ \A i \in 1 .. 1 - 1 + 1 : SubSeq(scopes, 1, 1)[i] = scopes[1 + i - 1]
    BY <2>2, SubSeqProperties
  <2> QED BY <1>2, <2>3
<1>4. scopes[1].who = Top /\ Top = IF vstack = <<>> THEN visitor ELSE vstack[1].who
  <2>1. CASE vstack = <<>>
    <3>1. \A k \in 1 .. depth + 1 : scopes[k].who = Top BY <2>1, TopFacts
    <3>2. 1 \in 1 .. depth + 1 /\ depth + 1 \in 1 .. depth + 1 BY <1>1
    <3>3. scopes[1].who = Top /\ scopes[depth + 1].who = Top BY <3>1, <3>2
    <3> QED BY <2>1, <3>3, InForce
  <2>2. CASE vstack # <<>>
    <3>1. Len(vstack) # 0 /\ 1 \in 1 .. Len(vstack) BY <2>2, TopFacts, InForce
    <3>2. \A k \in 1 .. vstack[1].depth + 1 : scopes[k].who = Top BY <3>1, TopFacts
    <3>3. vstack[1].depth \in 0 .. depth - 1 /\ vstack[1].who = scopes[vstack[1].depth + 1].who
      BY <3>1, AsideFacts
    <3>4. 1 \in 1 .. vstack[1].depth + 1
          /\ vstack[1].depth + 1 \in 1 .. vstack[1].depth + 1
      BY <3>3
    <3>5. scopes[1].who = Top /\ scopes[vstack[1].depth + 1].who = Top
      BY <3>2, <3>4
    <3> QED BY <2>2, <3>3, <3>5
  <2> QED BY <2>1, <2>2
<1>5. Root = IF bstack = <<>> THEN bmap ELSE bstack[1]
  <2>1. /\ bmap = scopes[depth + 1].table
        /\ bstack = IF Root = "none" THEN <<>> ELSE [k \in 1 .. depth |-> scopes[k].table]
        /\ Root = "none" => \A k \in 1 .. depth + 1 : scopes[k].table = "none"
    BY DEF IInv, TablesKept, NoTableAnywhere
  <2>2. CASE Root = "none"
    BY <1>1, <2>1, <2>2
  <2>3. CASE Root # "none" /\ depth = 0
    BY <1>1, <2>1, <2>3
  <2>4. CASE Root # "none" /\ depth # 0
    <3>1. 1 \in 1 .. depth BY <1>1, <2>4
    <3>2. bstack[1] = Root /\ DOMAIN bstack = 1 .. depth BY <1>1, <2>1, <2>4, <3>1
    <3>3. bstack # <<>>
      <4> SUFFICES ASSUME bstack = <<>> PROVE FALSE
        OBVIOUS
      <4>1. DOMAIN <<>> = 1 .. 0
        OBVIOUS
      <4>2. 1 .. depth = 1 .. 0
        BY <3>2, <4>1
      <4> QED BY <3>1, <4>2
    <3> QED BY <3>2, <3>3
  <2> QED BY <2>2, <2>3, <2>4
<1>6. /\ depth' = 0 /\ bstack' = <<>> /\ vstack' = <<>> /\ bmap' = Root
      /\ visitor' = Top /\ flags' = Top /\ makeField' = Wants(Top, "on_field")
  BY <1>4, <1>5 DEF Reset, TakeOver
<1> QED BY <1>1, <1>3, <1>4, <1>6, StartKeeps

-----------------------------------------------------------------------------
LEMMA InitIInv == Init => IInv
<1> SUFFICES ASSUME Init PROVE IInv
  OBVIOUS
<1> DEFINE first == Scope(Root, Top, "decoder", <<>>)
<1>1. /\ depth = 0 /\ bmap = Root /\ bstack = <<>> /\ visitor = Top /\ vstack = <<>>
      /\ flags = Top /\ makeField = Wants(Top, "on_field") /\ scopes = <<first>>
  BY DEF Init
<1>2. first \in ScopeSet /\ first.table = Root /\ first.who = Top
  <2>1. Root \in DOMAIN T \cup {"none"} /\ Top \in Listeners
    BY TableAssumption, HandlerAssumption DEF Listeners
  <2>2. <<>> \in Seq(Ids)
    BY EmptySeq
  <2> QED BY <2>1, <2>2 DEF Scope, ScopeSet
<1> HIDE DEF first
<1>3. scopes \in Seq(ScopeSet) /\ Len(scopes) = 1 /\ scopes[1] = first
  BY <1>1, <1>2
<1>4. Typing
  <2>1. Root \in DOMAIN T \cup {"none"} BY TableAssumption
  <2> QED BY <1>1, <1>3, <2>1, EmptySeq, DepthAssumption DEF Typing
<1>5. NoTableAnywhere /\ TablesKept
  <2>1. <<>> = [k \in 1 .. 0 |-> scopes[k].table]
    OBVIOUS
  <2> QED BY <1>1, <1>2, <1>3, <2>1 DEF NoTableAnywhere, TablesKept
<1>6. HandlersKept
  <2>1. Len(vstack) = 0
    BY <1>1
  <2> QED BY <1>1, <1>2, <1>3, <2>1 DEF HandlersKept, HandlerInForce, AsideIsOuter,
                                     AsideInOrder, AsideIsAll, TopFirst
<1> QED BY <1>4, <1>5, <1>6 DEF IInv

LEMMA NextIInv == IInv /\ [Next]_vars => IInv'
<1> SUFFICES ASSUME IInv, [Next]_vars PROVE IInv'
  OBVIOUS
<1>1. CASE EndOfBoundScope
  BY <1>1, EndOfBoundScopeKeeps
<1>2. CASE EndOfHandlerScope
  BY <1>2, EndOfHandlerScopeKeeps
<1>3. CASE Reset
  BY <1>3, ResetKeeps
<1>4. CASE \E id \in Ids : Descend(id)
  BY <1>4, DescendKeeps
<1>5. CASE \E id \in Ids : OpenToHandler(id)
  BY <1>5, OpenToHandlerKeeps
<1>6. CASE \/ TooDeep
           \/ \E id \in Ids : SkipSequence(id)
           \/ \E f \in Arriving : SkipField(f)
           \/ \E f \in Arriving : \E j \in 0 .. Len(f.data) : Mapped(f, j) \/ Visit(f, j)
           \/ \E j \in 0 .. Len(cur.data) : ResumeMapped(j) \/ ResumeVisit(j)
  BY <1>6, ValueKeeps
<1>7. CASE UNCHANGED vars
  <2>1. /\ depth' = depth /\ scopes' = scopes /\ bmap' = bmap /\ bstack' = bstack
        /\ HandlersStay
    BY <1>7 DEF vars, routing, HandlersStay
  <2> QED BY <2>1, StayingKeeps
<1> QED BY <1>1, <1>2, <1>3, <1>4, <1>5, <1>6, <1>7 DEF Next

(***************************************************************************)
(* The table in force and the tables to go back to are those of the open   *)
(* scopes, for any schema, nested or recursive, and any handlers: where a  *)
(* handler opens a scope inside a table, and a table inside a handler's,   *)
(* every end pops what its own start pushed.                               *)
(***************************************************************************)
THEOREM TablesAgree == Spec => []TablesMirrorScopes
<1>1. IInv => TablesMirrorScopes
  BY HereFacts DEF IInv, Typing, TablesKept, TablesMirrorScopes
<1> QED BY <1>1, InitIInv, NextIInv, PTL DEF Spec

(***************************************************************************)
(* The handler in force is the one the innermost open scope belongs to,    *)
(* the flags and the walk's copy are that handler's, and every handler to  *)
(* come back is on its stack at the depth where it takes over again: for   *)
(* any handlers, whatever they answer.                                     *)
(***************************************************************************)
THEOREM HandlersAgree == Spec => []HandlersMirrorScopes
<1>1. IInv => HandlersMirrorScopes
  <2> SUFFICES ASSUME IInv PROVE HandlersMirrorScopes
    OBVIOUS
  <2>1. Here = scopes[depth + 1] /\ Len(scopes) = depth + 1 /\ depth \in Nat
    BY HereFacts DEF IInv, Typing
  <2>2. Len(vstack) <= depth
    <3> DEFINE n == Len(vstack)
    <3>1. CASE n = 0
      BY <2>1, <3>1
    <3>2. CASE n # 0
      <4>1. n \in Nat /\ n \in 1 .. n
        BY <3>2, InForce
      <4>2. vstack[n].depth \in 0 .. depth - 1 /\ vstack[n].depth >= n - 1
        BY <4>1, AsideFacts
      <4> QED BY <2>1, <4>1, <4>2
    <3> QED BY <3>1, <3>2
  <2>3. ASSUME NEW k \in HandedOver
        PROVE  \E i \in DOMAIN vstack :
                 vstack[i] = [who |-> scopes[k - 1].who, depth |-> k - 2]
    <3>1. k \in 2 .. depth + 1 /\ scopes[k].who # scopes[k - 1].who
      BY <2>1 DEF HandedOver
    <3>2. PICK i \in 1 .. Len(vstack) : vstack[i].depth = k - 2
      BY <3>1, SwitchFacts
    <3>3. vstack[i] \in Aside /\ vstack[i].who = scopes[vstack[i].depth + 1].who
      BY AsideFacts
    <3>4. vstack[i].who = scopes[k - 1].who
      <4>1. (k - 2) + 1 = k - 1 BY <3>1
      <4> QED BY <3>2, <3>3, <4>1
    <3>5. vstack[i] = [who |-> scopes[k - 1].who, depth |-> k - 2]
      BY <3>2, <3>3, <3>4 DEF Aside
    <3>6. i \in DOMAIN vstack
      BY InForce, LenProperties
    <3> QED BY <3>5, <3>6
  <2> QED BY <2>1, <2>2, <2>3, InForce DEF HandlersMirrorScopes
<1> QED BY <1>1, InitIInv, NextIInv, PTL DEF Spec

-----------------------------------------------------------------------------
(* Who is told.  A scope without a table was opened by a handler, which is *)
(* therefore there; one with a table was opened by it.                     *)
Heard ==
  \A k \in 2 .. depth + 1 :
    IF scopes[k].table = "none"
    THEN scopes[k].by # "table" /\ scopes[k].who # "nobody"
    ELSE scopes[k].by = "table"

(* A suspended value is still routed as its header was.                    *)
RouteKept ==
  resume => IF resumeEntry # <<>> THEN Names(bmap, cur.id)
            ELSE ~Names(bmap, cur.id) /\ ~Closed(bmap) /\ visitor # "nobody"

Told == Heard /\ RouteKept /\ said = due

LEMMA InnermostFacts ==
  ASSUME IInv
  PROVE  /\ Here.table = bmap /\ Here.who = visitor /\ flags = visitor
         /\ makeField = Wants(visitor, "on_field")
BY HereFacts, InForce DEF IInv, TablesKept

LEMMA OpeningKeepsHeard ==
  ASSUME IInv, Heard, NEW new \in ScopeSet, Opens(new),
         IF new.table = "none" THEN new.by # "table" /\ new.who # "nobody"
                               ELSE new.by = "table"
  PROVE  Heard'
<1>1. /\ depth \in Nat /\ depth' = depth + 1
      /\ \A k \in 1 .. depth + 1 : scopes'[k] = scopes[k]
      /\ scopes'[depth + 2] = new
  BY OpeningExtends, HereFacts DEF IInv, Opens
<1> SUFFICES ASSUME NEW k \in 2 .. depth + 2
             PROVE  IF scopes'[k].table = "none"
                    THEN scopes'[k].by # "table" /\ scopes'[k].who # "nobody"
                    ELSE scopes'[k].by = "table"
  BY <1>1 DEF Heard
<1>2. CASE k = depth + 2
  BY <1>1, <1>2
<1>3. CASE k \in 2 .. depth + 1
  BY <1>1, <1>3 DEF Heard
<1> QED BY <1>1, <1>2, <1>3

LEMMA ClosingKeepsHeard ==
  ASSUME IInv, Heard, Closes
  PROVE  Heard'
<1>1. /\ depth \in Nat /\ depth' = depth - 1
      /\ \A k \in 1 .. depth : scopes'[k] = scopes[k]
  BY ClosingForgets
<1> SUFFICES ASSUME NEW k \in 2 .. depth
             PROVE  IF scopes'[k].table = "none"
                    THEN scopes'[k].by # "table" /\ scopes'[k].who # "nobody"
                    ELSE scopes'[k].by = "table"
  BY <1>1 DEF Heard
<1> QED BY <1>1 DEF Heard

LEMMA StayingKeepsHeard ==
  ASSUME Heard, depth' = depth, scopes' = scopes
  PROVE  Heard'
BY DEF Heard

(* Whoever opened the innermost scope hears it close.                      *)
LEMMA EndsTold ==
  ASSUME IInv, Told, EndOfBoundScope \/ EndOfHandlerScope
  PROVE  Told'
<1>1. Closes /\ ~resume /\ resume' = resume /\ due' = DueEnd(Here)
  BY DEF EndOfBoundScope, EndOfHandlerScope, CloseScope, Closes, Walking, flight
<1>2. Heard'
  BY <1>1, ClosingKeepsHeard DEF Told
<1>3. RouteKept'
  BY <1>1 DEF RouteKept
<1>4. /\ depth \in Nat /\ depth > 0 /\ depth + 1 \in 2 .. depth + 1
  BY <1>1, ClosingForgets
<1>5. Here = scopes[depth + 1] /\ Here.table = bmap /\ Here.who = visitor
  BY HereFacts, InnermostFacts DEF IInv
<1>6. IF bmap = "none" THEN Here.by # "table" /\ visitor # "nobody" ELSE Here.by = "table"
  BY <1>4, <1>5 DEF Told, Heard
<1>7. bstack = <<>> => bmap = "none"
  <2> SUFFICES ASSUME bstack = <<>>, bmap # "none" PROVE FALSE
    OBVIOUS
  <2>1. Root = "none"
    <3> SUFFICES ASSUME Root # "none" PROVE FALSE
      OBVIOUS
    <3>1. bstack = [k \in 1 .. depth |-> scopes[k].table]
      BY DEF IInv, TablesKept
    <3>2. DOMAIN bstack = 1 .. depth
      BY <3>1
    <3>3. DOMAIN <<>> = 1 .. 0
      OBVIOUS
    <3>4. 1 .. depth = 1 .. 0
      BY <3>2, <3>3
    <3> QED BY <1>4, <3>4
  <2>2. \A k \in 1 .. depth + 1 : scopes[k].table = "none"
    BY <2>1 DEF IInv, NoTableAnywhere
  <2>3. depth + 1 \in 1 .. depth + 1
    BY <1>4
  <2> QED BY <1>5, <2>2, <2>3
<1>8. CASE EndOfBoundScope
  <2>1. said' = <<>> /\ bmap # "none"
    BY <1>8 DEF EndOfBoundScope
  <2> QED BY <1>1, <1>2, <1>3, <1>6, <2>1 DEF DueEnd, Told
<1>9. CASE EndOfHandlerScope
  <2>1. bmap = "none"
    BY <1>7, <1>9 DEF EndOfHandlerScope
  <2>2. said' = <<Call(visitor, "on_sequence_end", 0, <<>>)>>
    BY <1>6, <1>9, <2>1 DEF EndOfHandlerScope
  <2>3. due' = <<Call(visitor, "on_sequence_end", 0, <<>>)>>
    BY <1>1, <1>5, <1>6, <2>1 DEF DueEnd
  <2> QED BY <1>2, <1>3, <2>2, <2>3 DEF Told
<1> QED BY <1>8, <1>9

LEMMA DescendTold ==
  ASSUME IInv, Told, NEW id \in Ids, Descend(id)
  PROVE  Told'
<1> DEFINE child == T[bmap].rows[id].child
           new == Scope(child, Here.who, "table", Append(Here.path, id))
<1>1. /\ Typed(bmap, id, "sequence") /\ ~resume /\ resume' = resume
      /\ Opens(new) /\ said' = <<>> /\ due' = DueBegin(Here, id)
  BY DEF Descend, StartAt, Walking, flight, Opens
<1>2. bmap \in DOMAIN T /\ id \in DOMAIN T[bmap].rows
      /\ Tag(T[bmap].rows[id].kind) = "sequence"
  BY <1>1 DEF IInv, Typing, Typed, Names
<1>3. child \in DOMAIN T
  BY <1>2, ChildIsTable
<1>4. child # "none"
  BY <1>3, TableAssumption
<1>5. new \in ScopeSet
  <2>1. Here.who \in Listeners /\ Append(Here.path, id) \in Seq(Ids)
    BY HereFacts, AppendProperties DEF IInv, ScopeSet
  <2> QED BY <1>3, <2>1 DEF Scope, ScopeSet
<1>6. new.table = child /\ new.by = "table"
  BY DEF Scope
<1> HIDE DEF new, child
<1>7. Heard'
  BY <1>1, <1>4, <1>5, <1>6, OpeningKeepsHeard DEF Told
<1>8. due' = <<>>
  BY <1>1, InnermostFacts DEF DueBegin
<1> QED BY <1>1, <1>7, <1>8 DEF Told, RouteKept

LEMMA OpenToHandlerTold ==
  ASSUME IInv, Told, NEW id \in Ids, OpenToHandler(id)
  PROVE  Told'
<1> DEFINE answer == Replies(visitor, id)
           heir == IF answer \in Handlers THEN answer ELSE visitor
           new == Scope("none", heir, "handler", <<>>)
<1>1. Here.who = visitor /\ Here.table = bmap /\ flags = visitor /\ visitor \in Listeners
  BY InnermostFacts, InForce
<1>2. /\ ~Typed(bmap, id, "sequence") /\ ~Closed(bmap) /\ visitor # "nobody"
      /\ ~resume /\ resume' = resume /\ Opens(new) /\ due' = DueBegin(Here, id)
      /\ said' = IF Wants(flags, "on_sequence_begin")
                 THEN <<Call(visitor, "on_sequence_begin", id, <<>>)>> ELSE <<>>
  BY <1>1 DEF OpenToHandler, StartAt, Walking, flight, Opens
<1>3. heir \in Listeners /\ heir # "nobody"
  BY <1>1, <1>2, HandlerAssumption DEF Listeners
<1>4. new \in ScopeSet /\ new.table = "none" /\ new.by = "handler" /\ new.who = heir
  <2>1. <<>> \in Seq(Ids) BY EmptySeq
  <2> QED BY <1>3, <2>1 DEF Scope, ScopeSet
<1> HIDE DEF new, heir, answer
<1>5. Heard'
  BY <1>2, <1>3, <1>4, OpeningKeepsHeard DEF Told
<1>6. said' = due'
  BY <1>1, <1>2 DEF DueBegin
<1> QED BY <1>2, <1>5, <1>6 DEF Told, RouteKept

LEMMA SkipsTold ==
  ASSUME IInv, Told,
         \/ TooDeep
         \/ \E id \in Ids : SkipSequence(id)
         \/ \E f \in Arriving : SkipField(f)
  PROVE  Told'
<1>1. depth' = depth /\ scopes' = scopes /\ ~resume /\ resume' = resume
  BY DEF TooDeep, SkipSequence, SkipField, StartAt, Walking, flight
<1>2. Heard' /\ RouteKept'
  BY <1>1, StayingKeepsHeard DEF Told, RouteKept
<1>3. Here.who = visitor /\ Here.table = bmap /\ flags = visitor
      /\ makeField = Wants(visitor, "on_field")
  BY InnermostFacts
<1>4. CASE TooDeep
  BY <1>2, <1>4 DEF TooDeep, Told
<1>5. ASSUME NEW id \in Ids, SkipSequence(id) PROVE said' = due'
  <2>1. /\ ~Typed(bmap, id, "sequence") /\ due' = DueBegin(Here, id)
        /\ said' = IF ~Closed(bmap) /\ Wants(visitor, "on_sequence_begin")
                   THEN <<Call(visitor, "on_sequence_begin", id, <<>>)>> ELSE <<>>
    BY <1>3, <1>5 DEF SkipSequence
  <2> QED BY <1>3, <2>1 DEF DueBegin
<1>6. ASSUME NEW f \in Arriving, SkipField(f) PROVE said' = due'
  <2>1. /\ ~Typed(bmap, f.id, f.tag) /\ (Skipped(f) \/ Refuses(f))
        /\ said' = FieldCall(f) /\ due' = DueValue(Here, f, FALSE, FALSE)
    BY <1>6 DEF SkipField
  <2>2. CASE Skipped(f)
    <3>1. said' = <<>>
      BY <2>1, <2>2 DEF FieldCall, Asks
    <3>2. Names(bmap, f.id) \/ Closed(bmap) \/ visitor = "nobody"
      BY <2>2 DEF Skipped
    <3> QED BY <1>3, <2>1, <3>1, <3>2 DEF DueValue
  <2>3. CASE ~Skipped(f) /\ Refuses(f)
    <3>1. /\ ~Names(bmap, f.id) /\ ~Closed(bmap) /\ visitor # "nobody"
      BY <2>1, <2>3 DEF Skipped
    <3>2. makeField /\ f.id \in Declines[visitor]
      BY <2>3 DEF Refuses, Asks
    <3>3. said' = <<Call(visitor, "on_field", f.id, <<>>)>>
      BY <2>1, <2>3, <3>2 DEF FieldCall, Asks
    <3>4. DueHeader(Here, f) = <<Call(visitor, "on_field", f.id, <<>>)>>
      BY <1>3, <3>2 DEF DueHeader
    <3>5. due' = DueHeader(Here, f) \o <<>>
      BY <1>3, <2>1, <3>1 DEF DueValue
    <3> QED BY <3>3, <3>4, <3>5
  <2> QED BY <2>1, <2>2, <2>3
<1> QED BY <1>2, <1>4, <1>5, <1>6 DEF Told

LEMMA MappedTold ==
  ASSUME IInv, Told, NEW f \in Arriving, NEW j \in 0 .. Len(f.data), Mapped(f, j)
  PROVE  Told'
<1> DEFINE e == <<bmap, f.id>>
<1>1. depth' = depth /\ scopes' = scopes /\ bmap' = bmap
  BY DEF Mapped, routing
<1>2. Names(bmap, f.id)
  BY DEF Mapped, Typed
<1>3. said' = <<>> /\ (resume' => resumeEntry' = e /\ cur' = f)
  BY DEF Mapped, MappedField, Settled
<1>4. e # <<>>
  OBVIOUS
<1> HIDE DEF e
<1>5. RouteKept'
  BY <1>1, <1>2, <1>3, <1>4 DEF RouteKept, Names
<1>6. due' = <<>>
  BY <1>2, InnermostFacts DEF Mapped, DueValue
<1> QED BY <1>1, <1>3, <1>5, <1>6, StayingKeepsHeard DEF Told

LEMMA VisitTold ==
  ASSUME IInv, Told, NEW f \in Arriving, NEW j \in 0 .. Len(f.data), Visit(f, j)
  PROVE  Told'
<1> DEFINE outcome == VisitOutcome(f, j, Wants(flags, "on_schema_bound"))
           value == IF outcome = "handed" THEN ValueCall(f) ELSE <<>>
<1>1. Here.who = visitor /\ Here.table = bmap /\ flags = visitor
      /\ makeField = Wants(visitor, "on_field")
  BY InnermostFacts
<1>2. /\ verdict = "fine" /\ ~Typed(bmap, f.id, f.tag) /\ ~Skipped(f) /\ ~Refuses(f)
      /\ said' = FieldCall(f) \o BoundCall(f) \o value
      /\ Settled(outcome, <<>>, f)
      /\ due' = DueValue(Here, f, FALSE, ~resume' /\ verdict' = "fine")
      /\ depth' = depth /\ scopes' = scopes /\ bmap' = bmap /\ visitor' = visitor
  BY DEF Visit, Walking, routing
<1>3. outcome \in {"INVALID", "LIMIT", "INCOMPLETE", "handed"}
  BY DEF VisitOutcome
<1> HIDE DEF outcome
<1>4. ~Names(bmap, f.id) /\ ~Closed(bmap) /\ visitor # "nobody"
  BY <1>2 DEF Skipped
<1>5. (~resume' /\ verdict' = "fine") <=> outcome = "handed"
  BY <1>2, <1>3 DEF Settled
<1>6. RouteKept'
  BY <1>2, <1>4 DEF RouteKept, Settled, Names, Closed
<1>7. DueHeader(Here, f) = FieldCall(f) \o BoundCall(f)
  <2>1. ~(makeField /\ f.id \in Declines[visitor])
    BY <1>2 DEF Refuses, Asks
  <2>2. FieldCall(f) = IF Wants(visitor, "on_field")
                       THEN <<Call(visitor, "on_field", f.id, <<>>)>> ELSE <<>>
    BY <1>1, <1>2 DEF FieldCall, Asks
  <2>3. BoundCall(f) = IF Wants(visitor, "on_schema_bound") /\ HasLength(f)
                       THEN <<Call(visitor, "on_schema_bound", f.id, <<>>)>> ELSE <<>>
    BY <1>1 DEF BoundCall
  <2>4. CASE Wants(visitor, "on_field")
    <3>1. f.id \notin Declines[visitor]
      BY <1>1, <2>1, <2>4
    <3> QED BY <1>1, <2>2, <2>3, <2>4, <3>1 DEF DueHeader
  <2>5. CASE ~Wants(visitor, "on_field")
    BY <1>1, <2>2, <2>3, <2>5 DEF DueHeader
  <2> QED BY <2>4, <2>5
<1>8. due' = DueHeader(Here, f) \o value
  BY <1>1, <1>2, <1>4, <1>5 DEF DueValue, ValueCall
<1>9. said' = due'
  BY <1>2, <1>7, <1>8
<1> QED BY <1>2, <1>6, <1>9, StayingKeepsHeard DEF Told

LEMMA ResumesTold ==
  ASSUME IInv, Told, NEW j \in 0 .. Len(cur.data), ResumeMapped(j) \/ ResumeVisit(j)
  PROVE  Told'
<1>1. /\ depth' = depth /\ scopes' = scopes /\ bmap' = bmap /\ visitor' = visitor
      /\ resume /\ due' = DueValue(Here, cur, TRUE, ~resume')
  BY DEF ResumeMapped, ResumeVisit
<1>2. Here.who = visitor /\ Here.table = bmap
  BY InnermostFacts
<1>3. Heard'
  BY <1>1, StayingKeepsHeard DEF Told
<1>4. CASE ResumeMapped(j)
  <2>1. resumeEntry # <<>> /\ said' = <<>>
        /\ (resume' => resumeEntry' = resumeEntry /\ cur' = cur)
    BY <1>4 DEF ResumeMapped, MappedField, Settled
  <2>2. Names(bmap, cur.id)
    BY <1>1, <2>1 DEF Told, RouteKept
  <2>3. RouteKept'
    BY <1>1, <2>1, <2>2 DEF RouteKept, Names
  <2>4. due' = <<>>
    BY <1>1, <1>2, <2>2 DEF DueValue
  <2> QED BY <1>3, <2>1, <2>3, <2>4 DEF Told
<1>5. CASE ResumeVisit(j)
  <2>1. resumeEntry = <<>> /\ resumeEntry' = resumeEntry /\ (resume' => cur' = cur)
        /\ said' = IF resume' THEN <<>> ELSE ValueCall(cur)
    BY <1>5 DEF ResumeVisit
  <2>2. ~Names(bmap, cur.id) /\ ~Closed(bmap) /\ visitor # "nobody"
    BY <1>1, <2>1 DEF Told, RouteKept
  <2>3. RouteKept'
    BY <1>1, <2>1, <2>2 DEF RouteKept, Names, Closed
  <2>4. due' = <<>> \o (IF ~resume' THEN ValueCall(cur) ELSE <<>>)
    BY <1>1, <1>2, <2>2 DEF DueValue, ValueCall
  <2>5. said' = due'
    BY <2>1, <2>4 DEF ValueCall
  <2> QED BY <1>3, <2>3, <2>5 DEF Told
<1> QED BY <1>4, <1>5

LEMMA NextTold == IInv /\ Told /\ [Next]_vars => Told'
<1> SUFFICES ASSUME IInv, Told, [Next]_vars PROVE Told'
  OBVIOUS
<1>1. CASE EndOfBoundScope \/ EndOfHandlerScope
  BY <1>1, EndsTold
<1>2. CASE Reset
  <2>1. depth' = 0 /\ ~resume' /\ said' = <<>> /\ due' = <<>>
    BY <1>2 DEF Reset
  <2> QED BY <2>1 DEF Told, Heard, RouteKept
<1>3. CASE \E id \in Ids : Descend(id)
  BY <1>3, DescendTold
<1>4. CASE \E id \in Ids : OpenToHandler(id)
  BY <1>4, OpenToHandlerTold
<1>5. CASE \/ TooDeep
           \/ \E id \in Ids : SkipSequence(id)
           \/ \E f \in Arriving : SkipField(f)
  BY <1>5, SkipsTold
<1>6. CASE \E f \in Arriving : \E j \in 0 .. Len(f.data) : Mapped(f, j) \/ Visit(f, j)
  BY <1>6, MappedTold, VisitTold
<1>7. CASE \E j \in 0 .. Len(cur.data) : ResumeMapped(j) \/ ResumeVisit(j)
  BY <1>7, ResumesTold
<1>8. CASE UNCHANGED vars
  BY <1>8 DEF vars, routing, flight, Told, Heard, RouteKept, Names, Closed
<1> QED BY <1>1, <1>2, <1>3, <1>4, <1>5, <1>6, <1>7, <1>8 DEF Next

(***************************************************************************)
(* Every hook call is the one owed: it goes to the handler whose scope it  *)
(* is about, by that handler's own overrides; a scope the table opened is  *)
(* heard from neither end, one a handler opened from both; a value cut by  *)
(* the end of a feed is handed over once, by the route its header took.    *)
(***************************************************************************)
THEOREM CallsAsOwed == Spec => []HeardByItsOwner
<1>1. Init => Told
  <2> SUFFICES ASSUME Init PROVE Told
    OBVIOUS
  <2>1. depth = 0 /\ ~resume /\ said = <<>> /\ due = <<>>
    BY DEF Init
  <2> QED BY <2>1 DEF Told, Heard, RouteKept
<1>2. Told => HeardByItsOwner
  BY DEF Told, HeardByItsOwner
<1> QED BY <1>1, <1>2, InitIInv, NextIInv, NextTold, PTL DEF Spec

-----------------------------------------------------------------------------
(* The types of what is in flight.                                         *)
FlightTyped ==
  /\ resume \in BOOLEAN /\ cur \in Fields \cup {NoField}
  /\ verdict \in {"fine", "INVALID", "LIMIT"}

LEMMA SettledTyped ==
  ASSUME FlightTyped, NEW outcome, NEW e, NEW f \in Fields \cup {NoField}, Settled(outcome, e, f)
  PROVE  FlightTyped'
<1>1. resume' \in BOOLEAN
  BY DEF Settled
<1>2. cur' \in Fields \cup {NoField}
  BY DEF Settled
<1>3. verdict' \in {"fine", "INVALID", "LIMIT"}
  BY DEF Settled, FlightTyped
<1> QED BY <1>1, <1>2, <1>3 DEF FlightTyped

LEMMA NextFlightTyped == FlightTyped /\ [Next]_vars => FlightTyped'
<1> SUFFICES ASSUME FlightTyped, [Next]_vars PROVE FlightTyped'
  OBVIOUS
<1>1. CASE UNCHANGED flight
  BY <1>1 DEF flight, FlightTyped
<1>2. CASE EndOfBoundScope \/ EndOfHandlerScope
  BY <1>1, <1>2 DEF EndOfBoundScope, EndOfHandlerScope, CloseScope
<1>3. CASE TooDeep
  BY <1>3 DEF TooDeep, FlightTyped
<1>4. CASE Reset
  BY <1>4 DEF Reset, FlightTyped
<1>5. CASE \E id \in Ids : Descend(id) \/ OpenToHandler(id) \/ SkipSequence(id)
  BY <1>1, <1>5 DEF Descend, OpenToHandler, SkipSequence
<1>6. CASE \E f \in Arriving : \/ SkipField(f)
                               \/ \E j \in 0 .. Len(f.data) : Mapped(f, j) \/ Visit(f, j)
  <2>1. PICK f \in Fields : \/ SkipField(f)
                            \/ \E j \in 0 .. Len(f.data) : Mapped(f, j) \/ Visit(f, j)
    BY <1>6 DEF Arriving
  <2>2. CASE SkipField(f)
    BY <1>1, <2>2 DEF SkipField
  <2>3. CASE \E j \in 0 .. Len(f.data) : Mapped(f, j) \/ Visit(f, j)
    <3>1. \E outcome, e : Settled(outcome, e, f)
      BY <2>3 DEF Mapped, MappedField, Visit
    <3> QED BY <3>1, SettledTyped
  <2> QED BY <2>1, <2>2, <2>3
<1>7. CASE \E j \in 0 .. Len(cur.data) : ResumeMapped(j) \/ ResumeVisit(j)
  <2>1. PICK j \in 0 .. Len(cur.data) : ResumeMapped(j) \/ ResumeVisit(j)
    BY <1>7
  <2>2. CASE ResumeMapped(j)
    <3>1. \E outcome, e : Settled(outcome, e, cur)
      BY <2>2 DEF ResumeMapped, MappedField
    <3> QED BY <3>1, SettledTyped DEF FlightTyped
  <2>3. CASE ResumeVisit(j)
    <3>1. resume' \in BOOLEAN /\ cur' \in {cur, NoField} /\ verdict' = verdict
      BY <2>3 DEF ResumeVisit
    <3> QED BY <3>1 DEF FlightTyped
  <2> QED BY <2>1, <2>2, <2>3
<1>8. CASE UNCHANGED vars
  BY <1>1, <1>8 DEF vars
<1> QED BY <1>2, <1>3, <1>4, <1>5, <1>6, <1>7, <1>8 DEF Next

(* Type correctness: the table in force and those to go back to are of the *)
(* schema or none, the handlers are ones that were given, the depth stays  *)
(* within MAX_DEPTH, whatever the message nests and the handlers answer.   *)
THEOREM TypeCorrect == Spec => []TypeOK
<1>1. Init => FlightTyped
  BY DEF Init, FlightTyped
<1>2. IInv /\ FlightTyped => TypeOK
  <2> SUFFICES ASSUME IInv, FlightTyped PROVE TypeOK
    OBVIOUS
  <2>1. visitor \in Listeners /\ flags = visitor /\ makeField \in BOOLEAN
    BY InForce DEF Wants
  <2>2. vstack \in Seq([who : Listeners, depth : Nat])
    BY DEF IInv, Typing, Aside
  <2>3. depth \in 0 .. MaxDepth /\ bmap \in DOMAIN T \cup {"none"}
        /\ bstack \in Seq(DOMAIN T \cup {"none"})
    BY DEF IInv, Typing
  <2> QED BY <2>1, <2>2, <2>3 DEF FlightTyped, TypeOK, Listeners
<1> QED BY <1>1, <1>2, InitIInv, NextIInv, NextFlightTyped, PTL DEF Spec

-----------------------------------------------------------------------------
(* Paths, point by point.                                                  *)

LEMMA UnderIs ==
  ASSUME NEW p \in Seq(Nat), NEW q \in Seq(Nat)
  PROVE  /\ Len(p) \in Nat /\ Len(q) \in Nat
         /\ \A k \in 1 .. Len(p) : p[k] \in Nat
         /\ Under(p, q) <=> Len(p) <= Len(q) /\ \A k \in 1 .. Len(p) : q[k] = p[k]
         /\ Above(p, q) <=> Len(p) < Len(q) /\ \A k \in 1 .. Len(p) : q[k] = p[k]
<1>1. Len(p) \in Nat /\ Len(q) \in Nat /\ \A k \in 1 .. Len(p) : p[k] \in Nat
  BY LenProperties, ElementOfSeq
<1>2. ASSUME Len(p) <= Len(q)
      PROVE  SubSeq(q, 1, Len(p)) = p <=> \A k \in 1 .. Len(p) : q[k] = p[k]
  <2> DEFINE n == Len(p)
             s == SubSeq(q, 1, n)
  <2>1. n \in Int /\ n >= 0 /\ 1 \in Int /\ \A k \in 1 .. n : q[k] \in Nat
    BY <1>1, <1>2, ElementOfSeq
  <2>2. /\ s \in Seq(Nat) /\ Len(s) = IF 1 <= n THEN n - 1 + 1 ELSE 0
        /\ \A k \in 1 .. n - 1 + 1 : s[k] = q[1 + k - 1]
    <3> HIDE DEF n
    <3> QED BY <2>1, SubSeqProperties
  <2>3. n - 1 + 1 = n /\ \A k \in 1 .. n : 1 + k - 1 = k
    BY <2>1
  <2>4. Len(s) = n /\ \A k \in 1 .. n : s[k] = q[k]
    <3> HIDE DEF n, s
    <3> QED BY <2>1, <2>2, <2>3
  <2>5. ASSUME \A k \in 1 .. n : q[k] = p[k] PROVE s = p
    <3>1. \A k \in 1 .. Len(s) : s[k] = p[k]
      BY <2>4, <2>5
    <3> QED BY <2>2, <2>4, <3>1, SeqEqual
  <2>6. ASSUME s = p PROVE \A k \in 1 .. n : q[k] = p[k]
    BY <2>4, <2>6
  <2> QED BY <2>5, <2>6
<1> QED BY <1>1, <1>2 DEF Under, Above

(* One step down.                                                          *)
LEMMA StepDown ==
  ASSUME NEW p \in Seq(Nat), NEW i \in Nat
  PROVE  /\ Append(p, i) \in Seq(Nat) /\ Append(p, i) # <<>>
         /\ Len(Append(p, i)) = Len(p) + 1
         /\ Front(Append(p, i)) = p /\ Last(Append(p, i)) = i
         /\ Append(p, i)[Len(p) + 1] = i
         /\ \A k \in 1 .. Len(p) : Append(p, i)[k] = p[k]
<1>1. /\ Append(p, i) \in Seq(Nat) /\ Append(p, i) # <<>>
      /\ Len(Append(p, i)) = Len(p) + 1 /\ Len(p) \in Nat
      /\ Append(p, i)[Len(p) + 1] = i
      /\ \A k \in 1 .. Len(p) : Append(p, i)[k] = p[k]
  BY AppendProperties, LenProperties
<1>2. Last(Append(p, i)) = i
  BY <1>1 DEF Last
<1> DEFINE q == Append(p, i)
<1>3. Len(q) > 0 /\ q \in Seq(Nat)
  BY <1>1
<1>4. Front(q) \in Seq(Nat) /\ Len(Front(q)) = Len(q) - 1
      /\ \A k \in 1 .. Len(q) - 1 : Front(q)[k] = q[k]
  <2> HIDE DEF q
  <2> QED BY <1>3, FrontFacts
<1>5. Len(Front(q)) = Len(p) /\ \A k \in 1 .. Len(p) : Front(q)[k] = p[k]
  BY <1>1, <1>4
<1>6. Front(q) = p
  <2> HIDE DEF q
  <2> QED BY <1>4, <1>5, SeqEqual
<1> QED BY <1>1, <1>2, <1>6

(* A path that is not empty is a step down from its front.                 *)
LEMMA StepUp ==
  ASSUME NEW q \in Seq(Nat), q # <<>>
  PROVE  /\ Front(q) \in Seq(Nat) /\ Last(q) \in Nat /\ Len(q) > 0
         /\ Len(Front(q)) = Len(q) - 1 /\ Append(Front(q), Last(q)) = q
<1>1. Len(q) \in Nat /\ Len(q) > 0
  BY EmptySeq
<1>2. /\ Front(q) \in Seq(Nat) /\ Len(Front(q)) = Len(q) - 1
      /\ \A k \in 1 .. Len(q) - 1 : Front(q)[k] = q[k]
      /\ Last(q) \in Nat /\ Last(q) = q[Len(q)]
  BY <1>1, FrontFacts
<1> DEFINE s == Append(Front(q), Last(q))
<1>3. /\ s \in Seq(Nat) /\ Len(s) = Len(Front(q)) + 1
      /\ s[Len(Front(q)) + 1] = Last(q)
      /\ \A k \in 1 .. Len(Front(q)) : s[k] = Front(q)[k]
  BY <1>2, StepDown
<1> HIDE DEF s
<1>4. Len(s) = Len(q) /\ \A k \in 1 .. Len(s) : s[k] = q[k]
  <2>1. Len(s) = Len(q) /\ Len(Front(q)) + 1 = Len(q)
    BY <1>1, <1>2, <1>3
  <2>2. s[Len(q)] = q[Len(q)]
    BY <1>2, <1>3, <2>1
  <2>3. \A k \in 1 .. Len(q) - 1 : s[k] = q[k]
    BY <1>2, <1>3
  <2>4. \A k \in 1 .. Len(q) : k = Len(q) \/ k \in 1 .. Len(q) - 1
    BY <1>1
  <2> QED BY <2>1, <2>2, <2>3, <2>4
<1>5. s = q
  BY <1>3, <1>4, SeqEqual
<1> QED BY <1>1, <1>2, <1>5 DEF s

LEMMA UnderStep ==
  ASSUME NEW p \in Seq(Nat), NEW i \in Nat, NEW u \in Seq(Nat)
  PROVE  /\ Above(u, Append(p, i)) <=> Under(u, p)
         /\ Under(Append(p, i), u) <=> Above(p, u) /\ u[Len(p) + 1] = i
         /\ Under(u, p) <=> u = p \/ Above(u, p)
         /\ Above(u, p) => Append(p, i)[Len(u) + 1] = p[Len(u) + 1]
<1> DEFINE q == Append(p, i)
<1>1. /\ q \in Seq(Nat) /\ Len(q) = Len(p) + 1 /\ q[Len(p) + 1] = i
      /\ \A k \in 1 .. Len(p) : q[k] = p[k]
  BY StepDown
<1> HIDE DEF q
<1>2. /\ Len(p) \in Nat /\ Len(u) \in Nat
      /\ Under(u, p) <=> Len(u) <= Len(p) /\ \A k \in 1 .. Len(u) : p[k] = u[k]
      /\ Above(u, p) <=> Len(u) < Len(p) /\ \A k \in 1 .. Len(u) : p[k] = u[k]
  BY UnderIs
<1>3. Above(u, q) <=> Len(u) < Len(q) /\ \A k \in 1 .. Len(u) : q[k] = u[k]
  BY <1>1, UnderIs
<1>4. Under(q, u) <=> Len(q) <= Len(u) /\ \A k \in 1 .. Len(q) : u[k] = q[k]
  BY <1>1, UnderIs
<1>5. Above(p, u) <=> Len(p) < Len(u) /\ \A k \in 1 .. Len(p) : u[k] = p[k]
  BY UnderIs
<1>6. Above(u, q) <=> Under(u, p)
  BY <1>1, <1>2, <1>3
<1>7. Under(q, u) <=> Above(p, u) /\ u[Len(p) + 1] = i
  <2>1. ASSUME Under(q, u) PROVE Above(p, u) /\ u[Len(p) + 1] = i
    <3>1. Len(p) + 1 \in 1 .. Len(q) BY <1>1, <1>2
    <3> QED BY <1>1, <1>2, <1>4, <1>5, <2>1, <3>1
  <2>2. ASSUME Above(p, u), u[Len(p) + 1] = i PROVE Under(q, u)
    <3>1. ASSUME NEW k \in 1 .. Len(q) PROVE u[k] = q[k]
      <4>1. CASE k = Len(p) + 1 BY <1>1, <2>2, <4>1
      <4>2. CASE k # Len(p) + 1
        <5>1. k \in 1 .. Len(p) BY <1>1, <1>2, <4>2
        <5> QED BY <1>1, <1>5, <2>2, <5>1
      <4> QED BY <4>1, <4>2
    <3> QED BY <1>1, <1>2, <1>4, <1>5, <2>2, <3>1
  <2> QED BY <2>1, <2>2
<1>8. Under(u, p) <=> u = p \/ Above(u, p)
  <2>1. ASSUME Len(u) = Len(p), \A k \in 1 .. Len(u) : p[k] = u[k] PROVE u = p
    <3>1. \A k \in 1 .. Len(u) : u[k] = p[k] BY <2>1
    <3> QED BY <2>1, <3>1, SeqEqual
  <2> QED BY <1>2, <2>1
<1>9. ASSUME Above(u, p) PROVE q[Len(u) + 1] = p[Len(u) + 1]
  <2>1. Len(u) + 1 \in 1 .. Len(p) BY <1>2, <1>9
  <2> QED BY <1>1, <2>1
<1> QED BY <1>6, <1>7, <1>8, <1>9 DEF q

(* Paths that lie above one path lie above one another.                    *)
LEMMA InLine ==
  ASSUME NEW p \in Seq(Nat), NEW q \in Seq(Nat), NEW l \in Seq(Nat)
  PROVE  /\ Under(p, q) /\ Under(q, l) => Under(p, l)
         /\ Under(p, q) /\ Above(q, l) => Above(p, l)
         /\ Above(p, q) /\ Under(q, l) => Above(p, l) /\ l[Len(p) + 1] = q[Len(p) + 1]
         /\ Under(p, l) /\ Under(q, l) => Under(p, q) \/ Above(q, p)
<1>1. /\ Len(p) \in Nat /\ Len(q) \in Nat /\ Len(l) \in Nat
      /\ Under(p, q) <=> Len(p) <= Len(q) /\ \A k \in 1 .. Len(p) : q[k] = p[k]
      /\ Above(p, q) <=> Len(p) < Len(q) /\ \A k \in 1 .. Len(p) : q[k] = p[k]
  BY UnderIs
<1>2. /\ Under(q, l) <=> Len(q) <= Len(l) /\ \A k \in 1 .. Len(q) : l[k] = q[k]
      /\ Above(q, l) <=> Len(q) < Len(l) /\ \A k \in 1 .. Len(q) : l[k] = q[k]
  BY UnderIs
<1>3. /\ Under(p, l) <=> Len(p) <= Len(l) /\ \A k \in 1 .. Len(p) : l[k] = p[k]
      /\ Above(p, l) <=> Len(p) < Len(l) /\ \A k \in 1 .. Len(p) : l[k] = p[k]
  BY UnderIs
<1>4. Above(q, p) <=> Len(q) < Len(p) /\ \A k \in 1 .. Len(q) : p[k] = q[k]
  BY UnderIs
<1>5. Under(p, q) /\ Under(q, l) => Under(p, l)
  BY <1>1, <1>2, <1>3
<1>6. Under(p, q) /\ Above(q, l) => Above(p, l)
  BY <1>1, <1>2, <1>3
<1>7. Above(p, q) /\ Under(q, l) => Above(p, l) /\ l[Len(p) + 1] = q[Len(p) + 1]
  BY <1>1, <1>2, <1>3
<1>8. ASSUME Under(p, l), Under(q, l) PROVE Under(p, q) \/ Above(q, p)
  <2>1. CASE Len(p) <= Len(q)
    BY <1>1, <1>2, <1>3, <1>8, <2>1
  <2>2. CASE Len(q) < Len(p)
    BY <1>1, <1>2, <1>3, <1>4, <1>8, <2>2
  <2> QED BY <1>1, <2>1, <2>2
<1> QED BY <1>5, <1>6, <1>7, <1>8

-----------------------------------------------------------------------------
(* The tree of tables.                                                     *)

LEMMA LeastOf ==
  ASSUME NEW S, S \subseteq Nat, S # {}
  PROVE  \E n \in S : \A m \in S : n <= m
<1>1. IsWellFoundedOn(OpToRel(<, Nat), Nat)
  BY NatLessThanWellFounded
<1>2. PICK n \in S : \A m \in S : <<m, n>> \notin OpToRel(<, Nat)
  BY <1>1, WFMin, Zenon
<1>3. \A m \in S : ~(m < n)
  BY <1>2 DEF OpToRel
<1> QED BY <1>3

RootScope == [path |-> <<>>, table |-> Root]

ChildScopes(s) ==
  {[path |-> Append(s.path, id), table |-> T[s.table].rows[id].child] :
     id \in {i \in DOMAIN T[s.table].rows : T[s.table].rows[i].kind = "sequence"}}

LEMMA ChildScopesTyped ==
  ASSUME NEW s \in [path : Seq(Nat), table : DOMAIN T]
  PROVE  ChildScopes(s) \subseteq [path : Seq(Nat), table : DOMAIN T]
<1> SUFFICES ASSUME NEW x \in ChildScopes(s)
             PROVE  x \in [path : Seq(Nat), table : DOMAIN T]
  OBVIOUS
<1>1. PICK id \in DOMAIN T[s.table].rows :
        /\ T[s.table].rows[id].kind = "sequence"
        /\ x = [path |-> Append(s.path, id), table |-> T[s.table].rows[id].child]
  BY DEF ChildScopes
<1>2. s.table \in DOMAIN T /\ s.path \in Seq(Nat)
  OBVIOUS
<1>3. id \in Nat
  BY <1>2, TableAssumption DEF IsTable
<1>4. Tag(T[s.table].rows[id].kind) = "sequence"
  BY <1>1 DEF Tag
<1>5. Append(s.path, id) \in Seq(Nat) /\ T[s.table].rows[id].child \in DOMAIN T
  BY <1>2, <1>3, <1>4, ChildIsTable, StepDown
<1> QED BY <1>1, <1>5

(* One level more, and the levels up to one.                               *)
Wider(X) == X \cup UNION {ChildScopes(s) : s \in X}

Levels(f, n) == f = [k \in 0 .. n |-> IF k = 0 THEN {RootScope} ELSE Wider(f[k - 1])]

LEMMA LevelsExist ==
  ASSUME NEW n \in Nat
  PROVE  \E f : Levels(f, n)
<1> DEFINE Bad == {m \in Nat : ~ \E f : Levels(f, m)}
<1> SUFFICES ASSUME Bad # {} PROVE FALSE
  OBVIOUS
<1>1. PICK m \in Bad : \A k \in Bad : m <= k
  <2>1. Bad \subseteq Nat
    OBVIOUS
  <2> HIDE DEF Bad
  <2> QED BY <2>1, LeastOf
<1>2. m \in Nat /\ ~ \E f : Levels(f, m)
  OBVIOUS
<1>3. m # 0
  <2> SUFFICES ASSUME m = 0 PROVE FALSE
    OBVIOUS
  <2>1. PICK f : f = [k \in 0 .. 0 |-> {RootScope}]
    OBVIOUS
  <2>2. \A k \in 0 .. 0 : k = 0
    OBVIOUS
  <2>3. f = [k \in 0 .. 0 |-> IF k = 0 THEN {RootScope} ELSE Wider(f[k - 1])]
    BY <2>1, <2>2
  <2> QED BY <1>2, <2>3 DEF Levels
<1>4. m - 1 \in Nat /\ ~(m <= m - 1)
  BY <1>2, <1>3
<1>5. PICK f : Levels(f, m - 1)
  BY <1>1, <1>4
<1>6. PICK g : g = [k \in 0 .. m |-> IF k = 0 THEN {RootScope} ELSE Wider(f[k - 1])]
  OBVIOUS
<1>7. \A k \in 0 .. m - 1 : g[k] = f[k]
  <2>1. \A k \in 0 .. m - 1 : f[k] = IF k = 0 THEN {RootScope} ELSE Wider(f[k - 1])
    BY <1>5, Zenon DEF Levels
  <2>2. \A k \in 0 .. m - 1 : k \in 0 .. m
    BY <1>4
  <2> QED BY <1>6, <2>1, <2>2, Zenon
<1>8. \A k \in 0 .. m : g[k] = IF k = 0 THEN {RootScope} ELSE Wider(g[k - 1])
  <2> SUFFICES ASSUME NEW k \in 0 .. m
               PROVE  g[k] = IF k = 0 THEN {RootScope} ELSE Wider(g[k - 1])
    OBVIOUS
  <2>1. k = 0 \/ k - 1 \in 0 .. m - 1
    BY <1>2
  <2>2. g[k] = IF k = 0 THEN {RootScope} ELSE Wider(f[k - 1])
    BY <1>6, Zenon
  <2>3. CASE k = 0
    BY <2>2, <2>3
  <2>4. CASE k # 0
    BY <1>7, <2>1, <2>2, <2>4
  <2> QED BY <2>3, <2>4
<1>9. Levels(g, m)
  <2>1. g = [k \in 0 .. m |-> g[k]]
    BY <1>6, Zenon
  <2> QED BY <1>8, <2>1 DEF Levels
<1> QED BY <1>2, <1>9

(* A level holds the root, and what is not the root is a child.            *)
LEMMA LevelsHold ==
  ASSUME Root \in DOMAIN T, NEW f, NEW n \in Nat, Levels(f, n), NEW k \in 0 .. n
  PROVE  /\ RootScope \in f[k] /\ f[k] \subseteq [path : Seq(Nat), table : DOMAIN T]
         /\ \A s \in f[k] : s = RootScope \/ \E u \in f[k] : s \in ChildScopes(u)
<1> DEFINE Good(m) == /\ RootScope \in f[m] /\ f[m] \subseteq [path : Seq(Nat), table : DOMAIN T]
                      /\ \A s \in f[m] : s = RootScope \/ \E u \in f[m] : s \in ChildScopes(u)
           Bad == {m \in 0 .. n : ~Good(m)}
<1> SUFFICES ASSUME Bad # {} PROVE FALSE
  OBVIOUS
<1>1. PICK m \in Bad : \A j \in Bad : m <= j
  <2>1. Bad \subseteq Nat
    OBVIOUS
  <2> HIDE DEF Bad
  <2> QED BY <2>1, LeastOf
<1>2. m \in 0 .. n /\ ~Good(m)
  OBVIOUS
<1> HIDE DEF Good
<1>3. f[m] = IF m = 0 THEN {RootScope} ELSE Wider(f[m - 1])
  BY <1>2, Zenon DEF Levels
<1>4. CASE m = 0
  <2>1. f[m] = {RootScope}
    BY <1>3, <1>4
  <2>2. RootScope \in [path : Seq(Nat), table : DOMAIN T]
    BY EmptySeq DEF RootScope
  <2> QED BY <1>2, <2>1, <2>2 DEF Good
<1>5. CASE m # 0
  <2>1. m - 1 \in 0 .. n /\ ~(m <= m - 1)
    BY <1>2, <1>5
  <2>2. Good(m - 1)
    BY <1>1, <2>1
  <2>3. PICK X : X = f[m - 1]
    OBVIOUS
  <2>4. f[m] = X \cup UNION {ChildScopes(s) : s \in X}
    BY <1>3, <1>5, <2>3 DEF Wider
  <2>5. /\ RootScope \in X /\ X \subseteq [path : Seq(Nat), table : DOMAIN T]
        /\ \A s \in X : s = RootScope \/ \E u \in X : s \in ChildScopes(u)
    BY <2>2, <2>3 DEF Good
  <2>6. \A s \in f[m] : s = RootScope \/ \E u \in f[m] : s \in ChildScopes(u)
    BY <2>4, <2>5
  <2>7. f[m] \subseteq [path : Seq(Nat), table : DOMAIN T]
    BY <2>4, <2>5, ChildScopesTyped
  <2> QED BY <1>2, <2>4, <2>5, <2>6, <2>7 DEF Good
<1> QED BY <1>4, <1>5

LEMMA ScopesGrow ==
  ASSUME Root # "none", IsFiniteSet(DOMAIN T)
  PROVE  /\ RootScope \in Scopes /\ Scopes \subseteq [path : Seq(Nat), table : DOMAIN T]
         /\ \A s \in Scopes : s = RootScope \/ \E u \in Scopes : s \in ChildScopes(u)
<1> DEFINE c == Cardinality(DOMAIN T)
           Level[n \in 0 .. c] ==
             IF n = 0 THEN {[path |-> <<>>, table |-> Root]}
             ELSE Level[n - 1] \cup UNION {{[path |-> Append(s.path, id), table |-> T[s.table].rows[id].child] :
                       id \in {i \in DOMAIN T[s.table].rows :
                                 T[s.table].rows[i].kind = "sequence"}} : s \in Level[n - 1]}
<1>1. c \in Nat
  BY FS_CardinalityType
<1>2. Scopes = Level[c]
  BY Zenon DEF Scopes, Closure
<1>3. PICK f : Levels(f, c)
  BY <1>1, LevelsExist
<1>4. f = [n \in 0 .. c |->
             IF n = 0 THEN {[path |-> <<>>, table |-> Root]}
             ELSE f[n - 1] \cup UNION {{[path |-> Append(s.path, id), table |-> T[s.table].rows[id].child] :
                       id \in {i \in DOMAIN T[s.table].rows :
                                 T[s.table].rows[i].kind = "sequence"}} : s \in f[n - 1]}]
  BY <1>3, Zenon DEF Levels, Wider, ChildScopes, RootScope
<1>5. Level = [n \in 0 .. c |->
             IF n = 0 THEN {[path |-> <<>>, table |-> Root]}
             ELSE Level[n - 1] \cup UNION {{[path |-> Append(s.path, id), table |-> T[s.table].rows[id].child] :
                       id \in {i \in DOMAIN T[s.table].rows :
                                 T[s.table].rows[i].kind = "sequence"}} : s \in Level[n - 1]}]
  BY <1>4, Zenon
<1>6. Levels(Level, c)
  <2>1. PICK g : g = Level
    OBVIOUS
  <2>2. Levels(g, c)
    BY <1>5, <2>1, Zenon DEF Levels, Wider, ChildScopes, RootScope
  <2> QED BY <2>1, <2>2
<1>7. c \in 0 .. c
  BY <1>1
<1> HIDE DEF Level, c
<1>8. Root \in DOMAIN T
  BY TableAssumption
<1> QED BY <1>1, <1>2, <1>6, <1>7, <1>8, LevelsHold

(* The scopes a tree of tables can open, told by their paths.              *)
Paths  == DOMAIN TableAt
Tab(p) == (CHOOSE s \in Scopes : s.path = p).table
ScopeOf(p) == [path |-> p, table |-> Tab(p)]
IsNode(l) == Front(l) \in Paths /\ Last(l) \in DOMAIN TableAt[Front(l)].rows

LEMMA ScopeFacts ==
  ASSUME TablesFormTree, NEW s \in Scopes
  PROVE  /\ Root # "none" /\ s.table \in DOMAIN T /\ s.path \in Seq(Nat)
         /\ s = [path |-> s.path, table |-> s.table]
         /\ s.path \in Paths /\ Tab(s.path) = s.table /\ TableAt[s.path] = T[s.table]
<1>1. Root # "none"
  BY DEF Scopes
<1>2. s \in [path : Seq(Nat), table : DOMAIN T]
  BY <1>1, ScopesGrow DEF TablesFormTree
<1>3. s.path \in Paths
  BY DEF Paths, TableAt
<1>4. Tab(s.path) = s.table
  <2>1. PICK u : u = CHOOSE v \in Scopes : v.path = s.path
    OBVIOUS
  <2>2. u \in Scopes /\ u.path = s.path
    BY <2>1
  <2>3. u.table = s.table
    BY <2>2 DEF TablesFormTree
  <2> QED BY <2>1, <2>3 DEF Tab
<1>5. TableAt[s.path] = T[Tab(s.path)]
  BY <1>3, Zenon DEF Paths, TableAt, Tab
<1> QED BY <1>1, <1>2, <1>3, <1>4, <1>5

LEMMA PathIsScope ==
  ASSUME TablesFormTree, NEW p \in Paths
  PROVE  /\ Root # "none" /\ ScopeOf(p) \in Scopes /\ Tab(p) \in DOMAIN T
         /\ p \in Seq(Nat) /\ TableAt[p] = T[Tab(p)] /\ IsTable(TableAt[p])
         /\ DOMAIN TableAt[p].rows \subseteq Nat
         /\ p \in Unions <=> TableAt[p].which >= 0
<1>1. PICK s \in Scopes : s.path = p
  BY DEF Paths, TableAt
<1>2. /\ Root # "none" /\ s.table \in DOMAIN T /\ p \in Seq(Nat)
      /\ s = [path |-> p, table |-> s.table]
      /\ Tab(p) = s.table /\ TableAt[p] = T[s.table]
  BY <1>1, ScopeFacts
<1>3. ScopeOf(p) \in Scopes
  BY <1>2 DEF ScopeOf
<1>4. IsTable(TableAt[p])
  BY <1>2, TableAssumption
<1>5. DOMAIN TableAt[p].rows \subseteq Nat
  BY <1>4 DEF IsTable
<1> QED BY <1>2, <1>3, <1>4, <1>5 DEF Unions, Paths

LEMMA PlaceFacts ==
  ASSUME TablesFormTree, NEW p \in Paths, NEW i \in DOMAIN TableAt[p].rows
  PROVE  /\ Append(p, i) \in Places /\ RowAt[Append(p, i)] = TableAt[p].rows[i]
         /\ Append(p, i) \in Seq(Nat) /\ i \in Nat
<1>1. p \in Seq(Nat) /\ i \in Nat
  BY PathIsScope
<1>2. Append(p, i) \in Places
  BY DEF Places, Paths
<1>3. /\ Append(p, i) \in Seq(Nat)
      /\ Front(Append(p, i)) = p /\ Last(Append(p, i)) = i
  BY <1>1, StepDown
<1>4. RowAt[Append(p, i)] = TableAt[Front(Append(p, i))].rows[Last(Append(p, i))]
  BY <1>2, Zenon DEF RowAt
<1> QED BY <1>1, <1>2, <1>3, <1>4

LEMMA PlaceIs ==
  ASSUME TablesFormTree, NEW l \in Places
  PROVE  /\ IsNode(l) /\ l = Append(Front(l), Last(l)) /\ l \in Seq(Nat) /\ l # <<>>
         /\ Front(l) \in Seq(Nat) /\ Last(l) \in Nat
         /\ RowAt[l] = TableAt[Front(l)].rows[Last(l)] /\ RowAt[l] \in Row
<1>0. PICK p \in Paths : \E i \in DOMAIN TableAt[p].rows : l = Append(p, i)
  BY DEF Places, Paths
<1>1. PICK i \in DOMAIN TableAt[p].rows : l = Append(p, i)
  BY <1>0
<1>2. /\ p \in Seq(Nat) /\ IsTable(TableAt[p]) /\ DOMAIN TableAt[p].rows \subseteq Nat
  BY PathIsScope
<1>3. i \in Nat
  BY <1>2
<1>4. l \in Seq(Nat) /\ l # <<>> /\ Front(l) = p /\ Last(l) = i
  BY <1>1, <1>2, <1>3, StepDown
<1>5. RowAt[l] = TableAt[p].rows[i]
  BY <1>1, PlaceFacts
<1>6. TableAt[p].rows[i] \in Row
  BY <1>2 DEF IsTable
<1> QED BY <1>1, <1>2, <1>3, <1>4, <1>5, <1>6 DEF IsNode

(* A sequence row leads to a scope, and every scope but the root's is one. *)
LEMMA PathBelow ==
  ASSUME TablesFormTree, NEW p \in Paths, NEW i \in DOMAIN TableAt[p].rows,
         TableAt[p].rows[i].kind = "sequence"
  PROVE  /\ Append(p, i) \in Paths /\ Tab(Append(p, i)) = TableAt[p].rows[i].child
         /\ ScopeOf(Append(p, i)) \in Scopes
<1>1. ScopeOf(p) \in Scopes /\ TableAt[p] = T[Tab(p)]
  BY PathIsScope
<1>2. PICK s : s = ScopeOf(p)
  OBVIOUS
<1>3. s \in Scopes /\ s.path = p /\ s.table = Tab(p)
  BY <1>1, <1>2 DEF ScopeOf
<1>4. PICK u : u = [path |-> Append(p, i), table |-> TableAt[p].rows[i].child]
  OBVIOUS
<1>5. u \in Scopes
  <2>1. T[s.table] = TableAt[p]
    BY <1>1, <1>3
  <2>2. i \in DOMAIN T[s.table].rows /\ T[s.table].rows[i].kind = "sequence"
    BY <2>1
  <2>3. [path |-> Append(s.path, i), table |-> T[s.table].rows[i].child] \in Scopes
    BY <1>3, <2>2, Zenon DEF TablesFormTree
  <2> QED BY <1>3, <1>4, <2>1, <2>3
<1>6. u.path = Append(p, i) /\ u.table = TableAt[p].rows[i].child
  BY <1>4
<1>7. u.path \in Paths /\ Tab(u.path) = u.table /\ u = [path |-> u.path, table |-> u.table]
  BY <1>5, ScopeFacts
<1> QED BY <1>5, <1>6, <1>7 DEF ScopeOf

LEMMA PathAbove ==
  ASSUME TablesFormTree, NEW q \in Paths, q # <<>>
  PROVE  /\ q \in Places /\ RowAt[q].kind = "sequence" /\ RowAt[q].child = Tab(q)
<1>1. ScopeOf(q) \in Scopes /\ Root # "none"
  BY PathIsScope
<1>2. PICK s : s = ScopeOf(q)
  OBVIOUS
<1>3. s \in Scopes /\ s.path = q /\ s.table = Tab(q)
  BY <1>1, <1>2 DEF ScopeOf
<1>4. s # RootScope
  BY <1>3 DEF RootScope
<1>5. PICK u \in Scopes : s \in ChildScopes(u)
  BY <1>1, <1>3, <1>4, ScopesGrow DEF TablesFormTree
<1>6. PICK id \in DOMAIN T[u.table].rows :
        /\ T[u.table].rows[id].kind = "sequence"
        /\ s = [path |-> Append(u.path, id), table |-> T[u.table].rows[id].child]
  BY <1>5 DEF ChildScopes
<1>7. u.path \in Paths /\ TableAt[u.path] = T[u.table]
  BY ScopeFacts
<1>8. q = Append(u.path, id) /\ Tab(q) = T[u.table].rows[id].child
  BY <1>3, <1>6
<1>9. q \in Places /\ RowAt[q] = TableAt[u.path].rows[id]
  BY <1>7, <1>8, PlaceFacts
<1> QED BY <1>6, <1>7, <1>8, <1>9

LEMMA RootIsPath ==
  ASSUME TablesFormTree, Root # "none"
  PROVE  <<>> \in Paths /\ Tab(<<>>) = Root /\ ScopeOf(<<>>) \in Scopes
<1>1. RootScope \in Scopes
  BY ScopesGrow DEF TablesFormTree
<1>2. RootScope.path = <<>> /\ RootScope.table = Root
  BY DEF RootScope
<1>3. PICK s : s = RootScope
  OBVIOUS
<1>4. s.path \in Paths /\ Tab(s.path) = s.table /\ s = [path |-> s.path, table |-> s.table]
  BY <1>1, <1>3, ScopeFacts
<1> QED BY <1>1, <1>2, <1>3, <1>4 DEF ScopeOf

-----------------------------------------------------------------------------
(* What a reader reaches.                                                  *)

LEMMA UnionIsPath ==
  ASSUME TablesFormTree, NEW u \in Unions
  PROVE  u \in Paths /\ u \in Seq(Nat) /\ TableAt[u].which >= 0
<1>1. u \in Paths
  BY DEF Unions, Paths
<1> QED BY <1>1, PathIsScope

LEMMA ReadsStep ==
  ASSUME TablesFormTree, NEW h, NEW p \in Seq(Nat), NEW i \in Nat
  PROVE  Reads(h, Append(p, i)) <=> Reads(h, p) /\ (p \in Unions => h.opt[p] = i)
<1> DEFINE q == Append(p, i)
<1>1. q[Len(p) + 1] = i
  BY StepDown
<1>2. ASSUME NEW u \in Unions
      PROVE  /\ Above(u, q) <=> u = p \/ Above(u, p)
             /\ Above(u, p) => q[Len(u) + 1] = p[Len(u) + 1]
  <2>1. u \in Seq(Nat)
    BY UnionIsPath
  <2> QED BY <2>1, UnderStep
<1> HIDE DEF q
<1>3. ASSUME Reads(h, q) PROVE Reads(h, p) /\ (p \in Unions => h.opt[p] = i)
  BY <1>1, <1>2, <1>3 DEF Reads
<1>4. ASSUME Reads(h, p), p \in Unions => h.opt[p] = i PROVE Reads(h, q)
  BY <1>1, <1>2, <1>4 DEF Reads
<1> QED BY <1>3, <1>4 DEF q

LEMMA ReadsAbove ==
  ASSUME TablesFormTree, NEW h, NEW p \in Seq(Nat), NEW l \in Seq(Nat),
         Under(p, l), Reads(h, l)
  PROVE  Reads(h, p)
<1> SUFFICES ASSUME NEW u \in Unions, Above(u, p) PROVE h.opt[u] = p[Len(u) + 1]
  BY DEF Reads
<1>1. u \in Seq(Nat)
  BY UnionIsPath
<1>2. Above(u, l) /\ l[Len(u) + 1] = p[Len(u) + 1]
  BY <1>1, InLine
<1> QED BY <1>2 DEF Reads

LEMMA ReadsTogether ==
  ASSUME NEW h, NEW p, NEW q, Reads(h, p), Reads(h, q)
  PROVE  ~Apart(p, q)
BY DEF Reads, Apart

(* A scope under a place: the place leads to it.                           *)
LEMMA UnderIsScope ==
  ASSUME TablesFormTree, NEW place \in Places, NEW q \in Paths, Under(place, q)
  PROVE  place \in Paths /\ RowAt[place].kind = "sequence"
<1> DEFINE Deep == {n \in Nat : \E p \in Paths : Under(place, p) /\ Len(p) = n}
<1>1. Deep # {}
  <2>1. q \in Seq(Nat)
    BY PathIsScope
  <2> QED BY <2>1, LenProperties
<1>2. PICK n \in Deep : \A m \in Deep : n <= m
  <2>1. Deep \subseteq Nat
    OBVIOUS
  <2> HIDE DEF Deep
  <2> QED BY <1>1, <2>1, LeastOf
<1>3. PICK p \in Paths : Under(place, p) /\ Len(p) = n
  OBVIOUS
<1>4. place \in Seq(Nat) /\ place # <<>> /\ p \in Seq(Nat)
  BY PlaceIs, PathIsScope
<1>5. p # <<>>
  <2> SUFFICES ASSUME p = <<>> PROVE FALSE
    OBVIOUS
  <2>1. Len(place) <= Len(p) /\ Len(p) = 0 /\ Len(place) \in Nat \ {0}
    BY <1>3, <1>4, EmptySeq DEF Under
  <2> QED BY <2>1
<1>6. p \in Places /\ RowAt[p].kind = "sequence"
  BY <1>5, PathAbove
<1>7. /\ Front(p) \in Paths /\ Front(p) \in Seq(Nat) /\ Last(p) \in Nat
      /\ p = Append(Front(p), Last(p))
  BY <1>6, PlaceIs DEF IsNode
<1>8. ~Above(place, p)
  <2> SUFFICES ASSUME Above(place, p) PROVE FALSE
    OBVIOUS
  <2>1. Under(place, Front(p))
    <3>1. PICK f, i : f = Front(p) /\ i = Last(p)
      OBVIOUS
    <3>2. Above(place, Append(f, i)) <=> Under(place, f)
      BY <1>4, <1>7, <3>1, UnderStep
    <3> QED BY <1>7, <3>1, <3>2
  <2>2. Len(Front(p)) = n - 1 /\ n - 1 \in Nat
    BY <1>3, <1>4, <1>5, StepUp
  <2>3. n - 1 \in Deep
    BY <1>7, <2>1, <2>2
  <2> QED BY <1>2, <2>2, <2>3
<1>9. place = p
  BY <1>3, <1>4, <1>8, UnderStep
<1> QED BY <1>6, <1>9

-----------------------------------------------------------------------------
(* An option selected anew: what below its place is reached afterwards is  *)
(* what the prepared reset covers.                                         *)

StartsAfresh(h, place) ==
  /\ Reads(h, place)
  /\ \A u \in Unions : Under(place, u) => h.opt[u] = TableAt[u].first

FreshPaths(h, place)  == {q \in Paths : Under(place, q) /\ Reads(h, q)}
FreshPlaces(h, place) == {l \in Places : Under(place, l) /\ Reads(h, l)}

(* One level down from a fresh scope.                                      *)
LEMMA FreshBelow ==
  ASSUME TablesFormTree, NEW h, NEW place \in Places, StartsAfresh(h, place),
         NEW q \in FreshPaths(h, place), NEW r \in FreshRows(T, Tab(q))
  PROVE  \E l \in FreshPlaces(h, place) :
           /\ r = RowAt[l]
           /\ r.kind = "sequence" => l \in FreshPaths(h, place) /\ Tab(l) = r.child
<1>1. q \in Paths /\ Under(place, q) /\ Reads(h, q)
  BY DEF FreshPaths
<1>2. /\ q \in Seq(Nat) /\ TableAt[q] = T[Tab(q)]
      /\ q \in Unions <=> TableAt[q].which >= 0
      /\ IsTable(TableAt[q])
  BY <1>1, PathIsScope
<1>3. PICK id \in DOMAIN TableAt[q].rows :
        r = TableAt[q].rows[id] /\ (TableAt[q].which >= 0 => id = TableAt[q].first)
  <2>1. TableAt[q].which \in Int
    BY <1>2 DEF IsTable
  <2>2. CASE TableAt[q].which < 0
    BY <1>2, <2>1, <2>2 DEF FreshRows, RowsOf
  <2>3. CASE TableAt[q].which >= 0
    BY <1>2, <2>1, <2>3 DEF FreshRows
  <2> QED BY <2>1, <2>2, <2>3
<1>4. id \in Nat /\ Append(q, id) \in Places /\ RowAt[Append(q, id)] = r
  BY <1>1, <1>3, PlaceFacts
<1>5. q \in Unions => h.opt[q] = id
  BY <1>1, <1>2, <1>3 DEF StartsAfresh
<1>6. Reads(h, Append(q, id))
  BY <1>1, <1>2, <1>4, <1>5, ReadsStep
<1>7. Under(place, Append(q, id))
  <2>1. place \in Seq(Nat) /\ Append(q, id) \in Seq(Nat)
    BY <1>1, <1>3, PlaceIs, PlaceFacts
  <2>2. Above(place, Append(q, id))
    BY <1>1, <1>2, <1>4, <2>1, UnderStep
  <2> QED BY <2>2 DEF Above
<1>8. r.kind = "sequence" => Append(q, id) \in Paths /\ Tab(Append(q, id)) = r.child
  BY <1>1, <1>3, PathBelow
<1> QED BY <1>4, <1>6, <1>7, <1>8 DEF FreshPlaces, FreshPaths

(* One level up from a fresh place.                                        *)
LEMMA FreshAbove ==
  ASSUME TablesFormTree, NEW h, NEW place \in Places, StartsAfresh(h, place),
         NEW l \in FreshPlaces(h, place), l # place
  PROVE  Front(l) \in FreshPaths(h, place) /\ RowAt[l] \in FreshRows(T, Tab(Front(l)))
<1>1. l \in Places /\ Under(place, l) /\ Reads(h, l)
  BY DEF FreshPlaces
<1>2. PICK q, id : q = Front(l) /\ id = Last(l)
  OBVIOUS
<1>3. /\ q \in Paths /\ id \in DOMAIN TableAt[q].rows /\ l = Append(q, id)
      /\ q \in Seq(Nat) /\ id \in Nat /\ RowAt[l] = TableAt[q].rows[id]
      /\ l \in Seq(Nat) /\ place \in Seq(Nat)
  BY <1>1, <1>2, PlaceIs DEF IsNode
<1>4. Under(place, q)
  <2>1. Above(place, l)
    BY <1>1, <1>3, UnderStep
  <2> QED BY <1>3, <2>1, UnderStep
<1>5. Reads(h, q) /\ (q \in Unions => h.opt[q] = id)
  BY <1>1, <1>3, ReadsStep
<1>6. q \in FreshPaths(h, place)
  BY <1>3, <1>4, <1>5 DEF FreshPaths
<1>7. /\ TableAt[q] = T[Tab(q)]
      /\ q \in Unions <=> TableAt[q].which >= 0
      /\ TableAt[q].which \in Int
  BY <1>3, PathIsScope DEF IsTable
<1>8. q \in Unions => id = TableAt[q].first
  BY <1>4, <1>5 DEF StartsAfresh
<1>9. RowAt[l] \in FreshRows(T, Tab(q))
  <2>1. CASE T[Tab(q)].which < 0
    BY <1>3, <1>7, <2>1 DEF FreshRows, RowsOf
  <2>2. CASE ~(T[Tab(q)].which < 0)
    <3>1. id = T[Tab(q)].first
      BY <1>7, <1>8, <2>2
    <3>2. id \in DOMAIN T[Tab(q)].rows \cap {T[Tab(q)].first} /\ RowAt[l] = T[Tab(q)].rows[id]
      BY <1>3, <1>7, <3>1
    <3> QED BY <2>2, <3>2 DEF FreshRows
  <2> QED BY <2>1, <2>2
<1> QED BY <1>2, <1>6, <1>9

LEMMA FreshTablesAre ==
  ASSUME TablesFormTree, NEW h, NEW place \in Places, StartsAfresh(h, place)
  PROVE  FreshTables(T, RowAt[place]) = {Tab(q) : q \in FreshPaths(h, place)}
<1> DEFINE r == RowAt[place]
           F == {Tab(q) : q \in FreshPaths(h, place)}
           Closing(S) == r.child \in S /\ \A t \in S : ChildrenIn(FreshRows(T, t)) \subseteq S
<1>1. CASE r.kind # "sequence"
  <2>1. FreshTables(T, r) = {}
    BY <1>1 DEF FreshTables
  <2>2. FreshPaths(h, place) = {}
    BY <1>1, UnderIsScope DEF FreshPaths
  <2> QED BY <2>1, <2>2
<1>2. CASE r.kind = "sequence"
  <2>1. /\ place \in Paths /\ Tab(place) = r.child
        /\ place \in Seq(Nat) /\ Under(place, place)
    <3>1. PICK q, id : q = Front(place) /\ id = Last(place)
      OBVIOUS
    <3>2. /\ q \in Paths /\ id \in DOMAIN TableAt[q].rows /\ place = Append(q, id)
          /\ r = TableAt[q].rows[id] /\ place \in Seq(Nat)
      BY <3>1, PlaceIs DEF IsNode
    <3>3. Append(q, id) \in Paths /\ Tab(Append(q, id)) = r.child
      <4>1. TableAt[q].rows[id].kind = "sequence"
        BY <1>2, <3>2
      <4> QED BY <3>2, <4>1, PathBelow
    <3>4. Under(place, place)
      BY <3>2, UnderStep
    <3> QED BY <3>2, <3>3, <3>4
  <2>2. place \in FreshPaths(h, place)
    BY <2>1 DEF FreshPaths, StartsAfresh
  <2> HIDE DEF r
  <2>3. F \subseteq DOMAIN T
    BY PathIsScope DEF FreshPaths
  <2>4. Closing(F)
    <3>1. ASSUME NEW q \in FreshPaths(h, place), NEW c \in ChildrenIn(FreshRows(T, Tab(q)))
          PROVE  c \in F
      <4>1. PICK x \in FreshRows(T, Tab(q)) : x.kind = "sequence" /\ x.child = c
        BY DEF ChildrenIn
      <4>2. PICK l \in FreshPaths(h, place) : Tab(l) = x.child
        BY <4>1, FreshBelow
      <4> QED BY <4>1, <4>2
    <3>2. r.child \in F
      BY <2>1, <2>2
    <3> QED BY <3>1, <3>2
  <2>5. FreshTables(T, r) = {u \in DOMAIN T : \A S \in SUBSET DOMAIN T : Closing(S) => u \in S}
    BY <1>2, Zenon DEF FreshTables
  <2>6. FreshTables(T, r) \subseteq F
    <3> HIDE DEF F, Closing
    <3> QED BY <2>3, <2>4, <2>5
  <2>7. ASSUME NEW S \in SUBSET DOMAIN T, Closing(S), NEW q \in FreshPaths(h, place)
        PROVE  Tab(q) \in S
    <3> DEFINE Bad == {n \in Nat : \E p \in FreshPaths(h, place) : Tab(p) \notin S /\ Len(p) = n}
    <3> SUFFICES ASSUME Tab(q) \notin S PROVE FALSE
      OBVIOUS
    <3>1. Bad # {}
      <4>1. q \in Seq(Nat)
        BY PathIsScope DEF FreshPaths
      <4> QED BY <4>1, LenProperties
    <3>2. PICK n \in Bad : \A m \in Bad : n <= m
      <4>1. Bad \subseteq Nat
        OBVIOUS
      <4> HIDE DEF Bad
      <4> QED BY <3>1, <4>1, LeastOf
    <3>3. PICK p \in FreshPaths(h, place) : Tab(p) \notin S /\ Len(p) = n
      OBVIOUS
    <3>4. p \in Paths /\ Under(place, p) /\ Reads(h, p) /\ p \in Seq(Nat)
      BY PathIsScope DEF FreshPaths
    <3>5. p # place
      BY <2>1, <2>7, <3>3
    <3>6. p # <<>>
      <4> SUFFICES ASSUME p = <<>> PROVE FALSE
        OBVIOUS
      <4>1. Len(place) <= Len(p) /\ Len(p) = 0 /\ Len(place) \in Nat \ {0}
        BY <2>1, <3>4, PlaceIs, EmptySeq DEF Under
      <4> QED BY <4>1
    <3>7. p \in FreshPlaces(h, place) /\ RowAt[p].kind = "sequence" /\ RowAt[p].child = Tab(p)
      BY <3>4, <3>6, PathAbove DEF FreshPlaces
    <3>8. Front(p) \in FreshPaths(h, place) /\ RowAt[p] \in FreshRows(T, Tab(Front(p)))
      BY <3>5, <3>7, FreshAbove
    <3>9. Len(Front(p)) = n - 1 /\ n - 1 \in Nat
      BY <3>3, <3>4, <3>6, StepUp
    <3>10. Tab(Front(p)) \in S
      <4> SUFFICES ASSUME Tab(Front(p)) \notin S PROVE FALSE
        OBVIOUS
      <4>1. n - 1 \in Bad
        BY <3>8, <3>9
      <4> QED BY <3>2, <3>9, <4>1
    <3>11. Tab(p) \in ChildrenIn(FreshRows(T, Tab(Front(p))))
      BY <3>7, <3>8 DEF ChildrenIn
    <3> QED BY <2>7, <3>3, <3>10, <3>11
  <2>8. F \subseteq FreshTables(T, r)
    <3> SUFFICES ASSUME NEW q \in FreshPaths(h, place) PROVE Tab(q) \in FreshTables(T, r)
      OBVIOUS
    <3>1. Tab(q) \in DOMAIN T
      BY PathIsScope DEF FreshPaths
    <3> HIDE DEF Closing
    <3> QED BY <2>5, <2>7, <3>1
  <2> QED BY <2>6, <2>8 DEF r
<1> QED BY <1>1, <1>2

-----------------------------------------------------------------------------
(* What a row owns, and what its slots show.                               *)

RowHasRoom(r) == HasRoom(r, Words0, Objects0)

LEMMA RowFacts ==
  ASSUME NEW r \in Row
  PROVE  /\ r.kind \in Kinds /\ r.at \in Nat /\ r.cap \in Nat /\ r.count \in Int
         /\ r.count < 0 \/ r.count \in Nat
         /\ r.default \in Seq(Nat) /\ Len(r.default) \in Nat
         /\ DOMAIN r.default = 1 .. Len(r.default)
<1>1. /\ r.kind \in Kinds /\ r.at \in Nat /\ r.cap \in Nat /\ r.count \in Nat \cup {-1}
      /\ r.default \in Seq(Nat)
  BY DEF Row
<1> QED BY <1>1, LenProperties

LEMMA StoredByKind ==
  ASSUME NEW r, NEW w, NEW o
  PROVE  /\ r.kind \in ScalarKinds => Stored(r, w, o) = <<w[r.at]>>
         /\ r.kind \in ArrayKinds => Stored(r, w, o) = [k \in 1 .. w[r.count] |-> w[r.at + k - 1]]
         /\ r.kind = "text" => Stored(r, w, o) = o[r.at]
         /\ r.kind = "into" => Stored(r, w, o) = SubSeq(o[r.at], 1, w[r.count])
         /\ r.kind = "sequence" => Stored(r, w, o) = <<>>
<1>1. r.kind \in ScalarKinds => Stored(r, w, o) = <<w[r.at]>>
  BY DEF Stored, ScalarKinds, ArrayKinds
<1>2. r.kind \in ArrayKinds => Stored(r, w, o) = [k \in 1 .. w[r.count] |-> w[r.at + k - 1]]
  BY DEF Stored, ScalarKinds, ArrayKinds
<1>3. r.kind = "text" => Stored(r, w, o) = o[r.at]
  BY DEF Stored, ScalarKinds, ArrayKinds
<1>4. r.kind = "into" => Stored(r, w, o) = SubSeq(o[r.at], 1, w[r.count])
  BY DEF Stored, ScalarKinds, ArrayKinds
<1>5. r.kind = "sequence" => Stored(r, w, o) = <<>>
  BY DEF Stored, ScalarKinds, ArrayKinds
<1> QED BY <1>1, <1>2, <1>3, <1>4, <1>5

LEMMA SlotsByKind ==
  ASSUME NEW r
  PROVE  LET counter == IF r.count < 0 THEN {} ELSE {r.count} IN
         /\ r.kind \in ScalarKinds => WordSlots(r) = {r.at} \cup counter
         /\ r.kind \in ArrayKinds => WordSlots(r) = (r.at .. r.at + r.cap - 1) \cup counter
         /\ r.kind \notin ScalarKinds \cup ArrayKinds => WordSlots(r) = counter
BY DEF WordSlots, ScalarKinds, ArrayKinds

LEMMA OwnByKind ==
  ASSUME NEW r, r.kind \in Kinds
  PROVE  /\ r.kind \in ScalarKinds =>
              OwnWords(r) = {<<r.at, r.default[1]>>} \cup (IF r.count < 0 THEN {} ELSE {<<r.count, 0>>})
         /\ r.kind \in ArrayKinds =>
              OwnWords(r) = {<<r.at + k - 1, r.default[k]>> : k \in DOMAIN r.default}
                            \cup (IF r.count < 0 THEN {} ELSE {<<r.count, Len(r.default)>>})
         /\ r.kind \notin ScalarKinds \cup ArrayKinds =>
              OwnWords(r) = IF r.count < 0 THEN {}
                            ELSE {<<r.count, IF r.kind = "into" THEN Len(r.default) ELSE 0>>}
<1>1. r.kind \in ScalarKinds =>
              OwnWords(r) = {<<r.at, r.default[1]>>} \cup (IF r.count < 0 THEN {} ELSE {<<r.count, 0>>})
  BY DEF OwnWords, OneWordKinds, ManyWordsKinds, ScalarKinds, ArrayKinds
<1>2. r.kind \in ArrayKinds =>
              OwnWords(r) = {<<r.at + k - 1, r.default[k]>> : k \in DOMAIN r.default}
                            \cup (IF r.count < 0 THEN {} ELSE {<<r.count, Len(r.default)>>})
  <2> SUFFICES ASSUME r.kind \in ArrayKinds
               PROVE  OwnWords(r) = {<<r.at + k - 1, r.default[k]>> : k \in DOMAIN r.default}
                            \cup (IF r.count < 0 THEN {} ELSE {<<r.count, Len(r.default)>>})
    OBVIOUS
  <2>1. r.kind \notin OneWordKinds /\ r.kind \in ManyWordsKinds
    BY DEF OneWordKinds, ManyWordsKinds, ScalarKinds, ArrayKinds
  <2> QED BY <2>1 DEF OwnWords
<1>3. r.kind \notin ScalarKinds \cup ArrayKinds =>
              OwnWords(r) = IF r.count < 0 THEN {}
                            ELSE {<<r.count, IF r.kind = "into" THEN Len(r.default) ELSE 0>>}
  BY DEF OwnWords, OneWordKinds, ManyWordsKinds, ScalarKinds, ArrayKinds, Kinds
<1> QED BY <1>1, <1>2, <1>3

LEMMA OwnWordsAre ==
  ASSUME NEW r \in Row, RowHasRoom(r)
  PROVE  /\ \A x \in OwnWords(r) : x[1] \in WordSlots(r) /\ x[1] \in DOMAIN Words0
         /\ \A x, y \in OwnWords(r) : x[1] = y[1] => x[2] = y[2]
<1>1. /\ r.kind \in Kinds /\ r.at \in Nat /\ r.cap \in Nat /\ r.count \in Int
      /\ DOMAIN r.default = 1 .. Len(r.default) /\ Len(r.default) \in Nat
  BY RowFacts
<1>2. WordSlots(r) \subseteq DOMAIN Words0
  BY DEF RowHasRoom, HasRoom
<1>3. CASE r.kind \in ScalarKinds
  <2>1. r.count # r.at
    BY <1>3 DEF RowHasRoom, HasRoom
  <2>2. OwnWords(r) = {<<r.at, r.default[1]>>} \cup (IF r.count < 0 THEN {} ELSE {<<r.count, 0>>})
    BY <1>1, <1>3, OwnByKind
  <2>3. WordSlots(r) = {r.at} \cup (IF r.count < 0 THEN {} ELSE {r.count})
    BY <1>3, SlotsByKind
  <2> QED BY <1>2, <2>1, <2>2, <2>3
<1>4. CASE r.kind \in ArrayKinds
  <2>1. /\ r.count >= 0 /\ r.count \notin r.at .. r.at + r.cap - 1
        /\ Len(r.default) <= r.cap
    BY <1>4 DEF RowHasRoom, HasRoom
  <2>2. OwnWords(r) = {<<r.at + k - 1, r.default[k]>> : k \in DOMAIN r.default}
                      \cup {<<r.count, Len(r.default)>>}
    <3>1. ~(r.count < 0)
      BY <1>1, <2>1
    <3> QED BY <1>1, <1>4, <3>1, OwnByKind
  <2>3. WordSlots(r) = (r.at .. r.at + r.cap - 1) \cup {r.count}
    <3>1. ~(r.count < 0)
      BY <1>1, <2>1
    <3> QED BY <1>4, <3>1, SlotsByKind
  <2>4. ASSUME NEW x \in OwnWords(r)
        PROVE  \/ x[1] = r.count /\ x[2] = Len(r.default)
               \/ \E k \in 1 .. Len(r.default) :
                    x[1] = r.at + k - 1 /\ x[2] = r.default[k] /\ x[1] \in r.at .. r.at + r.cap - 1
    <3>1. CASE x = <<r.count, Len(r.default)>>
      BY <3>1
    <3>2. CASE x # <<r.count, Len(r.default)>>
      <4>1. PICK k \in 1 .. Len(r.default) : x = <<r.at + k - 1, r.default[k]>>
        BY <1>1, <2>2, <3>2
      <4>2. r.at + k - 1 \in r.at .. r.at + r.cap - 1
        BY <1>1, <2>1
      <4>3. x[1] = r.at + k - 1 /\ x[2] = r.default[k]
        BY <4>1
      <4> QED BY <4>2, <4>3
    <3> QED BY <3>1, <3>2
  <2>5. ASSUME NEW x \in OwnWords(r), NEW y \in OwnWords(r), x[1] = y[1]
        PROVE  x[2] = y[2]
    <3>1. CASE x[1] = r.count
      BY <2>1, <2>4, <2>5, <3>1
    <3>2. CASE x[1] # r.count
      <4>1. PICK k \in 1 .. Len(r.default) : x[1] = r.at + k - 1 /\ x[2] = r.default[k]
        BY <2>4, <3>2
      <4>2. PICK j \in 1 .. Len(r.default) : y[1] = r.at + j - 1 /\ y[2] = r.default[j]
        BY <2>4, <2>5, <3>2
      <4>3. k = j
        <5>1. r.at + k - 1 = r.at + j - 1
          BY <2>5, <4>1, <4>2
        <5>2. k \in Int /\ j \in Int
          OBVIOUS
        <5> QED BY <1>1, <5>1, <5>2
      <4> QED BY <4>1, <4>2, <4>3
    <3> QED BY <3>1, <3>2
  <2> QED BY <1>2, <2>3, <2>4, <2>5
<1>5. CASE r.kind \notin ScalarKinds \cup ArrayKinds
  <2>1. OwnWords(r) = IF r.count < 0 THEN {}
                      ELSE {<<r.count, IF r.kind = "into" THEN Len(r.default) ELSE 0>>}
    BY <1>1, <1>5, OwnByKind
  <2>2. \A x \in OwnWords(r) : r.count >= 0 /\ x[1] = r.count
                               /\ x[2] = IF r.kind = "into" THEN Len(r.default) ELSE 0
    BY <1>1, <2>1
  <2>3. WordSlots(r) = IF r.count < 0 THEN {} ELSE {r.count}
    BY <1>5, SlotsByKind
  <2> QED BY <1>1, <1>2, <2>2, <2>3
<1> QED BY <1>3, <1>4, <1>5

(* What is shown is told by the row's own slots.                           *)
LEMMA ShownBySlots ==
  ASSUME NEW r \in Row, RowHasRoom(r), NEW w, NEW o, NEW w2, NEW o2, Counted(r, w),
         \A s \in WordSlots(r) : w2[s] = w[s],
         \A s \in ObjectSlots(r) : o2[s] = o[s]
  PROVE  /\ Stored(r, w2, o2) = Stored(r, w, o) /\ Arrivals(r, w2) = Arrivals(r, w)
         /\ Counted(r, w2)
<1>1. r.kind \in Kinds /\ r.at \in Nat /\ r.cap \in Nat /\ r.count \in Int
  BY RowFacts
<1>2. r.count >= 0 => r.count \in WordSlots(r) /\ w2[r.count] = w[r.count]
  <2>1. (IF r.count < 0 THEN {} ELSE {r.count}) \subseteq WordSlots(r)
    BY SlotsByKind
  <2> QED BY <1>1, <2>1
<1>3. Arrivals(r, w2) = Arrivals(r, w)
  BY <1>1, <1>2 DEF Arrivals
<1>4. CASE r.kind \in ScalarKinds
  <2>1. r.at \in WordSlots(r)
    BY <1>4, SlotsByKind
  <2>2. r.kind \notin ArrayKinds
    BY <1>4 DEF ScalarKinds, ArrayKinds
  <2>3. Stored(r, w, o) = <<w[r.at]>> /\ Stored(r, w2, o2) = <<w2[r.at]>>
    BY <1>4, StoredByKind
  <2> QED BY <1>3, <2>1, <2>2, <2>3 DEF Counted
<1>5. CASE r.kind \in ArrayKinds
  <2>1. r.count >= 0 /\ w[r.count] \in 0 .. r.cap /\ r.kind \notin ScalarKinds
    BY <1>5 DEF RowHasRoom, HasRoom, Counted, ScalarKinds, ArrayKinds
  <2>2. r.at .. r.at + r.cap - 1 \subseteq WordSlots(r)
    BY <1>5, SlotsByKind
  <2>3. PICK n : n = w[r.count]
    OBVIOUS
  <2>4. w2[r.count] = n /\ n \in 0 .. r.cap
    BY <1>2, <2>1, <2>3
  <2>5. \A k \in 1 .. n : w2[r.at + k - 1] = w[r.at + k - 1]
    <3> SUFFICES ASSUME NEW k \in 1 .. n PROVE w2[r.at + k - 1] = w[r.at + k - 1]
      OBVIOUS
    <3>1. r.at + k - 1 \in r.at .. r.at + r.cap - 1
      BY <1>1, <2>4
    <3> QED BY <2>2, <3>1
  <2>6. Stored(r, w, o) = [k \in 1 .. n |-> w[r.at + k - 1]]
    BY <1>5, <2>3, StoredByKind
  <2>7. Stored(r, w2, o2) = [k \in 1 .. n |-> w2[r.at + k - 1]]
    BY <1>5, <2>4, StoredByKind
  <2>8. Stored(r, w2, o2) = Stored(r, w, o)
    BY <2>5, <2>6, <2>7
  <2> QED BY <1>3, <2>4, <2>8 DEF Counted
<1>6. CASE r.kind \in ObjectKinds
  <2>1. r.at \in ObjectSlots(r) /\ r.kind \notin ScalarKinds /\ r.kind \notin ArrayKinds
    BY <1>6 DEF ObjectSlots, ObjectKinds, ScalarKinds, ArrayKinds
  <2>2. r.kind = "into" => r.count >= 0
    BY DEF RowHasRoom, HasRoom
  <2>3. o2[r.at] = o[r.at]
    BY <2>1
  <2>4. CASE r.kind = "text"
    <3>1. Stored(r, w, o) = o[r.at] /\ Stored(r, w2, o2) = o2[r.at]
      BY <2>4, StoredByKind
    <3> QED BY <1>3, <2>1, <2>3, <3>1 DEF Counted
  <2>5. CASE r.kind = "into"
    <3>1. /\ Stored(r, w, o) = SubSeq(o[r.at], 1, w[r.count])
          /\ Stored(r, w2, o2) = SubSeq(o2[r.at], 1, w2[r.count])
      BY <2>5, StoredByKind
    <3> QED BY <1>2, <1>3, <2>1, <2>2, <2>3, <2>5, <3>1 DEF Counted
  <2> QED BY <1>6, <2>4, <2>5 DEF ObjectKinds
<1>7. CASE r.kind \notin ScalarKinds \cup ArrayKinds \cup ObjectKinds
  <2>1. r.kind = "sequence" /\ r.kind \notin ArrayKinds
    BY <1>1, <1>7 DEF Kinds, ScalarKinds, ArrayKinds, ObjectKinds
  <2>2. Stored(r, w, o) = <<>> /\ Stored(r, w2, o2) = <<>>
    BY <2>1, StoredByKind
  <2> QED BY <1>3, <2>1, <2>2 DEF Counted
<1> QED BY <1>4, <1>5, <1>6, <1>7

LEMMA CopiedIs ==
  ASSUME NEW b \in Seq(Nat), NEW d \in Seq(Nat)
  PROVE  /\ Copied(b, d) \in Seq(Nat) /\ Len(Copied(b, d)) = Len(b)
         /\ Len(d) <= Len(b) => SubSeq(Copied(b, d), 1, Len(d)) = d
<1> DEFINE c == Copied(b, d)
<1>1. /\ Len(b) \in Nat /\ DOMAIN b = 1 .. Len(b) /\ \A k \in 1 .. Len(b) : b[k] \in Nat
      /\ Len(d) \in Nat /\ DOMAIN d = 1 .. Len(d) /\ \A k \in 1 .. Len(d) : d[k] \in Nat
  BY LenProperties, ElementOfSeq
<1>2. c = [k \in 1 .. Len(b) |-> IF k \in 1 .. Len(d) THEN d[k] ELSE b[k]]
  BY <1>1 DEF Copied
<1>3. c \in [1 .. Len(b) -> Nat]
  BY <1>1, <1>2
<1>4. c \in Seq(Nat) /\ Len(c) = Len(b)
  <2>1. PICK n : n = Len(b)
    OBVIOUS
  <2>2. n \in Nat /\ c \in [1 .. n -> Nat]
    BY <1>1, <1>3, <2>1
  <2> HIDE DEF c
  <2>3. c \in Seq(Nat)
    BY <2>2, SeqDef
  <2>4. Len(c) \in Nat /\ 1 .. Len(c) = 1 .. n
    BY <2>2, <2>3, LenProperties
  <2> QED BY <2>1, <2>2, <2>3, <2>4
<1>5. ASSUME Len(d) <= Len(b) PROVE SubSeq(c, 1, Len(d)) = d
  <2> DEFINE n == Len(d)
             s == SubSeq(c, 1, n)
  <2>1. n \in Int /\ n >= 0 /\ \A k \in 1 .. n : c[k] \in Nat /\ c[k] = d[k]
    BY <1>1, <1>2, <1>5
  <2>2. /\ s \in Seq(Nat) /\ Len(s) = IF 1 <= n THEN n - 1 + 1 ELSE 0
        /\ \A k \in 1 .. n - 1 + 1 : s[k] = c[1 + k - 1]
    <3> HIDE DEF n, c
    <3> QED BY <2>1, SubSeqProperties
  <2>3. n - 1 + 1 = n /\ \A k \in 1 .. n : 1 + k - 1 = k
    BY <2>1
  <2>4. Len(s) = n /\ \A k \in 1 .. Len(s) : s[k] = d[k]
    <3> HIDE DEF n, s, c
    <3> QED BY <2>1, <2>2, <2>3
  <2> QED BY <2>2, <2>4, SeqEqual
<1> QED BY <1>4, <1>5

(* A row whose own pairs have been written shows its default.              *)
LEMMA ShowsDefault ==
  ASSUME NEW r \in Row, RowHasRoom(r), NEW w, NEW o, NEW b,
         \A x \in OwnWords(r) : w[x[1]] = x[2],
         r.kind = "text" => o[r.at] = r.default,
         r.kind = "into" => b \in Seq(Nat) /\ Len(r.default) <= Len(b)
                            /\ o[r.at] = IF r.default = <<>> THEN b ELSE Copied(b, r.default)
  PROVE  Stored(r, w, o) = r.default /\ Arrivals(r, w) = 0 /\ Counted(r, w)
<1>1. /\ r.kind \in Kinds /\ r.at \in Nat /\ r.cap \in Nat /\ r.count \in Int
      /\ DOMAIN r.default = 1 .. Len(r.default) /\ Len(r.default) \in Nat
      /\ r.default \in Seq(Nat)
  BY RowFacts
<1>2. CASE r.kind \in ScalarKinds
  <2>1. Len(r.default) = 1 /\ r.kind \notin ArrayKinds
    BY <1>2 DEF RowHasRoom, HasRoom, ScalarKinds, ArrayKinds
  <2>2. OwnWords(r) = {<<r.at, r.default[1]>>} \cup (IF r.count < 0 THEN {} ELSE {<<r.count, 0>>})
    BY <1>1, <1>2, OwnByKind
  <2>3. <<r.at, r.default[1]>> \in OwnWords(r) /\ (~(r.count < 0) => <<r.count, 0>> \in OwnWords(r))
    BY <2>2
  <2>4. w[r.at] = r.default[1] /\ (~(r.count < 0) => w[r.count] = 0)
    BY <2>3
  <2>5. <<w[r.at]>> = r.default
    BY <1>1, <2>1, <2>4
  <2>6. Arrivals(r, w) = 0
    BY <2>4 DEF Arrivals
  <2>7. Stored(r, w, o) = <<w[r.at]>>
    BY <1>2, StoredByKind
  <2> QED BY <2>1, <2>5, <2>6, <2>7 DEF Counted
<1>3. CASE r.kind \in ArrayKinds
  <2>1. r.count >= 0 /\ Len(r.default) <= r.cap /\ r.kind \notin ScalarKinds
    BY <1>3 DEF RowHasRoom, HasRoom, ScalarKinds, ArrayKinds
  <2>2. OwnWords(r) = {<<r.at + k - 1, r.default[k]>> : k \in DOMAIN r.default}
                      \cup {<<r.count, Len(r.default)>>}
    <3>1. ~(r.count < 0)
      BY <1>1, <2>1
    <3> QED BY <1>1, <1>3, <3>1, OwnByKind
  <2>3. <<r.count, Len(r.default)>> \in OwnWords(r)
        /\ \A k \in 1 .. Len(r.default) : <<r.at + k - 1, r.default[k]>> \in OwnWords(r)
    BY <1>1, <2>2
  <2>4. w[r.count] = Len(r.default)
        /\ \A k \in 1 .. Len(r.default) : w[r.at + k - 1] = r.default[k]
    BY <2>3
  <2>5. Stored(r, w, o) = [k \in 1 .. Len(r.default) |-> w[r.at + k - 1]]
    <3>1. PICK n : n = Len(r.default)
      OBVIOUS
    <3>2. Stored(r, w, o) = [k \in 1 .. w[r.count] |-> w[r.at + k - 1]]
      BY <1>3, StoredByKind
    <3> QED BY <2>4, <3>1, <3>2
  <2>6. Stored(r, w, o) = [k \in 1 .. Len(r.default) |-> r.default[k]]
    BY <2>4, <2>5
  <2>7. r.default = [k \in 1 .. Len(r.default) |-> r.default[k]]
    BY <1>1, LenProperties
  <2>8. Arrivals(r, w) = 0
    BY <1>3 DEF Arrivals
  <2>9. Counted(r, w)
    BY <1>1, <2>1, <2>4 DEF Counted
  <2> QED BY <2>6, <2>7, <2>8, <2>9
<1>4. CASE r.kind \notin ScalarKinds \cup ArrayKinds
  <2>2. OwnWords(r) = IF r.count < 0 THEN {}
                      ELSE {<<r.count, IF r.kind = "into" THEN Len(r.default) ELSE 0>>}
    BY <1>1, <1>4, OwnByKind
  <2>3. r.count >= 0 => w[r.count] = IF r.kind = "into" THEN Len(r.default) ELSE 0
    <3>1. r.count >= 0 =>
            <<r.count, IF r.kind = "into" THEN Len(r.default) ELSE 0>> \in OwnWords(r)
      BY <1>1, <2>2
    <3> QED BY <3>1
  <2>4. Arrivals(r, w) = 0
    BY <1>1, <2>3 DEF Arrivals
  <2>5. Counted(r, w)
    BY <1>4 DEF Counted
  <2>6. CASE r.kind = "text"
    BY <2>4, <2>5, <2>6, StoredByKind
  <2>7. CASE r.kind = "into"
    <3>1. r.count >= 0 /\ w[r.count] = Len(r.default)
      BY <2>3, <2>7 DEF RowHasRoom, HasRoom
    <3>2. Stored(r, w, o) = SubSeq(o[r.at], 1, Len(r.default))
      BY <2>7, <3>1, StoredByKind
    <3>3. SubSeq(o[r.at], 1, Len(r.default)) = r.default
      <4>1. CASE r.default = <<>>
        <5>1. Len(r.default) = 0
          BY <4>1
        <5> QED BY <4>1, <5>1, SubSeqEmpty
      <4>2. CASE r.default # <<>>
        BY <1>1, <2>7, <4>2, CopiedIs
      <4> QED BY <4>1, <4>2
    <3> QED BY <2>4, <2>5, <3>2, <3>3
  <2>8. CASE r.kind \notin {"text", "into"}
    <3>1. r.kind = "sequence"
      BY <1>1, <1>4, <2>8 DEF Kinds, ScalarKinds, ArrayKinds
    <3>2. r.default = <<>>
      BY <3>1 DEF RowHasRoom, HasRoom
    <3> QED BY <2>4, <2>5, <3>1, <3>2, StoredByKind
  <2> QED BY <2>6, <2>7, <2>8
<1> QED BY <1>2, <1>3, <1>4

LEMMA OverlayIs ==
  ASSUME NEW w, NEW pairs, NEW s \in DOMAIN w
  PROVE  /\ DOMAIN Overlay(w, pairs) = DOMAIN w
         /\ (\A p \in pairs : p[1] # s) => Overlay(w, pairs)[s] = w[s]
         /\ \A v : (\E p \in pairs : p[1] = s) /\ (\A p \in pairs : p[1] = s => p[2] = v)
                     => Overlay(w, pairs)[s] = v
<1>1. Overlay(w, pairs)[s] = IF \E p \in pairs : p[1] = s
                             THEN (CHOOSE p \in pairs : p[1] = s)[2] ELSE w[s]
  BY DEF Overlay
<1>2. ASSUME NEW v, \E p \in pairs : p[1] = s, \A p \in pairs : p[1] = s => p[2] = v
      PROVE  Overlay(w, pairs)[s] = v
  <2>1. PICK p : p = CHOOSE q \in pairs : q[1] = s
    OBVIOUS
  <2>2. p \in pairs /\ p[1] = s
    BY <1>2, <2>1
  <2> QED BY <1>1, <1>2, <2>1, <2>2
<1> QED BY <1>1, <1>2 DEF Overlay

LEMMA OverlayIntoIs ==
  ASSUME NEW o, NEW pairs, NEW s \in DOMAIN o
  PROVE  /\ DOMAIN OverlayInto(o, pairs) = DOMAIN o
         /\ (\A p \in pairs : p[1] # s) => OverlayInto(o, pairs)[s] = o[s]
         /\ \A v : (\E p \in pairs : p[1] = s) /\ (\A p \in pairs : p[1] = s => p[2] = v)
                     => OverlayInto(o, pairs)[s] = Copied(o[s], v)
         /\ \/ OverlayInto(o, pairs)[s] = o[s]
            \/ \E p \in pairs : p[1] = s /\ OverlayInto(o, pairs)[s] = Copied(o[s], p[2])
<1>1. OverlayInto(o, pairs)[s] = IF \E p \in pairs : p[1] = s
                                 THEN Copied(o[s], (CHOOSE p \in pairs : p[1] = s)[2]) ELSE o[s]
  BY DEF OverlayInto
<1>2. ASSUME \E p \in pairs : p[1] = s
      PROVE  \E p \in pairs : p[1] = s /\ OverlayInto(o, pairs)[s] = Copied(o[s], p[2])
  <2>1. PICK p : p = CHOOSE q \in pairs : q[1] = s
    OBVIOUS
  <2>2. p \in pairs /\ p[1] = s
    BY <1>2, <2>1
  <2> QED BY <1>1, <1>2, <2>1, <2>2
<1> QED BY <1>1, <1>2 DEF OverlayInto

-----------------------------------------------------------------------------
(* What the prepared reset of an option writes.                            *)

LEMMA FreshRowsAre ==
  ASSUME TablesFormTree, NEW h, NEW place \in Places, StartsAfresh(h, place), NEW x
  PROVE  (x = RowAt[place] \/ \E t \in FreshTables(T, RowAt[place]) : x \in FreshRows(T, t))
           <=> \E l \in FreshPlaces(h, place) : x = RowAt[l]
<1>1. FreshTables(T, RowAt[place]) = {Tab(q) : q \in FreshPaths(h, place)}
  BY FreshTablesAre
<1>2. place \in FreshPlaces(h, place)
  <2>1. place \in Seq(Nat)
    BY PlaceIs
  <2> QED BY <2>1, UnderStep DEF FreshPlaces, StartsAfresh
<1>3. ASSUME NEW q \in FreshPaths(h, place), x \in FreshRows(T, Tab(q))
      PROVE  \E l \in FreshPlaces(h, place) : x = RowAt[l]
  BY <1>3, FreshBelow
<1>4. ASSUME NEW l \in FreshPlaces(h, place), l # place
      PROVE  \E q \in FreshPaths(h, place) : RowAt[l] \in FreshRows(T, Tab(q))
  BY <1>4, FreshAbove
<1> QED BY <1>1, <1>2, <1>3, <1>4

LEMMA ResetIs ==
  ASSUME TablesFormTree, NEW h, NEW place \in Places, StartsAfresh(h, place), NEW x
  PROVE  /\ x \in ResetWords(T, RowAt[place]) <=>
              \/ \E l \in FreshPlaces(h, place) : x \in OwnWords(RowAt[l])
              \/ \E u \in Unions \cap FreshPaths(h, place) :
                   x = <<TableAt[u].which, TableAt[u].first>>
         /\ x \in ResetObjects(T, RowAt[place]) <=>
              \E l \in FreshPlaces(h, place) : x \in OwnObjects(RowAt[l])
         /\ x \in ResetInto(T, RowAt[place]) <=>
              \E l \in FreshPlaces(h, place) : x \in OwnInto(RowAt[l])
<1> DEFINE r == RowAt[place]
           Held(q) == q = r \/ \E t \in FreshTables(T, r) : q \in FreshRows(T, t)
<1>1. \A q : Held(q) <=> \E l \in FreshPlaces(h, place) : q = RowAt[l]
  BY FreshRowsAre
<1>2. x \in Replayed(T, r, OwnWords) <=> \E q : Held(q) /\ x \in OwnWords(q)
  <2>1. x \in Replayed(T, r, OwnWords) <=>
          \/ x \in OwnWords(r)
          \/ \E t \in FreshTables(T, r) : \E q \in FreshRows(T, t) : x \in OwnWords(q)
    BY DEF Replayed
  <2> QED BY <2>1, Zenon
<1>3. x \in Replayed(T, r, OwnObjects) <=> \E q : Held(q) /\ x \in OwnObjects(q)
  <2>1. x \in Replayed(T, r, OwnObjects) <=>
          \/ x \in OwnObjects(r)
          \/ \E t \in FreshTables(T, r) : \E q \in FreshRows(T, t) : x \in OwnObjects(q)
    BY DEF Replayed
  <2> QED BY <2>1, Zenon
<1>4. x \in Replayed(T, r, OwnInto) <=> \E q : Held(q) /\ x \in OwnInto(q)
  <2>1. x \in Replayed(T, r, OwnInto) <=>
          \/ x \in OwnInto(r)
          \/ \E t \in FreshTables(T, r) : \E q \in FreshRows(T, t) : x \in OwnInto(q)
    BY DEF Replayed
  <2> QED BY <2>1, Zenon
<1>5. x \in {<<T[t].which, T[t].first>> : t \in {u \in FreshTables(T, r) : T[u].which >= 0}}
      <=> \E u \in Unions \cap FreshPaths(h, place) :
            x = <<TableAt[u].which, TableAt[u].first>>
  <2>1. FreshTables(T, r) = {Tab(q) : q \in FreshPaths(h, place)}
    BY FreshTablesAre
  <2>2. ASSUME NEW q \in FreshPaths(h, place)
        PROVE  TableAt[q] = T[Tab(q)] /\ (q \in Unions <=> T[Tab(q)].which >= 0)
    BY PathIsScope DEF FreshPaths
  <2> HIDE DEF r
  <2>3. ASSUME NEW t \in FreshTables(T, r), T[t].which >= 0, x = <<T[t].which, T[t].first>>
        PROVE  \E u \in Unions \cap FreshPaths(h, place) :
                 x = <<TableAt[u].which, TableAt[u].first>>
    <3>1. PICK q \in FreshPaths(h, place) : t = Tab(q)
      BY <2>1
    <3> QED BY <2>2, <2>3, <3>1
  <2>4. ASSUME NEW u \in Unions \cap FreshPaths(h, place),
               x = <<TableAt[u].which, TableAt[u].first>>
        PROVE  \E t \in FreshTables(T, r) : T[t].which >= 0 /\ x = <<T[t].which, T[t].first>>
    <3>1. Tab(u) \in FreshTables(T, r)
      BY <2>1
    <3> QED BY <2>2, <2>4, <3>1
  <2> QED BY <2>3, <2>4
<1> HIDE DEF Held, r
<1>6. x \in ResetWords(T, r) <=>
        \/ x \in Replayed(T, r, OwnWords)
        \/ x \in {<<T[t].which, T[t].first>> : t \in {u \in FreshTables(T, r) : T[u].which >= 0}}
  BY Zenon DEF ResetWords
<1>7. x \in ResetWords(T, r) <=>
              \/ \E l \in FreshPlaces(h, place) : x \in OwnWords(RowAt[l])
              \/ \E u \in Unions \cap FreshPaths(h, place) :
                   x = <<TableAt[u].which, TableAt[u].first>>
  <2>1. (\E q : Held(q) /\ x \in OwnWords(q)) <=> \E l \in FreshPlaces(h, place) : x \in OwnWords(RowAt[l])
    BY <1>1, Zenon
  <2> QED BY <1>2, <1>5, <1>6, <2>1, Zenon
<1>8. x \in ResetObjects(T, r) <=> \E l \in FreshPlaces(h, place) : x \in OwnObjects(RowAt[l])
  BY <1>1, <1>3, Zenon DEF ResetObjects
<1>9. x \in ResetInto(T, r) <=> \E l \in FreshPlaces(h, place) : x \in OwnInto(RowAt[l])
  BY <1>1, <1>4, Zenon DEF ResetInto
<1> QED BY <1>7, <1>8, <1>9 DEF r

(* Of its pairs, those on the slots of a place that is reached afterwards  *)
(* are the place's own, and it lies below the option.                      *)
LEMMA ResetAtPlace ==
  ASSUME Laid(Words0, Objects0), NEW h, NEW place \in Places, StartsAfresh(h, place),
         NEW l \in Places, Reads(h, l)
  PROVE  /\ \A x \in ResetWords(T, RowAt[place]) :
              x[1] \in WordSlots(RowAt[l]) => Under(place, l) /\ x \in OwnWords(RowAt[l])
         /\ \A x \in ResetObjects(T, RowAt[place]) :
              x[1] \in ObjectSlots(RowAt[l]) => Under(place, l) /\ x \in OwnObjects(RowAt[l])
         /\ \A x \in ResetInto(T, RowAt[place]) :
              x[1] \in ObjectSlots(RowAt[l]) => Under(place, l) /\ x \in OwnInto(RowAt[l])
<1>1. TablesFormTree /\ SlotsApart /\ \A m \in Places : RowHasRoom(RowAt[m])
  BY DEF Laid, RowHasRoom
<1>2. ASSUME NEW m \in FreshPlaces(h, place), m # l
      PROVE  /\ WordSlots(RowAt[l]) \cap WordSlots(RowAt[m]) = {}
             /\ ObjectSlots(RowAt[l]) \cap ObjectSlots(RowAt[m]) = {}
  <2>1. m \in Places /\ Reads(h, m)
    BY DEF FreshPlaces
  <2>2. ~Apart(l, m)
    BY <2>1, ReadsTogether
  <2> QED BY <1>1, <1>2, <2>1, <2>2 DEF SlotsApart
<1>3. ASSUME NEW x \in ResetWords(T, RowAt[place]), x[1] \in WordSlots(RowAt[l])
      PROVE  Under(place, l) /\ x \in OwnWords(RowAt[l])
  <2>1. CASE \E m \in FreshPlaces(h, place) : x \in OwnWords(RowAt[m])
    <3>1. PICK m \in FreshPlaces(h, place) : x \in OwnWords(RowAt[m])
      BY <2>1
    <3>2. m \in Places /\ RowAt[m] \in Row /\ RowHasRoom(RowAt[m]) /\ Under(place, m)
      BY <1>1, PlaceIs DEF FreshPlaces
    <3>3. x[1] \in WordSlots(RowAt[m])
      BY <3>1, <3>2, OwnWordsAre
    <3>4. m = l
      BY <1>2, <1>3, <3>3
    <3> QED BY <3>1, <3>2, <3>4
  <2>2. CASE \E u \in Unions \cap FreshPaths(h, place) :
               x = <<TableAt[u].which, TableAt[u].first>>
    <3>1. PICK u \in Unions \cap FreshPaths(h, place) :
                 x = <<TableAt[u].which, TableAt[u].first>>
      BY <2>2
    <3>2. ~Apart(u, l)
      BY ReadsTogether DEF FreshPaths
    <3>3. TableAt[u].which \notin WordSlots(RowAt[l])
      BY <1>1, <3>2 DEF SlotsApart
    <3> QED BY <1>3, <3>1, <3>3
  <2> QED BY <1>1, <2>1, <2>2, ResetIs
<1>4. ASSUME NEW m \in Places, NEW x \in OwnObjects(RowAt[m]) \cup OwnInto(RowAt[m])
      PROVE  x[1] \in ObjectSlots(RowAt[m])
  BY DEF OwnObjects, OwnInto, ObjectSlots, ObjectKinds
<1>5. ASSUME NEW x \in ResetObjects(T, RowAt[place]), x[1] \in ObjectSlots(RowAt[l])
      PROVE  Under(place, l) /\ x \in OwnObjects(RowAt[l])
  <2>1. PICK m \in FreshPlaces(h, place) : x \in OwnObjects(RowAt[m])
    BY <1>1, ResetIs
  <2>2. m \in Places /\ Under(place, m)
    BY DEF FreshPlaces
  <2>3. m = l
    BY <1>2, <1>4, <1>5, <2>1, <2>2
  <2> QED BY <2>1, <2>2, <2>3
<1>6. ASSUME NEW x \in ResetInto(T, RowAt[place]), x[1] \in ObjectSlots(RowAt[l])
      PROVE  Under(place, l) /\ x \in OwnInto(RowAt[l])
  <2>1. PICK m \in FreshPlaces(h, place) : x \in OwnInto(RowAt[m])
    BY <1>1, ResetIs
  <2>2. m \in Places /\ Under(place, m)
    BY DEF FreshPlaces
  <2>3. m = l
    BY <1>2, <1>4, <1>6, <2>1, <2>2
  <2> QED BY <2>1, <2>2, <2>3
<1> QED BY <1>3, <1>5, <1>6

(* The same of the slot of a union.                                        *)
LEMMA ResetAtUnion ==
  ASSUME Laid(Words0, Objects0), NEW h, NEW place \in Places, StartsAfresh(h, place),
         NEW u \in Unions, Reads(h, u), NEW x \in ResetWords(T, RowAt[place]),
         x[1] = TableAt[u].which
  PROVE  Under(place, u) /\ x[2] = TableAt[u].first
<1>1. TablesFormTree /\ SlotsApart /\ \A m \in Places : RowHasRoom(RowAt[m])
  BY DEF Laid, RowHasRoom
<1>2. ASSUME NEW m \in FreshPlaces(h, place), x \in OwnWords(RowAt[m])
      PROVE  FALSE
  <2>1. m \in Places /\ RowAt[m] \in Row /\ RowHasRoom(RowAt[m]) /\ Reads(h, m)
    BY <1>1, PlaceIs DEF FreshPlaces
  <2>2. x[1] \in WordSlots(RowAt[m])
    BY <1>2, <2>1, OwnWordsAre
  <2>3. ~Apart(u, m)
    BY <2>1, ReadsTogether
  <2> QED BY <1>1, <2>1, <2>2, <2>3 DEF SlotsApart
<1>3. PICK v \in Unions \cap FreshPaths(h, place) : x = <<TableAt[v].which, TableAt[v].first>>
  BY <1>1, <1>2, ResetIs
<1>4. ~Apart(u, v) /\ Under(place, v)
  BY ReadsTogether DEF FreshPaths
<1>5. u = v
  BY <1>1, <1>3, <1>4 DEF SlotsApart
<1> QED BY <1>3, <1>4, <1>5

-----------------------------------------------------------------------------
(* Selecting an option.                                                    *)

Right(h, l, w, o) == Shows(h, l, w, o) /\ Counted(RowAt[l], w)

(* The storage shows the tree, but for the places X.                       *)
AllRight(h, w, o, X) ==
  /\ \A l \in Places \ X : Reads(h, l) => Right(h, l, w, o)
  /\ \A u \in Unions : Reads(h, u) => ShowsOption(h, u, w)

IsTree(h) ==
  /\ h = [val |-> h.val, seen |-> h.seen, opt |-> h.opt]
  /\ h.val  = [l \in Places |-> h.val[l]]
  /\ h.seen = [l \in Places |-> h.seen[l]]
  /\ h.opt  = [u \in Unions |-> h.opt[u]]

(* The caller's buffers stay buffers, of the length they have.             *)
Shaped(w, o) ==
  /\ DOMAIN w = DOMAIN Words0 /\ DOMAIN o = DOMAIN Objects0
  /\ \A l \in Places : RowAt[l].kind = "into" =>
       o[RowAt[l].at] \in Seq(Nat) /\ Len(o[RowAt[l].at]) = Len(Objects0[RowAt[l].at])

Switched(h, p, i) ==
  [val  |-> [l \in Places |-> IF Under(Append(p, i), l) THEN RowAt[l].default ELSE h.val[l]],
   seen |-> [l \in Places |-> IF Under(Append(p, i), l) THEN 0 ELSE h.seen[l]],
   opt  |-> [u \in Unions |-> IF u = p THEN i
                              ELSE IF Under(Append(p, i), u) THEN TableAt[u].first
                              ELSE h.opt[u]]]

LEMMA SelectedIs ==
  ASSUME NEW h, NEW p \in Seq(Nat), NEW i \in Nat
  PROVE  Selected(h, Append(p, i)) =
           IF p \notin Unions \/ h.opt[p] = i THEN h ELSE Switched(h, p, i)
<1>1. Front(Append(p, i)) = p /\ Last(Append(p, i)) = i
  BY StepDown
<1>2. PICK place : place = Append(p, i)
  OBVIOUS
<1>3. Front(place) = p /\ Last(place) = i
  BY <1>1, <1>2
<1>4. Selected(h, place) =
        IF p \notin Unions \/ h.opt[p] = i THEN h
        ELSE [val  |-> [l \in Places |-> IF Under(place, l) THEN RowAt[l].default ELSE h.val[l]],
              seen |-> [l \in Places |-> IF Under(place, l) THEN 0 ELSE h.seen[l]],
              opt  |-> [u \in Unions |-> IF u = p THEN i
                                         ELSE IF Under(place, u) THEN TableAt[u].first
                                         ELSE h.opt[u]]]
  BY <1>3, Zenon DEF Selected
<1> QED BY <1>2, <1>4 DEF Switched

LEMMA SwitchedIs ==
  ASSUME NEW h, NEW p, NEW i
  PROVE  LET h2 == Switched(h, p, i) IN
         /\ IsTree(h2)
         /\ \A l \in Places :
              /\ h2.val[l] = IF Under(Append(p, i), l) THEN RowAt[l].default ELSE h.val[l]
              /\ h2.seen[l] = IF Under(Append(p, i), l) THEN 0 ELSE h.seen[l]
         /\ \A u \in Unions :
              h2.opt[u] = IF u = p THEN i
                          ELSE IF Under(Append(p, i), u) THEN TableAt[u].first ELSE h.opt[u]
BY DEF Switched, IsTree

LEMMA SwitchedReads ==
  ASSUME TablesFormTree, NEW h, NEW p \in Paths, NEW i \in DOMAIN TableAt[p].rows,
         p \in Unions, Reads(h, p)
  PROVE  LET h2 == Switched(h, p, i) IN
         /\ StartsAfresh(h2, Append(p, i)) /\ Reads(h2, p)
         /\ \A q \in Seq(Nat) : ~Under(Append(p, i), q) /\ Reads(h2, q) => Reads(h, q)
<1> DEFINE h2    == Switched(h, p, i)
           place == Append(p, i)
<1>1. p \in Seq(Nat) /\ i \in Nat /\ place \in Seq(Nat) /\ Len(place) = Len(p) + 1
  BY PathIsScope, StepDown
<1>2. \A u \in Unions : u \in Seq(Nat)
  BY UnionIsPath
<1>3. \A u \in Unions : h2.opt[u] = IF u = p THEN i
                          ELSE IF Under(place, u) THEN TableAt[u].first ELSE h.opt[u]
  BY SwitchedIs
<1>4. ASSUME NEW u \in Unions, Under(place, u) PROVE u # p /\ ~Above(u, p)
  <2>1. Len(place) <= Len(u) /\ Len(u) \in Nat /\ Len(p) \in Nat
    BY <1>1, <1>2, <1>4, LenProperties DEF Under
  <2> QED BY <1>1, <2>1 DEF Above
<1> HIDE DEF h2
<1>5. Reads(h2, p)
  <2> SUFFICES ASSUME NEW u \in Unions, Above(u, p) PROVE h2.opt[u] = p[Len(u) + 1]
    BY DEF Reads
  <2>1. u # p
    <3> SUFFICES ASSUME u = p PROVE FALSE
      OBVIOUS
    <3>1. Len(p) \in Nat BY <1>1, LenProperties
    <3> QED BY <3>1 DEF Above
  <2>2. h2.opt[u] = h.opt[u]
    BY <1>3, <1>4, <2>1
  <2> QED BY <2>2 DEF Reads
<1>6. StartsAfresh(h2, place)
  <2>1. Reads(h2, place)
    BY <1>1, <1>3, <1>5, ReadsStep
  <2> QED BY <1>3, <1>4, <2>1 DEF StartsAfresh
<1>7. ASSUME NEW q \in Seq(Nat), ~Under(place, q), Reads(h2, q)
      PROVE  Reads(h, q)
  <2> SUFFICES ASSUME NEW u \in Unions, Above(u, q) PROVE h.opt[u] = q[Len(u) + 1]
    BY DEF Reads
  <2>1. h2.opt[u] = q[Len(u) + 1]
    BY <1>7 DEF Reads
  <2>2. u # p
    <3> SUFFICES ASSUME u = p PROVE FALSE
      OBVIOUS
    <3>1. q[Len(p) + 1] = i /\ Above(p, q)
      BY <1>3, <2>1
    <3> QED BY <1>1, <1>7, <3>1, UnderStep
  <2>3. ~Under(place, u)
    <3> SUFFICES ASSUME Under(place, u) PROVE FALSE
      OBVIOUS
    <3>1. Under(u, q)
      BY DEF Above
    <3> QED BY <1>1, <1>2, <1>7, <3>1, InLine
  <2> QED BY <1>3, <2>1, <2>2, <2>3
<1> QED BY <1>5, <1>6, <1>7 DEF h2

(* The words and objects after a switch, at a place that is then reached.  *)
LEMMA ResetShows ==
  ASSUME Laid(Words0, Objects0), NEW h, NEW place \in Places, StartsAfresh(h, place),
         NEW l \in Places, Reads(h, l), NEW w, NEW o, Shaped(w, o)
  PROVE  LET r  == RowAt[place]
             w2 == Overlay(w, ResetWords(T, r))
             o2 == OverlayInto(Overlay(o, ResetObjects(T, r)), ResetInto(T, r))
         IN /\ ~Under(place, l) => /\ \A s \in WordSlots(RowAt[l]) : w2[s] = w[s]
                                   /\ \A s \in ObjectSlots(RowAt[l]) : o2[s] = o[s]
            /\ Under(place, l) =>
                 /\ \A x \in OwnWords(RowAt[l]) : w2[x[1]] = x[2]
                 /\ RowAt[l].kind = "text" => o2[RowAt[l].at] = RowAt[l].default
                 /\ RowAt[l].kind = "into" =>
                      o2[RowAt[l].at] = IF RowAt[l].default = <<>> THEN o[RowAt[l].at]
                                        ELSE Copied(o[RowAt[l].at], RowAt[l].default)
<1> DEFINE r == RowAt[place]
           W == ResetWords(T, r)
           O == ResetObjects(T, r)
           I == ResetInto(T, r)
           w2 == Overlay(w, W)
           o1 == Overlay(o, O)
           o2 == OverlayInto(o1, I)
           row == RowAt[l]
<1>1. /\ TablesFormTree /\ row \in Row /\ RowHasRoom(row)
      /\ DOMAIN w = DOMAIN Words0 /\ DOMAIN o = DOMAIN Objects0
      /\ WordSlots(row) \subseteq DOMAIN w /\ ObjectSlots(row) \subseteq DOMAIN o
  BY PlaceIs DEF Laid, RowHasRoom, HasRoom, Shaped
<1>2. /\ \A x \in W : x[1] \in WordSlots(row) => Under(place, l) /\ x \in OwnWords(row)
      /\ \A x \in O : x[1] \in ObjectSlots(row) => Under(place, l) /\ x \in OwnObjects(row)
      /\ \A x \in I : x[1] \in ObjectSlots(row) => Under(place, l) /\ x \in OwnInto(row)
  BY ResetAtPlace
<1>3. DOMAIN o1 = DOMAIN o
  BY DEF Overlay
<1>4. ASSUME ~Under(place, l)
      PROVE  /\ \A s \in WordSlots(row) : w2[s] = w[s]
             /\ \A s \in ObjectSlots(row) : o2[s] = o[s]
  <2> HIDE DEF W, O, I
  <2>1. ASSUME NEW s \in WordSlots(row) PROVE w2[s] = w[s]
    <3>1. s \in DOMAIN w /\ \A x \in W : x[1] # s
      BY <1>1, <1>2, <1>4
    <3> QED BY <3>1, OverlayIs
  <2>2. ASSUME NEW s \in ObjectSlots(row) PROVE o2[s] = o[s]
    <3>1. s \in DOMAIN o /\ (\A x \in O : x[1] # s) /\ \A x \in I : x[1] # s
      BY <1>1, <1>2, <1>4
    <3>2. o1[s] = o[s]
      BY <3>1, OverlayIs
    <3> HIDE DEF o1
    <3> QED BY <1>3, <3>1, <3>2, OverlayIntoIs
  <2> QED BY <2>1, <2>2
<1>5. ASSUME Under(place, l)
      PROVE  /\ \A x \in OwnWords(row) : w2[x[1]] = x[2]
             /\ row.kind = "text" => o2[row.at] = row.default
             /\ row.kind = "into" =>
                  o2[row.at] = IF row.default = <<>> THEN o[row.at]
                               ELSE Copied(o[row.at], row.default)
  <2>1. l \in FreshPlaces(h, place)
    BY <1>5 DEF FreshPlaces
  <2>2. /\ OwnWords(row) \subseteq W /\ OwnObjects(row) \subseteq O
        /\ OwnInto(row) \subseteq I
    BY <1>1, <2>1, ResetIs
  <2> HIDE DEF W, O, I, row
  <2>3. ASSUME NEW x \in OwnWords(row) PROVE w2[x[1]] = x[2]
    <3>1. x[1] \in WordSlots(row) /\ x[1] \in DOMAIN w /\ x \in W
      BY <1>1, <2>2, OwnWordsAre
    <3>2. \A y \in W : y[1] = x[1] => y[2] = x[2]
      <4> SUFFICES ASSUME NEW y \in W, y[1] = x[1] PROVE y[2] = x[2]
        OBVIOUS
      <4>1. y \in OwnWords(row)
        BY <1>2, <3>1
      <4> QED BY <1>1, <4>1, OwnWordsAre
    <3> QED BY <3>1, <3>2, OverlayIs
  <2>4. ASSUME row.kind = "text" PROVE o2[row.at] = row.default
    <3>1. /\ ObjectSlots(row) = {row.at} /\ OwnObjects(row) = {<<row.at, row.default>>}
          /\ OwnInto(row) = {}
      BY <2>4 DEF ObjectSlots, OwnObjects, OwnInto, ObjectKinds
    <3>2. row.at \in DOMAIN o /\ <<row.at, row.default>> \in O
      BY <1>1, <2>2, <3>1
    <3>3. \A x \in O : x[1] = row.at => x[2] = row.default
      BY <1>2, <3>1
    <3>4. <<row.at, row.default>>[1] = row.at
      OBVIOUS
    <3>5. o1[row.at] = row.default
      BY <3>2, <3>3, <3>4, OverlayIs
    <3>6. \A x \in I : x[1] # row.at
      BY <1>2, <3>1
    <3> HIDE DEF o1
    <3> QED BY <1>3, <3>2, <3>5, <3>6, OverlayIntoIs
  <2>5. ASSUME row.kind = "into"
        PROVE  o2[row.at] = IF row.default = <<>> THEN o[row.at]
                            ELSE Copied(o[row.at], row.default)
    <3>1. /\ ObjectSlots(row) = {row.at} /\ OwnObjects(row) = {}
          /\ OwnInto(row) = IF row.default # <<>> THEN {<<row.at, row.default>>} ELSE {}
      BY <2>5 DEF ObjectSlots, OwnObjects, OwnInto, ObjectKinds
    <3>2. row.at \in DOMAIN o /\ \A x \in O : x[1] # row.at
      BY <1>1, <1>2, <3>1
    <3>3. o1[row.at] = o[row.at]
      BY <3>2, OverlayIs
    <3> HIDE DEF o1
    <3>4. CASE row.default = <<>>
      <4>1. \A x \in I : x[1] # row.at
        BY <1>2, <3>1, <3>4
      <4> QED BY <1>3, <3>2, <3>3, <3>4, <4>1, OverlayIntoIs
    <3>5. CASE row.default # <<>>
      <4>1. <<row.at, row.default>> \in I /\ <<row.at, row.default>>[1] = row.at
        BY <2>2, <3>1, <3>5
      <4>2. \A x \in I : x[1] = row.at => x[2] = row.default
        BY <1>2, <3>1, <3>5
      <4>3. o2[row.at] = Copied(o1[row.at], row.default)
        BY <1>3, <3>2, <4>1, <4>2, OverlayIntoIs
      <4> QED BY <3>3, <3>5, <4>3
    <3> QED BY <3>4, <3>5
  <2> QED BY <2>3, <2>4, <2>5
<1> QED BY <1>4, <1>5

(* A reset leaves the buffers their lengths.                               *)
LEMMA ResetShapes ==
  ASSUME Laid(Words0, Objects0), NEW h, NEW place \in Places, StartsAfresh(h, place),
         NEW w, NEW o, Shaped(w, o)
  PROVE  Shaped(Overlay(w, ResetWords(T, RowAt[place])),
                OverlayInto(Overlay(o, ResetObjects(T, RowAt[place])),
                            ResetInto(T, RowAt[place])))
<1> DEFINE O  == ResetObjects(T, RowAt[place])
           I  == ResetInto(T, RowAt[place])
           w2 == Overlay(w, ResetWords(T, RowAt[place]))
           o1 == Overlay(o, O)
           o2 == OverlayInto(o1, I)
<1>1. /\ TablesFormTree /\ SlotsApart /\ \A m \in Places : RowHasRoom(RowAt[m])
      /\ DOMAIN o = DOMAIN Objects0 /\ DOMAIN w = DOMAIN Words0
  BY DEF Laid, RowHasRoom, Shaped
<1>2. DOMAIN w2 = DOMAIN Words0 /\ DOMAIN o1 = DOMAIN Objects0
  BY <1>1 DEF Overlay
<1>3. DOMAIN o2 = DOMAIN Objects0
  <2> HIDE DEF o1
  <2> QED BY <1>2 DEF OverlayInto
<1>4. ASSUME NEW l \in Places, RowAt[l].kind = "into"
      PROVE  /\ o2[RowAt[l].at] \in Seq(Nat)
             /\ Len(o2[RowAt[l].at]) = Len(Objects0[RowAt[l].at])
  <2> DEFINE s == RowAt[l].at
             b == o[s]
  <2>1. b \in Seq(Nat) /\ Len(b) = Len(Objects0[s])
    BY <1>4 DEF Shaped
  <2>2. s \in DOMAIN o
    <3>1. RowHasRoom(RowAt[l]) /\ s \in ObjectSlots(RowAt[l])
      BY <1>1, <1>4 DEF ObjectSlots, ObjectKinds
    <3> QED BY <1>1, <3>1 DEF RowHasRoom, HasRoom
  <2>3. \A x \in O : x[1] # s
    <3> SUFFICES ASSUME NEW x \in O PROVE x[1] # s
      OBVIOUS
    <3>1. PICK m \in FreshPlaces(h, place) : x \in OwnObjects(RowAt[m])
      BY <1>1, ResetIs
    <3>2. m \in Places /\ RowAt[m].kind = "text" /\ x[1] = RowAt[m].at
      BY <3>1 DEF OwnObjects, FreshPlaces
    <3> QED BY <1>1, <1>4, <3>2 DEF SlotsApart
  <2>4. o1[s] = b
    <3> HIDE DEF O, s
    <3> QED BY <2>2, <2>3, OverlayIs
  <2>5. \A x \in I : x[2] \in Seq(Nat)
    <3> SUFFICES ASSUME NEW x \in I PROVE x[2] \in Seq(Nat)
      OBVIOUS
    <3>1. PICK m \in FreshPlaces(h, place) : x \in OwnInto(RowAt[m])
      BY <1>1, ResetIs
    <3>2. x[2] = RowAt[m].default /\ RowAt[m] \in Row
      BY <1>1, <3>1, PlaceIs DEF OwnInto, FreshPlaces
    <3> QED BY <3>2, RowFacts
  <2>6. o2[s] = b \/ \E x \in I : o2[s] = Copied(b, x[2])
    <3> HIDE DEF o1, I, s, b
    <3> QED BY <1>1, <1>2, <2>2, <2>4, OverlayIntoIs
  <2> HIDE DEF b, o2, I, s
  <2>7. o2[s] \in Seq(Nat) /\ Len(o2[s]) = Len(Objects0[s])
    BY <2>1, <2>5, <2>6, CopiedIs
  <2> QED BY <2>7 DEF s
<1> QED BY <1>2, <1>3, <1>4 DEF Shaped

LEMMA SwitchStep ==
  ASSUME Laid(Words0, Objects0), NEW h, NEW p \in Paths, NEW i \in DOMAIN TableAt[p].rows,
         p \in Unions, Reads(h, p),
         NEW w, NEW o, NEW X, Shaped(w, o), AllRight(h, w, o, X)
  PROVE  LET r  == RowAt[Append(p, i)]
             w2 == [Overlay(w, ResetWords(T, r)) EXCEPT ![TableAt[p].which] = i]
             o2 == OverlayInto(Overlay(o, ResetObjects(T, r)), ResetInto(T, r))
         IN AllRight(Switched(h, p, i), w2, o2, X) /\ Shaped(w2, o2)
<1> DEFINE place == Append(p, i)
           r  == RowAt[place]
           h2 == Switched(h, p, i)
           W  == ResetWords(T, r)
           w1 == Overlay(w, W)
           at == TableAt[p].which
           w2 == [w1 EXCEPT ![at] = i]
           o2 == OverlayInto(Overlay(o, ResetObjects(T, r)), ResetInto(T, r))
<1>1. /\ TablesFormTree /\ SlotsApart /\ \A l \in Places : RowHasRoom(RowAt[l])
      /\ \A u \in Unions : TableAt[u].which \in DOMAIN w
      /\ DOMAIN w = DOMAIN Words0
  BY DEF Laid, RowHasRoom, Shaped
<1>2. place \in Places /\ \A l \in Places : l \in Seq(Nat) /\ RowAt[l] \in Row
  BY <1>1, PlaceFacts, PlaceIs
<1>3. /\ StartsAfresh(h2, place) /\ Reads(h2, p)
      /\ \A q \in Seq(Nat) : ~Under(place, q) /\ Reads(h2, q) => Reads(h, q)
  BY <1>1, SwitchedReads
<1>4. /\ \A l \in Places :
           /\ h2.val[l] = IF Under(place, l) THEN RowAt[l].default ELSE h.val[l]
           /\ h2.seen[l] = IF Under(place, l) THEN 0 ELSE h.seen[l]
      /\ \A u \in Unions :
           h2.opt[u] = IF u = p THEN i
                       ELSE IF Under(place, u) THEN TableAt[u].first ELSE h.opt[u]
  BY SwitchedIs
<1>5. /\ DOMAIN w1 = DOMAIN w /\ DOMAIN w2 = DOMAIN w /\ w2[at] = i
      /\ \A s \in DOMAIN w : s # at => w2[s] = w1[s]
  <2>1. DOMAIN w1 = DOMAIN w
    BY DEF Overlay
  <2>2. at \in DOMAIN w1
    BY <1>1, <2>1
  <2> HIDE DEF w1, at
  <2> QED BY <2>1, <2>2
<1>6. Shaped(w1, o2)
  BY <1>2, <1>3, ResetShapes
<1>7. Shaped(w2, o2)
  BY <1>5, <1>6 DEF Shaped
<1> HIDE DEF place, r, h2, W, w1, w2, o2, at
<1>8. ASSUME NEW l \in Places \ X, Reads(h2, l)
      PROVE  Right(h2, l, w2, o2)
  <2> DEFINE row == RowAt[l]
  <2>1. row \in Row /\ RowHasRoom(row) /\ l \in Seq(Nat)
    BY <1>1, <1>2
  <2>2. \A s \in WordSlots(row) : w2[s] = w1[s]
    <3>1. ~Apart(p, l)
      BY <1>3, <1>8, ReadsTogether
    <3>2. at \notin WordSlots(row)
      BY <1>1, <3>1 DEF SlotsApart, at
    <3>3. WordSlots(row) \subseteq DOMAIN w
      BY <1>1, <2>1 DEF RowHasRoom, HasRoom
    <3> QED BY <1>5, <3>2, <3>3
  <2>3. CASE ~Under(place, l)
    <3>1. Right(h, l, w, o)
      BY <1>3, <1>8, <2>1, <2>3 DEF AllRight
    <3>2. /\ \A s \in WordSlots(row) : w1[s] = w[s]
          /\ \A s \in ObjectSlots(row) : o2[s] = o[s]
      BY <1>2, <1>3, <1>8, <2>3, ResetShows DEF w1, W, o2, r
    <3>3. \A s \in WordSlots(row) : w2[s] = w[s]
      BY <2>2, <3>2
    <3>4. Counted(row, w)
      BY <3>1 DEF Right
    <3>5. /\ Stored(row, w2, o2) = Stored(row, w, o) /\ Arrivals(row, w2) = Arrivals(row, w)
          /\ Counted(row, w2)
      <4> HIDE DEF row
      <4> QED BY <2>1, <3>2, <3>3, <3>4, ShownBySlots
    <3>6. h2.val[l] = h.val[l] /\ h2.seen[l] = h.seen[l]
      BY <1>4, <2>3
    <3> QED BY <3>1, <3>5, <3>6 DEF Right, Shows
  <2>4. CASE Under(place, l)
    <3> DEFINE b == o[row.at]
    <3>1. /\ \A x \in OwnWords(row) : w1[x[1]] = x[2]
          /\ row.kind = "text" => o2[row.at] = row.default
          /\ row.kind = "into" => o2[row.at] = IF row.default = <<>> THEN b
                                               ELSE Copied(b, row.default)
      BY <1>2, <1>3, <1>8, <2>4, ResetShows DEF w1, W, o2, r
    <3>2. \A x \in OwnWords(row) : w2[x[1]] = x[2]
      BY <2>1, <2>2, <3>1, OwnWordsAre
    <3>3. row.kind = "into" => b \in Seq(Nat) /\ Len(row.default) <= Len(b)
      <4>1. row.kind = "into" => b \in Seq(Nat) /\ Len(b) = Len(Objects0[row.at])
        BY DEF Shaped
      <4>2. row.kind = "into" => Len(row.default) <= Len(Objects0[row.at])
        BY <2>1 DEF RowHasRoom, HasRoom
      <4> QED BY <4>1, <4>2
    <3>4. Stored(row, w2, o2) = row.default /\ Arrivals(row, w2) = 0 /\ Counted(row, w2)
      <4> HIDE DEF row, b
      <4> QED BY <2>1, <3>1, <3>2, <3>3, ShowsDefault
    <3>5. h2.val[l] = row.default /\ h2.seen[l] = 0
      BY <1>4, <2>4
    <3> QED BY <3>4, <3>5 DEF Right, Shows
  <2> QED BY <2>3, <2>4
<1>9. ASSUME NEW u \in Unions, Reads(h2, u)
      PROVE  ShowsOption(h2, u, w2)
  <2> DEFINE s == TableAt[u].which
  <2>1. CASE u = p
    BY <1>4, <1>5, <2>1 DEF ShowsOption, at
  <2>2. CASE u # p
    <3>1. s \in DOMAIN w /\ s # at /\ w2[s] = w1[s]
      <4>1. ~Apart(u, p)
        BY <1>3, <1>9, ReadsTogether
      <4>2. s # at
        BY <1>1, <2>2, <4>1 DEF SlotsApart, at
      <4> QED BY <1>1, <1>5, <4>2
    <3>2. \A x \in W : x[1] = s => Under(place, u) /\ x[2] = TableAt[u].first
      BY <1>2, <1>3, <1>9, ResetAtUnion DEF W, r
    <3>3. CASE ~Under(place, u)
      <4>1. \A x \in W : x[1] # s
        BY <3>2, <3>3
      <4>2. w1[s] = w[s]
        <5> HIDE DEF s
        <5> QED BY <3>1, <4>1, OverlayIs DEF w1
      <4>3. Reads(h, u)
        BY <1>1, <1>3, <1>9, <3>3, UnionIsPath
      <4>4. w[s] = h.opt[u]
        BY <4>3 DEF AllRight, ShowsOption
      <4> QED BY <1>4, <2>2, <3>1, <3>3, <4>2, <4>4 DEF ShowsOption
    <3>4. CASE Under(place, u)
      <4>1. u \in Unions \cap FreshPaths(h2, place)
        BY <1>1, <1>9, <3>4, UnionIsPath DEF FreshPaths
      <4>2. <<s, TableAt[u].first>> \in W
        BY <1>1, <1>2, <1>3, <4>1, ResetIs DEF W, r
      <4>3. w1[s] = TableAt[u].first
        <5>1. PICK v : v = TableAt[u].first
          OBVIOUS
        <5>2. <<s, v>> \in W /\ <<s, v>>[1] = s /\ \A x \in W : x[1] = s => x[2] = v
          BY <3>2, <4>2, <5>1
        <5>3. w1[s] = v
          <6> HIDE DEF s
          <6> QED BY <3>1, <5>2, OverlayIs DEF w1
        <5> QED BY <5>1, <5>3
      <4> QED BY <1>4, <2>2, <3>1, <3>4, <4>3 DEF ShowsOption
    <3> QED BY <3>3, <3>4
  <2> QED BY <2>1, <2>2
<1>10. AllRight(h2, w2, o2, X)
  BY <1>8, <1>9 DEF AllRight
<1> QED BY <1>7, <1>10 DEF place, r, h2, W, w1, w2, o2, at

LEMMA Selecting ==
  ASSUME Laid(Words0, Objects0), NEW p \in Paths, NEW i \in DOMAIN TableAt[p].rows,
         Reads(held, p), IsTree(held), Shaped(words, objects),
         NEW X, AllRight(held, words, objects, X)
  PROVE  LET h2 == Selected(held, Append(p, i))
             w2 == WordsSelected(<<Tab(p), i>>)
             o2 == ObjectsSelected(<<Tab(p), i>>)
         IN /\ IsTree(h2) /\ Reads(h2, Append(p, i)) /\ Shaped(w2, o2)
            /\ AllRight(h2, w2, o2, X)
<1> DEFINE place == Append(p, i)
           e  == <<Tab(p), i>>
           r  == RowAt[place]
           at == TableAt[p].which
           h2 == Selected(held, place)
           w2 == WordsSelected(e)
           o2 == ObjectsSelected(e)
<1>1. /\ TablesFormTree /\ \A u \in Unions : TableAt[u].which \in DOMAIN words
      /\ \A l \in Places : RowHasRoom(RowAt[l]) /\ RowAt[l] \in Row
  BY PlaceIs DEF Laid, Shaped, RowHasRoom
<1>2. /\ p \in Seq(Nat) /\ i \in Nat /\ Tab(p) \in DOMAIN T /\ TableAt[p] = T[Tab(p)]
      /\ p \in Unions <=> TableAt[p].which >= 0
  BY <1>1, PathIsScope
<1>3. e[1] = Tab(p) /\ e[2] = i
  OBVIOUS
<1>4. T[e[1]].which = at /\ T[e[1]].rows[e[2]] = r
  BY <1>1, <1>2, PlaceFacts
<1>5. h2 = IF p \notin Unions \/ held.opt[p] = i THEN held ELSE Switched(held, p, i)
  BY <1>2, SelectedIs
<1>6. p \in Unions => at \in DOMAIN words /\ words[at] = held.opt[p]
  BY <1>1 DEF AllRight, ShowsOption
<1>7. CASE p \notin Unions \/ held.opt[p] = i
  <2>1. ~Switches(e)
    BY <1>2, <1>3, <1>4, <1>6, <1>7, Zenon DEF Switches
  <2>2. o2 = objects
    BY <2>1, Zenon DEF ObjectsSelected
  <2>3. w2 = IF at >= 0 THEN [words EXCEPT ![at] = i] ELSE words
    BY <1>3, <1>4, <2>1, Zenon DEF WordsSelected
  <2> HIDE DEF w2, o2, h2, e, at
  <2>4. DOMAIN w2 = DOMAIN words /\ \A s \in DOMAIN words : w2[s] = words[s]
    BY <1>2, <1>6, <1>7, <2>3 DEF at
  <2>5. h2 = held
    BY <1>5, <1>7
  <2>6. Shaped(w2, o2)
    BY <2>2, <2>4 DEF Shaped
  <2>7. AllRight(held, w2, o2, X)
    <3>1. ASSUME NEW l \in Places \ X, Reads(held, l) PROVE Right(held, l, w2, o2)
      <4>1. Right(held, l, words, objects)
        BY <3>1 DEF AllRight
      <4> DEFINE row == RowAt[l]
      <4>2. row \in Row /\ RowHasRoom(row) /\ Counted(row, words)
        BY <1>1, <4>1 DEF Right
      <4>3. WordSlots(row) \subseteq DOMAIN words
        BY <4>2 DEF RowHasRoom, HasRoom, Shaped
      <4>4. /\ Stored(row, w2, o2) = Stored(row, words, objects)
            /\ Arrivals(row, w2) = Arrivals(row, words) /\ Counted(row, w2)
        <5>1. \A s \in WordSlots(row) : w2[s] = words[s]
          BY <2>4, <4>3
        <5>2. \A s \in ObjectSlots(row) : o2[s] = objects[s]
          BY <2>2
        <5> HIDE DEF row
        <5> QED BY <4>2, <5>1, <5>2, ShownBySlots
      <4> QED BY <4>1, <4>4 DEF Right, Shows
    <3>2. ASSUME NEW u \in Unions, Reads(held, u) PROVE ShowsOption(held, u, w2)
      BY <1>1, <2>4, <3>2 DEF AllRight, ShowsOption
    <3> QED BY <3>1, <3>2 DEF AllRight
  <2>8. Reads(held, place)
    BY <1>1, <1>2, <1>7, ReadsStep
  <2> QED BY <2>5, <2>6, <2>7, <2>8 DEF h2, w2, o2, e
<1>8. CASE p \in Unions /\ held.opt[p] # i
  <2>1. Switches(e)
    BY <1>2, <1>3, <1>4, <1>6, <1>8, Zenon DEF Switches
  <2>2. Plan[e] = [words |-> ResetWords(T, r), objects |-> ResetObjects(T, r), into |-> ResetInto(T, r)]
    <3>1. e \in UNION {{<<t, id>> : id \in DOMAIN T[t].rows} :
                         t \in {u \in DOMAIN T : T[u].which >= 0}}
      BY <1>2, <1>8
    <3>2. Plan[e] = LET q == T[e[1]].rows[e[2]] IN
             [words |-> ResetWords(T, q), objects |-> ResetObjects(T, q), into |-> ResetInto(T, q)]
      <4> HIDE DEF e
      <4> QED BY <3>1, Zenon DEF Plan
    <3> QED BY <1>4, <3>2, Zenon
  <2>3. /\ Plan[e].words = ResetWords(T, r) /\ Plan[e].objects = ResetObjects(T, r)
        /\ Plan[e].into = ResetInto(T, r)
    BY <2>2
  <2>4. w2 = [Overlay(words, ResetWords(T, r)) EXCEPT ![at] = i]
    BY <1>2, <1>3, <1>4, <1>8, <2>1, <2>3, Zenon DEF WordsSelected
  <2>5. o2 = OverlayInto(Overlay(objects, ResetObjects(T, r)), ResetInto(T, r))
    BY <2>1, <2>3, Zenon DEF ObjectsSelected
  <2>6. h2 = Switched(held, p, i)
    BY <1>5, <1>8
  <2> HIDE DEF w2, o2, h2, e
  <2>7. IsTree(h2)
    BY <2>6, SwitchedIs
  <2>8. Reads(h2, place)
    BY <1>1, <1>8, <2>6, SwitchedReads DEF StartsAfresh
  <2>9. AllRight(h2, w2, o2, X) /\ Shaped(w2, o2)
    BY <1>8, <2>4, <2>5, <2>6, SwitchStep
  <2> QED BY <2>7, <2>8, <2>9 DEF h2, w2, o2, e
<1> QED BY <1>7, <1>8

-----------------------------------------------------------------------------
(* A write to the slots of one place.                                      *)

LEMMA WritingAt ==
  ASSUME Laid(Words0, Objects0), NEW place \in Places,
         NEW h, NEW w, NEW o, NEW X, Shaped(w, o), AllRight(h, w, o, X), Reads(h, place),
         NEW h2, NEW w2, NEW o2, NEW Y, h2.opt = h.opt,
         \A l \in Places : l # place => h2.val[l] = h.val[l] /\ h2.seen[l] = h.seen[l],
         \A s \in DOMAIN w : s \notin WordSlots(RowAt[place]) => w2[s] = w[s],
         \A s \in DOMAIN o : s \notin ObjectSlots(RowAt[place]) => o2[s] = o[s],
         X \subseteq Y \cup {place},
         place \notin Y => Right(h2, place, w2, o2)
  PROVE  AllRight(h2, w2, o2, Y)
<1>1. /\ TablesFormTree /\ SlotsApart
      /\ \A l \in Places : RowHasRoom(RowAt[l]) /\ RowAt[l] \in Row
      /\ \A u \in Unions : TableAt[u].which \in DOMAIN w
      /\ DOMAIN w = DOMAIN Words0 /\ DOMAIN o = DOMAIN Objects0
  BY PlaceIs DEF Laid, RowHasRoom, Shaped
<1>2. \A q : Reads(h2, q) <=> Reads(h, q)
  BY DEF Reads
<1>3. ASSUME NEW l \in Places \ Y, Reads(h2, l)
      PROVE  Right(h2, l, w2, o2)
  <2>1. CASE l = place
    BY <1>3, <2>1
  <2>2. CASE l # place
    <3> DEFINE row == RowAt[l]
    <3>1. Right(h, l, w, o)
      BY <1>2, <1>3, <2>2 DEF AllRight
    <3>2. row \in Row /\ RowHasRoom(row) /\ Counted(row, w)
      BY <1>1, <3>1 DEF Right
    <3>3. ~Apart(l, place)
      BY <1>2, <1>3, ReadsTogether
    <3>4. /\ WordSlots(row) \cap WordSlots(RowAt[place]) = {}
          /\ ObjectSlots(row) \cap ObjectSlots(RowAt[place]) = {}
      BY <1>1, <2>2, <3>3 DEF SlotsApart
    <3>5. WordSlots(row) \subseteq DOMAIN w /\ ObjectSlots(row) \subseteq DOMAIN o
      BY <1>1, <3>2 DEF RowHasRoom, HasRoom
    <3>6. /\ Stored(row, w2, o2) = Stored(row, w, o) /\ Arrivals(row, w2) = Arrivals(row, w)
          /\ Counted(row, w2)
      <4>1. \A s \in WordSlots(row) : w2[s] = w[s]
        BY <3>4, <3>5
      <4>2. \A s \in ObjectSlots(row) : o2[s] = o[s]
        BY <3>4, <3>5
      <4> HIDE DEF row
      <4> QED BY <3>2, <4>1, <4>2, ShownBySlots
    <3> QED BY <2>2, <3>1, <3>6 DEF Right, Shows
  <2> QED BY <2>1, <2>2
<1>4. ASSUME NEW u \in Unions, Reads(h2, u)
      PROVE  ShowsOption(h2, u, w2)
  <2>1. ~Apart(u, place)
    BY <1>2, <1>4, ReadsTogether
  <2>2. TableAt[u].which \notin WordSlots(RowAt[place])
    BY <1>1, <2>1 DEF SlotsApart
  <2>3. w2[TableAt[u].which] = w[TableAt[u].which]
    BY <1>1, <2>2
  <2> QED BY <1>2, <1>4, <2>3 DEF AllRight, ShowsOption
<1> QED BY <1>3, <1>4 DEF AllRight

(* What a payload means has its length and is made of numbers.             *)
LEMMA MeantIs ==
  ASSUME NEW r, NEW d \in Seq(Nat)
  PROVE  /\ Meant(r, d) \in Seq(Nat) /\ Len(Meant(r, d)) = Len(d)
         /\ DOMAIN Meant(r, d) = 1 .. Len(d) /\ DOMAIN d = 1 .. Len(d)
         /\ r.kind \in ObjectKinds => Meant(r, d) = d
<1>0. Len(d) \in Nat /\ DOMAIN d = 1 .. Len(d) /\ \A k \in 1 .. Len(d) : d[k] \in Nat
  OBVIOUS
<1>1. CASE r.kind \in {"boolean", "flags"}
  <2>1. Meant(r, d) = [k \in 1 .. Len(d) |-> IF d[k] = 0 THEN 0 ELSE 1]
    BY <1>0, <1>1 DEF Meant
  <2>2. \A k \in 1 .. Len(d) : (IF d[k] = 0 THEN 0 ELSE 1) \in Nat
    OBVIOUS
  <2>3. r.kind \notin ObjectKinds
    BY <1>1 DEF ObjectKinds
  <2> QED BY <1>0, <2>1, <2>2, <2>3
<1>2. CASE r.kind \notin {"boolean", "flags"}
  BY <1>0, <1>2 DEF Meant
<1> QED BY <1>1, <1>2

LEMMA StoredWordsByKind ==
  ASSUME NEW r, NEW f
  PROVE  LET counter(n) == IF r.count < 0 THEN {} ELSE {<<r.count, n>>} IN
         /\ r.kind \in ScalarKinds =>
              StoredWords(r, f) = {<<r.at, Meant(r, f.data)[1]>>} \cup counter(1)
         /\ r.kind \in ArrayKinds =>
              StoredWords(r, f) = {<<r.at + k - 1, Meant(r, f.data)[k]>> : k \in DOMAIN f.data}
                                  \cup counter(Len(f.data))
         /\ r.kind = "into" => StoredWords(r, f) = counter(Len(f.data))
         /\ r.kind \notin ScalarKinds \cup ArrayKinds \cup {"into"} =>
              StoredWords(r, f) = counter(1)
<1>1. r.kind \in ScalarKinds =>
        StoredWords(r, f) = {<<r.at, Meant(r, f.data)[1]>>}
                            \cup (IF r.count < 0 THEN {} ELSE {<<r.count, 1>>})
  BY DEF StoredWords, ScalarKinds, ArrayKinds
<1>2. r.kind \in ArrayKinds =>
        StoredWords(r, f) = {<<r.at + k - 1, Meant(r, f.data)[k]>> : k \in DOMAIN f.data}
                            \cup (IF r.count < 0 THEN {} ELSE {<<r.count, Len(f.data)>>})
  <2> SUFFICES ASSUME r.kind \in ArrayKinds
               PROVE  StoredWords(r, f) = {<<r.at + k - 1, Meant(r, f.data)[k]>> : k \in DOMAIN f.data}
                            \cup (IF r.count < 0 THEN {} ELSE {<<r.count, Len(f.data)>>})
    OBVIOUS
  <2>1. r.kind \notin ScalarKinds /\ r.kind \in ArrayKinds \cup {"into"}
    BY DEF ScalarKinds, ArrayKinds
  <2> QED BY <2>1 DEF StoredWords
<1>3. r.kind = "into" => StoredWords(r, f) = IF r.count < 0 THEN {} ELSE {<<r.count, Len(f.data)>>}
  BY DEF StoredWords, ScalarKinds, ArrayKinds
<1>4. r.kind \notin ScalarKinds \cup ArrayKinds \cup {"into"} =>
        StoredWords(r, f) = IF r.count < 0 THEN {} ELSE {<<r.count, 1>>}
  BY DEF StoredWords, ScalarKinds, ArrayKinds
<1> QED BY <1>1, <1>2, <1>3, <1>4

(* A payload the row has room for.                                         *)
Fits(r, d, o) ==
  /\ r.kind # "sequence" /\ d \in Seq(Nat)
  /\ r.kind \in ScalarKinds => Len(d) = 1
  /\ r.kind \in ArrayKinds => Len(d) <= r.cap
  /\ r.kind = "into" => o[r.at] \in Seq(Nat) /\ Len(d) <= Len(o[r.at])

LEMMA StoredWordsAre ==
  ASSUME NEW r \in Row, RowHasRoom(r), NEW f, NEW o, Fits(r, f.data, o)
  PROVE  /\ \A x \in StoredWords(r, f) : x[1] \in WordSlots(r) /\ x[1] \in DOMAIN Words0
         /\ \A x, y \in StoredWords(r, f) : x[1] = y[1] => x[2] = y[2]
<1>1. /\ r.kind \in Kinds /\ r.at \in Nat /\ r.cap \in Nat /\ r.count \in Int
      /\ f.data \in Seq(Nat)
  BY RowFacts DEF Fits
<1>2. WordSlots(r) \subseteq DOMAIN Words0
  BY DEF RowHasRoom, HasRoom
<1>3. CASE r.kind \in ScalarKinds
  <2>1. r.count # r.at
    BY <1>3 DEF RowHasRoom, HasRoom
  <2>2. StoredWords(r, f) = {<<r.at, Meant(r, f.data)[1]>>}
                            \cup (IF r.count < 0 THEN {} ELSE {<<r.count, 1>>})
    BY <1>3, StoredWordsByKind
  <2>3. WordSlots(r) = {r.at} \cup (IF r.count < 0 THEN {} ELSE {r.count})
    BY <1>3, SlotsByKind
  <2> QED BY <1>2, <2>1, <2>2, <2>3
<1>4. CASE r.kind \in ArrayKinds
  <2> DEFINE m == Meant(r, f.data)
             n == Len(f.data)
  <2>1. /\ ~(r.count < 0) /\ r.count \notin r.at .. r.at + r.cap - 1
        /\ n \in Nat /\ n <= r.cap /\ DOMAIN f.data = 1 .. n
    BY <1>1, <1>4, MeantIs DEF RowHasRoom, HasRoom, Fits
  <2>2. StoredWords(r, f) = {<<r.at + k - 1, m[k]>> : k \in 1 .. n} \cup {<<r.count, n>>}
    BY <1>4, <2>1, StoredWordsByKind
  <2>3. WordSlots(r) = (r.at .. r.at + r.cap - 1) \cup {r.count}
    BY <1>4, <2>1, SlotsByKind
  <2> HIDE DEF m, n
  <2>4. ASSUME NEW x \in StoredWords(r, f)
        PROVE  \/ x[1] = r.count /\ x[2] = n
               \/ \E k \in 1 .. n :
                    x[1] = r.at + k - 1 /\ x[2] = m[k] /\ x[1] \in r.at .. r.at + r.cap - 1
    <3>1. CASE x = <<r.count, n>>
      BY <3>1
    <3>2. CASE x # <<r.count, n>>
      <4>1. PICK k \in 1 .. n : x = <<r.at + k - 1, m[k]>>
        BY <2>2, <3>2
      <4>2. r.at + k - 1 \in r.at .. r.at + r.cap - 1
        BY <1>1, <2>1
      <4>3. x[1] = r.at + k - 1 /\ x[2] = m[k]
        BY <4>1
      <4> QED BY <4>2, <4>3
    <3> QED BY <3>1, <3>2
  <2>5. ASSUME NEW x \in StoredWords(r, f), NEW y \in StoredWords(r, f), x[1] = y[1]
        PROVE  x[2] = y[2]
    <3>1. CASE x[1] = r.count
      BY <2>1, <2>4, <2>5, <3>1
    <3>2. CASE x[1] # r.count
      <4>1. PICK k \in 1 .. n : x[1] = r.at + k - 1 /\ x[2] = m[k]
        BY <2>4, <3>2
      <4>2. PICK j \in 1 .. n : y[1] = r.at + j - 1 /\ y[2] = m[j]
        BY <2>4, <2>5, <3>2
      <4>3. k = j
        <5>1. r.at + k - 1 = r.at + j - 1
          BY <2>5, <4>1, <4>2
        <5>2. k \in Int /\ j \in Int
          OBVIOUS
        <5> QED BY <1>1, <5>1, <5>2
      <4> QED BY <4>1, <4>2, <4>3
    <3> QED BY <3>1, <3>2
  <2> QED BY <1>2, <2>3, <2>4, <2>5
<1>5. CASE r.kind \notin ScalarKinds \cup ArrayKinds
  <2>1. \E n : StoredWords(r, f) = IF r.count < 0 THEN {} ELSE {<<r.count, n>>}
    <3>1. CASE r.kind = "into"
      BY <3>1, StoredWordsByKind
    <3>2. CASE r.kind # "into"
      BY <1>5, <3>2, StoredWordsByKind
    <3> QED BY <3>1, <3>2
  <2>2. PICK n : StoredWords(r, f) = IF r.count < 0 THEN {} ELSE {<<r.count, n>>}
    BY <2>1
  <2>3. \A x \in StoredWords(r, f) : ~(r.count < 0) /\ x[1] = r.count /\ x[2] = n
    BY <2>2
  <2>4. WordSlots(r) = IF r.count < 0 THEN {} ELSE {r.count}
    BY <1>5, SlotsByKind
  <2> QED BY <1>2, <2>3, <2>4
<1> QED BY <1>3, <1>4, <1>5

(* A row whose payload has been written shows it.                          *)
LEMMA ShowsArrival ==
  ASSUME NEW r \in Row, RowHasRoom(r), NEW f, NEW o, Fits(r, f.data, o),
         NEW w2, NEW o2,
         \A x \in StoredWords(r, f) : w2[x[1]] = x[2],
         r.kind = "text" => o2[r.at] = f.data,
         r.kind = "into" => o2[r.at] = Copied(o[r.at], f.data)
  PROVE  /\ Stored(r, w2, o2) = Meant(r, f.data) /\ Counted(r, w2)
         /\ Arrivals(r, w2) = IF r.count < 0 \/ r.kind \in ArrayKinds \cup {"into"} THEN 0 ELSE 1
<1> DEFINE m == Meant(r, f.data)
           n == Len(f.data)
<1>1. /\ r.kind \in Kinds /\ r.at \in Nat /\ r.cap \in Nat /\ r.count \in Int
      /\ f.data \in Seq(Nat) /\ n \in Nat
  BY RowFacts DEF Fits
<1>2. /\ m \in Seq(Nat) /\ Len(m) = n /\ DOMAIN m = 1 .. n /\ DOMAIN f.data = 1 .. n
      /\ r.kind \in ObjectKinds => m = f.data
  BY <1>1, MeantIs
<1>3. CASE r.kind \in ScalarKinds
  <2>1. n = 1 /\ r.kind \notin ArrayKinds \cup {"into"}
    BY <1>3 DEF Fits, ScalarKinds, ArrayKinds
  <2>2. StoredWords(r, f) = {<<r.at, m[1]>>} \cup (IF r.count < 0 THEN {} ELSE {<<r.count, 1>>})
    BY <1>3, StoredWordsByKind
  <2>3. <<r.at, m[1]>> \in StoredWords(r, f)
        /\ (~(r.count < 0) => <<r.count, 1>> \in StoredWords(r, f))
    BY <2>2
  <2>4. w2[r.at] = m[1] /\ (~(r.count < 0) => w2[r.count] = 1)
    BY <2>3
  <2>5. <<w2[r.at]>> = m
    <3> HIDE DEF m, n
    <3> QED BY <1>2, <2>1, <2>4
  <2>6. Arrivals(r, w2) = IF r.count < 0 THEN 0 ELSE 1
    BY <2>1, <2>4 DEF Arrivals
  <2>7. Stored(r, w2, o2) = <<w2[r.at]>>
    BY <1>3, StoredByKind
  <2>8. Counted(r, w2)
    BY <2>1 DEF Counted
  <2> HIDE DEF m
  <2> QED BY <2>1, <2>5, <2>6, <2>7, <2>8 DEF m
<1>4. CASE r.kind \in ArrayKinds
  <2>1. ~(r.count < 0) /\ n <= r.cap /\ r.kind \notin ScalarKinds
    BY <1>1, <1>4 DEF RowHasRoom, HasRoom, Fits, ScalarKinds, ArrayKinds
  <2>2. StoredWords(r, f) = {<<r.at + k - 1, m[k]>> : k \in 1 .. n} \cup {<<r.count, n>>}
    BY <1>2, <1>4, <2>1, StoredWordsByKind
  <2> HIDE DEF m, n
  <2>3. <<r.count, n>> \in StoredWords(r, f)
        /\ \A k \in 1 .. n : <<r.at + k - 1, m[k]>> \in StoredWords(r, f)
    BY <2>2
  <2>4. w2[r.count] = n /\ \A k \in 1 .. n : w2[r.at + k - 1] = m[k]
    BY <2>3
  <2>5. Stored(r, w2, o2) = [k \in 1 .. n |-> w2[r.at + k - 1]]
    <3>1. Stored(r, w2, o2) = [k \in 1 .. w2[r.count] |-> w2[r.at + k - 1]]
      BY <1>4, StoredByKind
    <3> QED BY <2>4, <3>1
  <2>6. m = [k \in 1 .. n |-> m[k]]
    BY <1>2
  <2>7. Stored(r, w2, o2) = m
    BY <2>4, <2>5, <2>6
  <2>8. Arrivals(r, w2) = 0
    BY <1>4 DEF Arrivals
  <2>9. Counted(r, w2)
    BY <1>1, <2>1, <2>4 DEF Counted
  <2> QED BY <1>4, <2>7, <2>8, <2>9 DEF m
<1>5. CASE r.kind \in ObjectKinds
  <2>1. r.kind \notin ArrayKinds
    BY <1>5 DEF ObjectKinds, ArrayKinds
  <2>2. Counted(r, w2)
    BY <2>1 DEF Counted
  <2>3. CASE r.kind = "text"
    <3>1. StoredWords(r, f) = IF r.count < 0 THEN {} ELSE {<<r.count, 1>>}
      <4>1. r.kind \notin ScalarKinds \cup ArrayKinds \cup {"into"}
        BY <2>3 DEF ScalarKinds, ArrayKinds
      <4> QED BY <4>1, StoredWordsByKind
    <3>2. ~(r.count < 0) => <<r.count, 1>> \in StoredWords(r, f)
      BY <3>1
    <3>3. ~(r.count < 0) => w2[r.count] = 1
      BY <3>2
    <3>4. Arrivals(r, w2) = IF r.count < 0 THEN 0 ELSE 1
      BY <2>1, <2>3, <3>3 DEF Arrivals
    <3>5. Stored(r, w2, o2) = f.data
      BY <2>3, StoredByKind
    <3> HIDE DEF m, n
    <3> QED BY <1>2, <1>5, <2>1, <2>2, <2>3, <3>4, <3>5 DEF m
  <2>4. CASE r.kind = "into"
    <3>1. ~(r.count < 0)
      BY <1>1, <2>4 DEF RowHasRoom, HasRoom
    <3>2. StoredWords(r, f) = {<<r.count, n>>}
      BY <2>4, <3>1, StoredWordsByKind
    <3>3. w2[r.count] = n
      BY <3>2
    <3>4. Arrivals(r, w2) = 0
      BY <2>4 DEF Arrivals
    <3>5. Stored(r, w2, o2) = SubSeq(o2[r.at], 1, n)
      BY <2>4, <3>3, StoredByKind
    <3>6. SubSeq(Copied(o[r.at], f.data), 1, n) = f.data
      BY <1>1, <2>4, CopiedIs DEF Fits
    <3>7. Stored(r, w2, o2) = f.data
      BY <2>4, <3>5, <3>6
    <3> HIDE DEF m, n
    <3> QED BY <1>2, <1>5, <2>2, <2>4, <3>4, <3>7 DEF m
  <2> QED BY <1>5, <2>3, <2>4 DEF ObjectKinds
<1>6. CASE r.kind \notin ScalarKinds \cup ArrayKinds \cup ObjectKinds
  BY <1>1, <1>6 DEF Fits, Kinds, ScalarKinds, ArrayKinds, ObjectKinds
<1> QED BY <1>3, <1>4, <1>5, <1>6

Uncounted(r) == r.count < 0 \/ r.kind \in ArrayKinds \cup {"into"}

(* Arrivals are told only where a count slot tells them.                   *)
Unseen(h) == \A l \in Places : Uncounted(RowAt[l]) => h.seen[l] = 0

ArrayPlaces == {l \in Places : RowAt[l].kind \in ArrayKinds}

(* What the rows of a laid storage come to.                                *)
LEMMA LaidFacts ==
  ASSUME Laid(Words0, Objects0), NEW w, NEW o, Shaped(w, o), NEW l \in Places
  PROVE  /\ TablesFormTree /\ SlotsApart
         /\ RowAt[l] \in Row /\ RowHasRoom(RowAt[l]) /\ l \in Seq(Nat)
         /\ DOMAIN w = DOMAIN Words0 /\ DOMAIN o = DOMAIN Objects0
         /\ WordSlots(RowAt[l]) \subseteq DOMAIN w /\ ObjectSlots(RowAt[l]) \subseteq DOMAIN o
<1>1. TablesFormTree /\ SlotsApart /\ RowHasRoom(RowAt[l])
  BY DEF Laid, RowHasRoom
<1>2. RowAt[l] \in Row /\ l \in Seq(Nat)
  BY <1>1, PlaceIs
<1>3. DOMAIN w = DOMAIN Words0 /\ DOMAIN o = DOMAIN Objects0
  BY DEF Shaped
<1>4. WordSlots(RowAt[l]) \subseteq DOMAIN w /\ ObjectSlots(RowAt[l]) \subseteq DOMAIN o
  BY <1>1, <1>3 DEF RowHasRoom, HasRoom
<1> QED BY <1>1, <1>2, <1>3, <1>4

(* The tree after an arrival.                                              *)
Arrived(h, place, d, h2) ==
  /\ IsTree(h2) /\ Unseen(h2) /\ h2.opt = h.opt
  /\ h2.val[place] = Meant(RowAt[place], d)
  /\ h2.seen[place] = IF Uncounted(RowAt[place]) THEN 0 ELSE 1
  /\ \A l \in Places : l # place => h2.val[l] = h.val[l] /\ h2.seen[l] = h.seen[l]

LEMMA ReplacedIs ==
  ASSUME NEW h, IsTree(h), Unseen(h), NEW place \in Places, NEW d
  PROVE  Arrived(h, place, d, Replaced(RowAt[place], h, place, d))
<1> SUFFICES ASSUME NEW h2, h2 = Replaced(RowAt[place], h, place, d)
             PROVE  Arrived(h, place, d, h2)
  OBVIOUS
<1> DEFINE r == RowAt[place]
           v == [h.val EXCEPT ![place] = Meant(r, d)]
           s == [h.seen EXCEPT ![place] = IF Uncounted(r) THEN @ ELSE 1]
<1>1. PICK hv, hs, ho : /\ h = [val |-> hv, seen |-> hs, opt |-> ho]
                        /\ hv = [l \in Places |-> hv[l]] /\ hs = [l \in Places |-> hs[l]]
                        /\ ho = [u \in Unions |-> ho[u]]
  BY DEF IsTree
<1>2. h.val = hv /\ h.seen = hs /\ h.opt = ho
  BY <1>1
<1>3. h2 = [val |-> v, seen |-> s, opt |-> ho]
  <2> DEFINE m == Meant(r, d)
             g == [val |-> hv, seen |-> hs, opt |-> ho]
  <2>1. h2 = [g EXCEPT !.val[place] = m,
                       !.seen[place] = IF Uncounted(r) THEN @ ELSE 1]
    BY <1>1, Zenon DEF Replaced, Uncounted
  <2>2. v = [hv EXCEPT ![place] = m]
        /\ s = [hs EXCEPT ![place] = IF Uncounted(r) THEN @ ELSE 1]
    BY <1>2
  <2> HIDE DEF m, v, s, r
  <2>3. [g EXCEPT !.val[place] = m, !.seen[place] = IF Uncounted(r) THEN @ ELSE 1]
          = [val |-> [hv EXCEPT ![place] = m],
             seen |-> [hs EXCEPT ![place] = IF Uncounted(r) THEN @ ELSE 1], opt |-> ho]
    <3> DEFINE g1 == [g EXCEPT !.val[place] = m]
               c  == IF Uncounted(r) THEN hs[place] ELSE 1
    <3>1. g1 = [val |-> [hv EXCEPT ![place] = m], seen |-> hs, opt |-> ho]
      OBVIOUS
    <3>2. [g EXCEPT !.val[place] = m, !.seen[place] = c] = [g1 EXCEPT !.seen[place] = c]
      OBVIOUS
    <3>3. [g1 EXCEPT !.seen[place] = c]
            = [val |-> [hv EXCEPT ![place] = m], seen |-> [hs EXCEPT ![place] = c], opt |-> ho]
      <4> HIDE DEF g1, c
      <4> QED BY <3>1
    <3>4. g.seen = hs
      OBVIOUS
    <3> HIDE DEF g, g1
    <3> QED BY <3>2, <3>3, <3>4
  <2> HIDE DEF g
  <2> QED BY <2>1, <2>2, <2>3
<1>4. h2.val = v /\ h2.seen = s /\ h2.opt = ho
  BY <1>3
<1> HIDE DEF r
<1>5. DOMAIN hv = Places /\ DOMAIN hs = Places
  BY <1>1
<1>6. /\ v[place] = Meant(r, d) /\ s[place] = IF Uncounted(r) THEN hs[place] ELSE 1
      /\ \A l \in Places : l # place => v[l] = hv[l] /\ s[l] = hs[l]
      /\ v = [l \in Places |-> v[l]] /\ s = [l \in Places |-> s[l]]
  BY <1>2, <1>5
<1>7. Uncounted(r) => hs[place] = 0
  BY <1>2 DEF Unseen, r
<1>8. Unseen(h2)
  BY <1>2, <1>4, <1>6, <1>7 DEF Unseen, r
<1>9. IsTree(h2)
  BY <1>1, <1>3, <1>4, <1>6 DEF IsTree
<1> QED BY <1>2, <1>4, <1>6, <1>7, <1>8, <1>9 DEF Arrived, r

(* The tree after a sequence opened.                                       *)
LEMMA OpenedIs ==
  ASSUME NEW h, IsTree(h), Unseen(h), NEW place \in Places, RowAt[place].kind = "sequence"
  PROVE  LET r == RowAt[place]
             h2 == Opened(r, h, place)
         IN /\ IsTree(h2) /\ Unseen(h2) /\ h2.opt = h.opt /\ h2.val = h.val
            /\ h2.seen[place] = IF r.count < 0 THEN h.seen[place] ELSE h.seen[place] + 1
            /\ \A l \in Places : l # place => h2.seen[l] = h.seen[l]
<1> DEFINE r == RowAt[place]
           h2 == Opened(r, h, place)
           s == [h.seen EXCEPT ![place] = @ + 1]
<1>1. CASE r.count < 0
  BY <1>1 DEF Opened
<1>2. CASE ~(r.count < 0)
  <2>1. PICK hv, hs, ho : /\ h = [val |-> hv, seen |-> hs, opt |-> ho]
                          /\ hv = [l \in Places |-> hv[l]] /\ hs = [l \in Places |-> hs[l]]
                          /\ ho = [u \in Unions |-> ho[u]]
    BY DEF IsTree
  <2>2. h.val = hv /\ h.seen = hs /\ h.opt = ho
    BY <2>1
  <2>3. h2 = [val |-> hv, seen |-> s, opt |-> ho]
    BY <1>2, <2>1, <2>2 DEF Opened
  <2>4. h2.val = hv /\ h2.seen = s /\ h2.opt = ho
    BY <2>3
  <2>5. ~Uncounted(r)
    BY <1>2 DEF Uncounted, ArrayKinds
  <2> HIDE DEF h2, r
  <2>6. /\ s[place] = hs[place] + 1
        /\ \A l \in Places : l # place => s[l] = hs[l]
        /\ s = [l \in Places |-> s[l]]
    BY <2>1, <2>2
  <2>7. Unseen(h2)
    BY <2>2, <2>4, <2>5, <2>6 DEF Unseen, r
  <2>8. IsTree(h2)
    BY <2>1, <2>3, <2>4, <2>6 DEF IsTree
  <2> QED BY <1>2, <2>2, <2>4, <2>6, <2>7, <2>8 DEF h2, r
<1> QED BY <1>1, <1>2

(* Choosing an option sees nothing more.                                   *)
LEMMA SelectedUnseen ==
  ASSUME NEW h, Unseen(h), NEW p \in Seq(Nat), NEW i \in Nat
  PROVE  Unseen(Selected(h, Append(p, i)))
<1>1. \A l \in Places : Switched(h, p, i).seen[l] = IF Under(Append(p, i), l) THEN 0 ELSE h.seen[l]
  BY SwitchedIs
<1>2. Unseen(Switched(h, p, i))
  BY <1>1 DEF Unseen
<1> QED BY <1>2, SelectedIs

(* What a value that lands does to the objects.                            *)
StoredObjects(r, f, o) ==
  CASE r.kind = "text" -> [o EXCEPT ![r.at] = f.data]
    [] r.kind = "into" -> [o EXCEPT ![r.at] = Copied(@, f.data)]
    [] OTHER           -> o

LEMMA StoredObjectsAre ==
  ASSUME Laid(Words0, Objects0), NEW place \in Places, NEW w, NEW o, Shaped(w, o),
         NEW f, Fits(RowAt[place], f.data, o)
  PROVE  LET r  == RowAt[place]
             o2 == StoredObjects(r, f, o)
         IN /\ r.kind = "text" => o2[r.at] = f.data
            /\ r.kind = "into" => o2[r.at] = Copied(o[r.at], f.data)
            /\ \A s \in DOMAIN o : s \notin ObjectSlots(r) => o2[s] = o[s]
            /\ \A w2 : DOMAIN w2 = DOMAIN w => Shaped(w2, o2)
<1> DEFINE r  == RowAt[place]
           o2 == StoredObjects(r, f, o)
<1>1. /\ SlotsApart /\ r \in Row /\ DOMAIN w = DOMAIN Words0 /\ DOMAIN o = DOMAIN Objects0
      /\ ObjectSlots(r) \subseteq DOMAIN o
  BY LaidFacts
<1>2. CASE r.kind = "text"
  <2>1. r.at \in DOMAIN o /\ ObjectSlots(r) = {r.at}
    BY <1>1, <1>2 DEF ObjectSlots, ObjectKinds
  <2>2. o2 = [o EXCEPT ![r.at] = f.data]
    BY <1>2 DEF StoredObjects
  <2>3. DOMAIN o2 = DOMAIN o /\ o2[r.at] = f.data /\ \A s \in DOMAIN o : s # r.at => o2[s] = o[s]
    BY <2>1, <2>2
  <2>4. ASSUME NEW l \in Places, RowAt[l].kind = "into"
        PROVE  o2[RowAt[l].at] = o[RowAt[l].at]
    <3>1. RowAt[l].at \in DOMAIN o
      <4>1. ObjectSlots(RowAt[l]) \subseteq DOMAIN o
        BY LaidFacts
      <4> QED BY <2>4, <4>1 DEF ObjectSlots, ObjectKinds
    <3>2. RowAt[l].at # r.at
      BY <1>1, <1>2, <2>4 DEF SlotsApart
    <3> QED BY <2>3, <3>1, <3>2
  <2>5. \A w2 : DOMAIN w2 = DOMAIN w => Shaped(w2, o2)
    <3> HIDE DEF o2
    <3> QED BY <1>1, <2>3, <2>4 DEF Shaped
  <2> HIDE DEF o2, r
  <2> QED BY <1>2, <2>1, <2>3, <2>5 DEF o2, r
<1>3. CASE r.kind = "into"
  <2>1. r.at \in DOMAIN o /\ ObjectSlots(r) = {r.at}
    BY <1>1, <1>3 DEF ObjectSlots, ObjectKinds
  <2>2. o2 = [o EXCEPT ![r.at] = Copied(o[r.at], f.data)]
    BY <1>3 DEF StoredObjects
  <2>3. /\ DOMAIN o2 = DOMAIN o /\ o2[r.at] = Copied(o[r.at], f.data)
        /\ \A s \in DOMAIN o : s # r.at => o2[s] = o[s]
    BY <2>1, <2>2
  <2>4. o[r.at] \in Seq(Nat) /\ f.data \in Seq(Nat)
    BY <1>3 DEF Fits
  <2>5. o2[r.at] \in Seq(Nat) /\ Len(o2[r.at]) = Len(o[r.at])
    BY <2>3, <2>4, CopiedIs
  <2>6. ASSUME NEW l \in Places, RowAt[l].kind = "into"
        PROVE  o2[RowAt[l].at] \in Seq(Nat) /\ Len(o2[RowAt[l].at]) = Len(o[RowAt[l].at])
    <3>1. RowAt[l].at \in DOMAIN o /\ o[RowAt[l].at] \in Seq(Nat)
      <4>1. ObjectSlots(RowAt[l]) \subseteq DOMAIN o
        BY LaidFacts
      <4> QED BY <2>6, <4>1 DEF ObjectSlots, ObjectKinds, Shaped
    <3>2. CASE RowAt[l].at = r.at
      BY <2>5, <3>2
    <3>3. CASE RowAt[l].at # r.at
      BY <2>3, <3>1, <3>3
    <3> QED BY <3>2, <3>3
  <2>7. \A w2 : DOMAIN w2 = DOMAIN w => Shaped(w2, o2)
    <3>1. \A l \in Places : RowAt[l].kind = "into" =>
            Len(o[RowAt[l].at]) = Len(Objects0[RowAt[l].at])
      BY DEF Shaped
    <3> HIDE DEF o2
    <3> QED BY <1>1, <2>3, <2>6, <3>1 DEF Shaped
  <2> HIDE DEF o2, r
  <2> QED BY <1>3, <2>1, <2>3, <2>7 DEF o2, r
<1>4. CASE r.kind \notin {"text", "into"}
  <2>1. o2 = o
    BY <1>4 DEF StoredObjects
  <2>2. \A w2 : DOMAIN w2 = DOMAIN w => Shaped(w2, o)
    BY DEF Shaped
  <2> HIDE DEF o2, r
  <2> QED BY <1>4, <2>1, <2>2 DEF o2, r
<1> QED BY <1>2, <1>3, <1>4

(* A value that landed.                                                    *)
LEMMA Storing ==
  ASSUME Laid(Words0, Objects0), NEW place \in Places, NEW h, NEW w, NEW o,
         IsTree(h), Unseen(h), Shaped(w, o), AllRight(h, w, o, {place} \cap ArrayPlaces) \/ AllRight(h, w, o, {}),
         Reads(h, place), NEW f, Fits(RowAt[place], f.data, o)
  PROVE  LET r  == RowAt[place]
             h2 == Replaced(r, h, place, f.data)
             w2 == Overlay(w, StoredWords(r, f))
             o2 == StoredObjects(r, f, o)
         IN IsTree(h2) /\ Unseen(h2) /\ h2.opt = h.opt /\ Shaped(w2, o2) /\ AllRight(h2, w2, o2, {})
<1> DEFINE r  == RowAt[place]
           h2 == Replaced(r, h, place, f.data)
           S  == StoredWords(r, f)
           w2 == Overlay(w, S)
           o2 == StoredObjects(r, f, o)
<1>1. r \in Row /\ RowHasRoom(r) /\ DOMAIN w = DOMAIN Words0
  BY LaidFacts
<1>2. /\ IsTree(h2) /\ Unseen(h2) /\ h2.opt = h.opt
      /\ h2.val[place] = Meant(r, f.data)
      /\ h2.seen[place] = IF Uncounted(r) THEN 0 ELSE 1
      /\ \A l \in Places : l # place => h2.val[l] = h.val[l] /\ h2.seen[l] = h.seen[l]
  <2>1. Arrived(h, place, f.data, h2)
    BY ReplacedIs
  <2> HIDE DEF h2
  <2> QED BY <2>1 DEF Arrived
<1>3. /\ r.kind = "text" => o2[r.at] = f.data
      /\ r.kind = "into" => o2[r.at] = Copied(o[r.at], f.data)
      /\ \A s \in DOMAIN o : s \notin ObjectSlots(r) => o2[s] = o[s]
      /\ \A x : DOMAIN x = DOMAIN w => Shaped(x, o2)
  BY StoredObjectsAre
<1>4. /\ \A x \in S : x[1] \in WordSlots(r) /\ x[1] \in DOMAIN w
      /\ \A x, y \in S : x[1] = y[1] => x[2] = y[2]
  BY <1>1, StoredWordsAre
<1>5. DOMAIN w2 = DOMAIN w
  BY DEF Overlay
<1> HIDE DEF r, h2, S, w2, o2
<1>6. \A x \in S : w2[x[1]] = x[2]
  <2> SUFFICES ASSUME NEW x \in S PROVE w2[x[1]] = x[2]
    OBVIOUS
  <2>1. PICK s, v : s = x[1] /\ v = x[2]
    OBVIOUS
  <2>2. s \in DOMAIN w /\ (\E y \in S : y[1] = s) /\ \A y \in S : y[1] = s => y[2] = v
    BY <1>4, <2>1
  <2>3. w2[s] = v
    BY <2>2, OverlayIs DEF w2
  <2> QED BY <2>1, <2>3
<1>7. ASSUME NEW s \in DOMAIN w, s \notin WordSlots(r) PROVE w2[s] = w[s]
  <2>1. \A x \in S : x[1] # s
    BY <1>4, <1>7
  <2> QED BY <2>1, OverlayIs DEF w2
<1>8. /\ Stored(r, w2, o2) = Meant(r, f.data) /\ Counted(r, w2)
      /\ Arrivals(r, w2) = IF Uncounted(r) THEN 0 ELSE 1
  <2>1. Fits(r, f.data, o)
    BY DEF r
  <2>2. \A x \in StoredWords(r, f) : w2[x[1]] = x[2]
    BY <1>6 DEF S
  <2>3. (r.kind = "text" => o2[r.at] = f.data)
        /\ (r.kind = "into" => o2[r.at] = Copied(o[r.at], f.data))
    BY <1>3
  <2>4. /\ Stored(r, w2, o2) = Meant(r, f.data) /\ Counted(r, w2)
        /\ Arrivals(r, w2) = IF r.count < 0 \/ r.kind \in ArrayKinds \cup {"into"} THEN 0 ELSE 1
    BY <1>1, <2>1, <2>2, <2>3, ShowsArrival, SMTT(30)
  <2> QED BY <2>4 DEF Uncounted
<1>9. Right(h2, place, w2, o2)
  BY <1>2, <1>8 DEF Right, Shows, r
<1>10. PICK X : AllRight(h, w, o, X) /\ X \subseteq {} \cup {place}
  OBVIOUS
<1>11. AllRight(h2, w2, o2, {})
  BY <1>2, <1>3, <1>7, <1>9, <1>10, WritingAt DEF r
<1> QED BY <1>2, <1>3, <1>5, <1>11 DEF r, h2, S, w2, o2

(* A value cut short: of an array some elements have landed.               *)
LEMMA Filling ==
  ASSUME Laid(Words0, Objects0), NEW place \in Places, NEW h, NEW w, NEW o,
         Shaped(w, o), AllRight(h, w, o, {place} \cap ArrayPlaces) \/ AllRight(h, w, o, {}),
         Reads(h, place), NEW f, f.data \in Seq(Nat), NEW j \in 0 .. Len(f.data)
  PROVE  LET w2 == Overlay(w, Filled(RowAt[place], f, j))
         IN Shaped(w2, o) /\ AllRight(h, w2, o, {place} \cap ArrayPlaces)
<1> DEFINE r  == RowAt[place]
           S  == Filled(r, f, j)
           w2 == Overlay(w, S)
<1>1. r \in Row /\ RowHasRoom(r) /\ WordSlots(r) \subseteq DOMAIN w
  BY LaidFacts
<1>2. DOMAIN w2 = DOMAIN w
  BY DEF Overlay
<1>3. Shaped(w2, o)
  BY <1>2 DEF Shaped
<1>4. ASSUME NEW x \in S PROVE x[1] \in WordSlots(r) /\ r.kind \in ArrayKinds
  <2>1. r.kind \in ArrayKinds /\ ~(Len(f.data) > r.cap)
    BY <1>4 DEF Filled
  <2>2. PICK k \in 1 .. j : x = <<r.at + k - 1, f.data[k]>>
    BY <1>4, <2>1 DEF Filled
  <2>3. r.at \in Nat /\ r.cap \in Nat /\ Len(f.data) \in Nat
    BY <1>1, RowFacts
  <2>4. r.at + k - 1 \in r.at .. r.at + r.cap - 1
    BY <2>1, <2>3
  <2>5. r.at .. r.at + r.cap - 1 \subseteq WordSlots(r)
    BY <2>1, SlotsByKind
  <2> QED BY <2>1, <2>2, <2>4, <2>5
<1> HIDE DEF S, w2
<1>5. ASSUME NEW s \in DOMAIN w, s \notin WordSlots(r) PROVE w2[s] = w[s]
  <2>1. \A x \in S : x[1] # s
    BY <1>4, <1>5
  <2> QED BY <2>1, OverlayIs DEF w2
<1>6. CASE place \in ArrayPlaces
  <2>1. PICK X : AllRight(h, w, o, X) /\ X \subseteq {place}
    OBVIOUS
  <2>2. {place} \cap ArrayPlaces = {place}
    BY <1>6
  <2>3. X \subseteq {place} \cup {place} /\ place \in {place}
    BY <2>1
  <2>4. h.opt = h.opt /\ \A l \in Places : l # place => h.val[l] = h.val[l] /\ h.seen[l] = h.seen[l]
    OBVIOUS
  <2>5. \A s \in DOMAIN o : s \notin ObjectSlots(r) => o[s] = o[s]
    OBVIOUS
  <2>6. AllRight(h, w2, o, {place})
    BY <1>5, <2>1, <2>3, <2>4, <2>5, WritingAt
  <2> QED BY <1>3, <2>2, <2>6 DEF w2, S
<1>7. CASE place \notin ArrayPlaces
  <2>1. {place} \cap ArrayPlaces = {}
    BY <1>7
  <2>2. S = {}
    BY <1>4, <1>7 DEF ArrayPlaces
  <2>3. \A s \in DOMAIN w : w2[s] = w[s]
    <3> SUFFICES ASSUME NEW s \in DOMAIN w PROVE w2[s] = w[s]
      OBVIOUS
    <3>1. \A x \in S : x[1] # s
      BY <2>2
    <3> QED BY <3>1, OverlayIs DEF w2
  <2>4. AllRight(h, w, o, {})
    BY <2>1
  <2>5. ASSUME Reads(h, place) PROVE Right(h, place, w2, o)
    <3>1. Right(h, place, w, o)
      BY <2>4, <2>5 DEF AllRight
    <3>2. \A s \in WordSlots(r) : w2[s] = w[s]
      BY <1>1, <2>3
    <3>3. /\ Stored(r, w2, o) = Stored(r, w, o) /\ Arrivals(r, w2) = Arrivals(r, w)
          /\ Counted(r, w2)
      <4>1. Counted(r, w)
        BY <3>1 DEF Right
      <4>2. \A s \in ObjectSlots(r) : o[s] = o[s]
        OBVIOUS
      <4> HIDE DEF r
      <4> QED BY <1>1, <3>2, <4>1, <4>2, ShownBySlots
    <3> QED BY <3>1, <3>3 DEF Right, Shows
  <2>6. AllRight(h, w2, o, {})
    <3>1. \A s \in DOMAIN o : s \notin ObjectSlots(r) => o[s] = o[s]
      OBVIOUS
    <3>2. {} \subseteq {} \cup {place}
      OBVIOUS
    <3>3. \A l \in Places : l # place => h.val[l] = h.val[l] /\ h.seen[l] = h.seen[l]
      OBVIOUS
    <3> QED BY <1>5, <2>4, <2>5, <3>1, <3>2, <3>3, WritingAt
  <2> QED BY <1>3, <2>1, <2>6 DEF w2, S
<1> QED BY <1>6, <1>7

(* A sequence the table descends into.                                     *)
LEMMA Opening ==
  ASSUME Laid(Words0, Objects0), NEW place \in Places, NEW h, NEW w, NEW o,
         IsTree(h), Unseen(h), Shaped(w, o), AllRight(h, w, o, {}), Reads(h, place),
         RowAt[place].kind = "sequence"
  PROVE  LET r  == RowAt[place]
             h2 == Opened(r, h, place)
             w2 == IF r.count < 0 THEN w ELSE [w EXCEPT ![r.count] = @ + 1]
         IN IsTree(h2) /\ Unseen(h2) /\ h2.opt = h.opt /\ Shaped(w2, o) /\ AllRight(h2, w2, o, {})
<1> DEFINE r  == RowAt[place]
           h2 == Opened(r, h, place)
           w2 == IF r.count < 0 THEN w ELSE [w EXCEPT ![r.count] = @ + 1]
<1>1. r \in Row /\ RowHasRoom(r) /\ WordSlots(r) \subseteq DOMAIN w
  BY LaidFacts
<1>2. /\ IsTree(h2) /\ Unseen(h2) /\ h2.opt = h.opt /\ h2.val = h.val
      /\ h2.seen[place] = IF r.count < 0 THEN h.seen[place] ELSE h.seen[place] + 1
      /\ \A l \in Places : l # place => h2.seen[l] = h.seen[l]
  BY OpenedIs
<1>3. WordSlots(r) = IF r.count < 0 THEN {} ELSE {r.count}
  <2>1. r.kind \notin ScalarKinds \cup ArrayKinds
    BY DEF ScalarKinds, ArrayKinds
  <2> HIDE DEF r
  <2> QED BY <2>1, SlotsByKind
<1>4. /\ DOMAIN w2 = DOMAIN w
      /\ \A s \in DOMAIN w : s \notin WordSlots(r) => w2[s] = w[s]
      /\ ~(r.count < 0) => w2[r.count] = w[r.count] + 1
  <2>1. CASE r.count < 0
    BY <2>1
  <2>2. CASE ~(r.count < 0)
    <3>1. r.count \in DOMAIN w
      BY <1>1, <1>3, <2>2
    <3> HIDE DEF r
    <3> QED BY <1>3, <2>2, <3>1
  <2> QED BY <2>1, <2>2
<1>5. Shaped(w2, o)
  <2> HIDE DEF w2
  <2> QED BY <1>4 DEF Shaped
<1>6. Right(h, place, w, o)
  BY DEF AllRight
<1>7. Right(h2, place, w2, o)
  <2>1. r.kind = "sequence" /\ r.kind \notin ArrayKinds \cup {"into"}
    BY DEF ArrayKinds
  <2>2. Stored(r, w, o) = <<>> /\ Stored(r, w2, o) = <<>>
    <3> HIDE DEF r, w2
    <3> QED BY <2>1, StoredByKind
  <2>3. Counted(r, w2)
    BY <2>1 DEF Counted
  <2>4. /\ Arrivals(r, w) = IF r.count < 0 THEN 0 ELSE w[r.count]
        /\ Arrivals(r, w2) = IF r.count < 0 THEN 0 ELSE w2[r.count]
    BY <2>1 DEF Arrivals
  <2>5. Arrivals(r, w) = h.seen[place] /\ Stored(r, w, o) = h.val[place]
    BY <1>6 DEF Right, Shows
  <2> HIDE DEF w2, h2
  <2> QED BY <1>2, <1>4, <2>2, <2>3, <2>4, <2>5 DEF Right, Shows
<1>8. AllRight(h2, w2, o, {})
  <2>1. {} \subseteq {} \cup {place}
    OBVIOUS
  <2>2. \A s \in DOMAIN o : s \notin ObjectSlots(r) => o[s] = o[s]
    OBVIOUS
  <2>3. \A l \in Places : l # place => h2.val[l] = h.val[l] /\ h2.seen[l] = h.seen[l]
    BY <1>2
  <2> HIDE DEF w2, h2
  <2> QED BY <1>2, <1>4, <1>7, <2>1, <2>2, <2>3, WritingAt
<1> QED BY <1>2, <1>5, <1>8

-----------------------------------------------------------------------------
(* The storage means the message: the invariant.                           *)

(* The tables of the open scopes lie on one path, and a reader reaches it. *)
InTree(open, h) ==
  \A k \in 1 .. Len(open) : open[k].table # "none" =>
    /\ open[k].path \in Paths /\ Tab(open[k].path) = open[k].table
    /\ Reads(h, open[k].path)
    /\ \A m \in 1 .. k : open[m].table # "none" => Under(open[m].path, open[k].path)

(* A value the table names is taken up again in the row it began in.       *)
Suspended ==
  resume /\ resumeEntry # <<>> =>
    resumeEntry = <<bmap, cur.id>> /\ Typed(bmap, cur.id, cur.tag) /\ cur \in Arriving

(* Of a value in flight only an array has touched its slots.               *)
Excepted == InFlight \cap ArrayPlaces

StorageKept ==
  /\ scopes[1].by = "decoder" /\ scopes[1].path = <<>>
  /\ Shaped(words, objects) /\ IsTree(held) /\ Unseen(held)
  /\ InTree(scopes, held) /\ Suspended
  /\ verdict = "fine" => AllRight(held, words, objects, Excepted)

-----------------------------------------------------------------------------
LEMMA InnermostPath ==
  ASSUME IInv, Heard, StorageKept, bmap # "none"
  PROVE  /\ Here.path \in Paths /\ Tab(Here.path) = bmap /\ Reads(held, Here.path)
         /\ Here.by # "handler" /\ Here.table = bmap
<1>1. Here = scopes[depth + 1] /\ Here.table = bmap /\ depth \in Nat /\ Len(scopes) = depth + 1
  BY HereFacts, InnermostFacts DEF IInv, Typing
<1>2. depth + 1 \in 1 .. Len(scopes)
  BY <1>1
<1>3. Here.path \in Paths /\ Tab(Here.path) = bmap /\ Reads(held, Here.path)
  BY <1>1, <1>2 DEF StorageKept, InTree
<1>4. Here.by # "handler"
  <2>1. CASE depth = 0
    BY <1>1, <2>1 DEF StorageKept
  <2>2. CASE depth # 0
    <3>1. depth + 1 \in 2 .. depth + 1
      BY <1>1, <2>2
    <3> QED BY <1>1, <3>1 DEF Heard
  <2> QED BY <2>1, <2>2
<1> QED BY <1>1, <1>3, <1>4

(* What the innermost scope may change in the tree leaves the outer ones.  *)
LEMMA StayingInTree ==
  ASSUME TablesFormTree, IInv, Heard, StorageKept, bmap # "none", NEW h, Reads(h, Here.path)
  PROVE  InTree(scopes, h)
<1>1. Here = scopes[depth + 1] /\ Here.table = bmap /\ depth \in Nat /\ Len(scopes) = depth + 1
  BY HereFacts, InnermostFacts DEF IInv, Typing
<1>2. InTree(scopes, held)
  BY DEF StorageKept
<1>3. SUFFICES ASSUME NEW k \in 1 .. Len(scopes), scopes[k].table # "none"
               PROVE  Reads(h, scopes[k].path)
  BY <1>2 DEF InTree
<1>4. Under(scopes[k].path, Here.path)
  <2>1. k \in 1 .. depth + 1 /\ depth + 1 \in 1 .. Len(scopes)
    BY <1>1
  <2> QED BY <1>1, <1>2, <1>3, <2>1 DEF InTree
<1>5. scopes[k].path \in Seq(Nat) /\ Here.path \in Seq(Nat)
  <2>1. scopes[k].path \in Paths
    BY <1>2, <1>3 DEF InTree
  <2> QED BY <2>1, InnermostPath, PathIsScope
<1> QED BY <1>4, <1>5, ReadsAbove

LEMMA OpeningInTree ==
  ASSUME TablesFormTree, IInv, Heard, StorageKept, NEW new \in ScopeSet, Opens(new),
         NEW h, InTree(scopes, h),
         new.table # "none" =>
           /\ bmap # "none" /\ new.path \in Paths /\ Tab(new.path) = new.table
           /\ Reads(h, new.path) /\ Under(Here.path, new.path)
  PROVE  InTree(scopes', h)
<1>1. Here = scopes[depth + 1] /\ Here.table = bmap /\ depth \in Nat /\ Len(scopes) = depth + 1
  BY HereFacts, InnermostFacts DEF IInv, Typing
<1>2. /\ Len(scopes') = depth + 2 /\ scopes'[depth + 2] = new
      /\ \A k \in 1 .. depth + 1 : scopes'[k] = scopes[k]
  <2>1. Len(scopes') = depth' + 1 /\ depth' = depth + 1
    BY OpeningExtends DEF Opens
  <2> QED BY <1>1, <2>1, OpeningExtends
<1>3. SUFFICES ASSUME NEW k \in 1 .. depth + 2, scopes'[k].table # "none"
               PROVE  /\ scopes'[k].path \in Paths /\ Tab(scopes'[k].path) = scopes'[k].table
                      /\ Reads(h, scopes'[k].path)
                      /\ \A m \in 1 .. k : scopes'[m].table # "none" =>
                           Under(scopes'[m].path, scopes'[k].path)
  BY <1>2 DEF InTree
<1>4. CASE k \in 1 .. depth + 1
  <2>1. scopes'[k] = scopes[k] /\ \A m \in 1 .. k : scopes'[m] = scopes[m]
    BY <1>1, <1>2, <1>4
  <2> QED BY <1>1, <1>3, <1>4, <2>1 DEF InTree
<1>5. CASE k = depth + 2
  <2>1. new.table # "none" /\ scopes'[k] = new
    BY <1>2, <1>3, <1>5
  <2>2. Here.path \in Paths /\ Here.path \in Seq(Nat) /\ new.path \in Seq(Nat)
    BY <2>1, InnermostPath, PathIsScope
  <2>3. ASSUME NEW m \in 1 .. k, scopes'[m].table # "none"
        PROVE  Under(scopes'[m].path, new.path)
    <3>1. CASE m = depth + 2
      <4>1. scopes'[m] = new
        BY <1>2, <3>1
      <4> QED BY <2>2, <4>1, UnderStep
    <3>2. CASE m # depth + 2
      <4>1. m \in 1 .. depth + 1 /\ depth + 1 \in 1 .. Len(scopes)
        BY <1>1, <1>5, <3>2
      <4>2. scopes'[m] = scopes[m]
        BY <1>2, <4>1
      <4>3. scopes[m].path \in Paths /\ Under(scopes[m].path, Here.path)
        BY <1>1, <2>1, <2>3, <4>1, <4>2 DEF InTree
      <4>4. scopes[m].path \in Seq(Nat)
        BY <4>3, PathIsScope
      <4> QED BY <2>1, <2>2, <4>2, <4>3, <4>4, InLine
    <3> QED BY <3>1, <3>2
  <2> QED BY <2>1, <2>3
<1> QED BY <1>1, <1>4, <1>5

LEMMA ClosingInTree ==
  ASSUME IInv, Closes, InTree(scopes, held)
  PROVE  InTree(scopes', held) /\ scopes'[1] = scopes[1]
<1>1. /\ depth \in Nat /\ depth > 0 /\ Len(scopes') = depth
      /\ \A k \in 1 .. depth : scopes'[k] = scopes[k]
  BY ClosingForgets
<1>2. Len(scopes) = depth + 1
  BY DEF IInv, Typing
<1>3. SUFFICES ASSUME NEW k \in 1 .. depth, scopes'[k].table # "none"
               PROVE  /\ scopes'[k].path \in Paths /\ Tab(scopes'[k].path) = scopes'[k].table
                      /\ Reads(held, scopes'[k].path)
                      /\ \A m \in 1 .. k : scopes'[m].table # "none" =>
                           Under(scopes'[m].path, scopes'[k].path)
  BY <1>1 DEF InTree
<1>4. scopes'[k] = scopes[k] /\ \A m \in 1 .. k : scopes'[m] = scopes[m]
  BY <1>1
<1>5. k \in 1 .. Len(scopes)
  BY <1>1, <1>2
<1> QED BY <1>3, <1>4, <1>5 DEF InTree

(* How the read of a value of a row ended.                                 *)
LEMMA OutcomeIs ==
  ASSUME NEW r \in Row, NEW f, f.data \in Seq(Nat), NEW j,
         r.kind = "into" => objects[r.at] \in Seq(Nat)
  PROVE  LET outcome == MappedOutcome(r, f, j) IN
         /\ outcome \in {"INVALID", "LIMIT", "REFUSED", "INCOMPLETE", "stored"}
         /\ outcome = "stored" =>
              /\ Declared(r) < 0 \/ Len(f.data) <= Declared(r)
              /\ r.kind = "into" => Len(f.data) <= Len(objects[r.at])
         /\ outcome = "REFUSED" => r.kind = "into"
<1>1. Declared(r) \in Int
  BY RowFacts DEF Declared
<1>2. Len(f.data) \in Nat /\ (r.kind = "into" => Len(objects[r.at]) \in Nat)
  OBVIOUS
<1> DEFINE n == Len(f.data)
           d == Declared(r)
           room == Len(objects[r.at])
           wide == TooWide(r, f, j)
<1>3. MappedOutcome(r, f, j) =
        CASE d >= 0 /\ n > d -> "INVALID"
          [] r.kind = "text" /\ d < 0 /\ n > LengthCap -> "LIMIT"
          [] r.kind = "into" /\ ~(d >= 0 /\ n > d) /\ n > room -> "REFUSED"
          [] OTHER -> IF wide THEN "INVALID" ELSE IF j < n THEN "INCOMPLETE" ELSE "stored"
  BY Zenon DEF MappedOutcome
<1>4. d \in Int /\ n \in Nat /\ (r.kind = "into" => room \in Nat)
  BY <1>1, <1>2
<1> HIDE DEF n, d, room, wide
<1>5. CASE d >= 0 /\ n > d
  <2>1. MappedOutcome(r, f, j) = "INVALID"
    BY <1>3, <1>4, <1>5
  <2> QED BY <2>1
<1>6. CASE ~(d >= 0 /\ n > d) /\ r.kind = "text" /\ d < 0 /\ n > LengthCap
  <2>1. MappedOutcome(r, f, j) = "LIMIT"
    BY <1>3, <1>6
  <2> QED BY <2>1
<1>7. CASE ~(d >= 0 /\ n > d) /\ r.kind = "into" /\ n > room
  <2>1. MappedOutcome(r, f, j) = "REFUSED"
    BY <1>3, <1>7
  <2> QED BY <1>7, <2>1
<1>8. CASE /\ ~(d >= 0 /\ n > d) /\ ~(r.kind = "text" /\ d < 0 /\ n > LengthCap)
           /\ ~(r.kind = "into" /\ n > room)
  <2>1. MappedOutcome(r, f, j) = IF wide THEN "INVALID" ELSE IF j < n THEN "INCOMPLETE" ELSE "stored"
    BY <1>3, <1>8
  <2>2. d < 0 \/ n <= d
    BY <1>4, <1>8
  <2>3. r.kind = "into" => n <= room
    BY <1>4, <1>8
  <2>4. MappedOutcome(r, f, j) \in {"INVALID", "INCOMPLETE", "stored"}
    BY <2>1
  <2> QED BY <2>2, <2>3, <2>4 DEF n, d, room
<1> QED BY <1>5, <1>6, <1>7, <1>8

(* A value that lands fits its row.                                        *)
LEMMA LandedFits ==
  ASSUME NEW r \in Row, NEW f \in Arriving, Tag(r.kind) = f.tag, NEW j,
         MappedOutcome(r, f, j) = "stored", NEW o,
         r.kind = "into" => /\ objects[r.at] \in Seq(Nat) /\ o[r.at] \in Seq(Nat)
                            /\ Len(o[r.at]) = Len(objects[r.at])
  PROVE  Fits(r, f.data, o)
<1>1. /\ f.tag \in Tags \ {"sequence"} /\ f.data \in Payloads[f.tag]
      /\ f.data \in Seq(Nat) /\ (f.tag = "unsigned" => Len(f.data) = 1)
  BY PayloadAssumption DEF Arriving, Fields
<1>2. /\ Declared(r) < 0 \/ Len(f.data) <= Declared(r)
      /\ r.kind = "into" => Len(f.data) <= Len(objects[r.at])
  BY <1>1, OutcomeIs
<1>3. r.kind # "sequence"
  BY <1>1 DEF Tag
<1>4. r.kind \in ScalarKinds => Len(f.data) = 1
  BY <1>1 DEF ScalarKinds, Tag
<1>5. r.kind \in ArrayKinds => Len(f.data) <= r.cap
  <2> SUFFICES ASSUME r.kind \in ArrayKinds PROVE Len(f.data) <= r.cap
    OBVIOUS
  <2>1. Declared(r) = r.cap
    BY DEF Declared, ManyWordsKinds
  <2> QED BY <1>2, <2>1, RowFacts
<1>6. r.kind = "into" => o[r.at] \in Seq(Nat) /\ Len(f.data) <= Len(o[r.at])
  BY <1>2
<1> QED BY <1>1, <1>3, <1>4, <1>5, <1>6 DEF Fits

(* A value of a row, arriving or taken up again.                           *)
LEMMA ValueKeepsStorage ==
  ASSUME Laid(Words0, Objects0), IInv, Heard, StorageKept, verdict = "fine",
         NEW f \in Arriving, Typed(bmap, f.id, f.tag), NEW j \in 0 .. Len(f.data),
         MappedField(<<bmap, f.id>>, f, j), scopes' = scopes, bmap' = bmap,
         Excepted = {} \/ Excepted = {Append(Here.path, f.id)} \cap ArrayPlaces
  PROVE  StorageKept'
<1> DEFINE p  == Here.path
           i  == f.id
           e  == <<bmap, i>>
           place == Append(p, i)
           r  == RowAt[place]
           h2 == Selected(held, place)
           w2 == WordsSelected(e)
           o2 == ObjectsSelected(e)
           outcome == MappedOutcome(r, f, j)
<1>1. TablesFormTree /\ bmap # "none" /\ i \in DOMAIN T[bmap].rows /\ Tag(T[bmap].rows[i].kind) = f.tag
  BY DEF Laid, Typed, Names
<1>2. p \in Paths /\ Tab(p) = bmap /\ Reads(held, p) /\ Here.by # "handler"
  BY <1>1, InnermostPath
<1>3. p \in Seq(Nat) /\ TableAt[p] = T[bmap] /\ i \in DOMAIN TableAt[p].rows
  BY <1>1, <1>2, PathIsScope
<1>4. place \in Places /\ r = T[bmap].rows[i] /\ i \in Nat
  BY <1>1, <1>2, <1>3, PlaceFacts
<1>5. e[1] = bmap /\ e[2] = i /\ e # <<>>
  OBVIOUS
<1>6. f.data \in Seq(Nat) /\ f.tag # "sequence"
  BY PayloadAssumption DEF Arriving, Fields
<1>7. /\ Shaped(words, objects) /\ IsTree(held) /\ Unseen(held) /\ AllRight(held, words, objects, Excepted)
  BY DEF StorageKept
<1>8. /\ IsTree(h2) /\ Reads(h2, place) /\ Shaped(w2, o2) /\ AllRight(h2, w2, o2, Excepted)
  BY <1>2, <1>3, <1>7, Selecting
<1>9. Unseen(h2)
  BY <1>3, <1>4, <1>7, SelectedUnseen
<1>10. /\ words' = IF outcome = "stored" THEN Overlay(w2, StoredWords(r, f))
                                         ELSE Overlay(w2, Filled(r, f, j))
       /\ objects' = IF outcome # "stored" THEN o2 ELSE StoredObjects(r, f, o2)
       /\ held' = IF outcome = "stored" THEN Replaced(r, h2, place, f.data) ELSE h2
       /\ Settled(outcome, e, f)
  BY <1>2, <1>4, <1>5, Zenon DEF MappedField, StoredObjects
<1> HIDE DEF p, i, e, place, r, h2, w2, o2, outcome
<1>11. /\ r \in Row
       /\ r.kind = "into" => /\ objects[r.at] \in Seq(Nat) /\ o2[r.at] \in Seq(Nat)
                             /\ Len(o2[r.at]) = Len(objects[r.at])
  BY <1>1, <1>4, <1>7, <1>8, PlaceIs DEF Shaped, r
<1>12. /\ outcome \in {"INVALID", "LIMIT", "REFUSED", "INCOMPLETE", "stored"}
       /\ outcome = "REFUSED" => r.kind = "into"
  BY <1>6, <1>11, OutcomeIs DEF outcome
<1>13. /\ resume' = (outcome = "INCOMPLETE")
       /\ resume' => resumeEntry' = e /\ cur' = f
       /\ verdict' = IF outcome \in {"INVALID", "LIMIT"} THEN outcome ELSE verdict
  BY <1>10 DEF Settled
<1>14. Suspended'
  BY <1>13 DEF Suspended, e, i
<1>15. Here' = Here
  BY DEF Here, Last
<1>16. /\ resume' => InFlight' = {place}
       /\ ~resume' => InFlight' = {}
  BY <1>5, <1>13, <1>15 DEF InFlight, place, p, i
<1>17. AllRight(h2, w2, o2, {place} \cap ArrayPlaces) \/ AllRight(h2, w2, o2, {})
  BY <1>8 DEF place, p, i
<1>18. ASSUME outcome = "stored"
       PROVE  /\ IsTree(held') /\ Unseen(held') /\ held'.opt = h2.opt
              /\ Shaped(words', objects') /\ AllRight(held', words', objects', {})
  <2>1. Fits(r, f.data, o2)
    BY <1>1, <1>4, <1>11, <1>18, LandedFits DEF outcome
  <2>2. /\ IsTree(Replaced(r, h2, place, f.data)) /\ Unseen(Replaced(r, h2, place, f.data))
        /\ Shaped(Overlay(w2, StoredWords(r, f)), StoredObjects(r, f, o2))
        /\ AllRight(Replaced(r, h2, place, f.data), Overlay(w2, StoredWords(r, f)),
                    StoredObjects(r, f, o2), {})
    BY <1>4, <1>8, <1>9, <1>17, <2>1, Storing, Zenon DEF r
  <2>3. Replaced(r, h2, place, f.data).opt = h2.opt
    <3>1. Arrived(h2, place, f.data, Replaced(r, h2, place, f.data))
      BY <1>4, <1>8, <1>9, ReplacedIs DEF r
    <3> QED BY <3>1 DEF Arrived
  <2> QED BY <1>10, <1>18, <2>2, <2>3
<1>19. ASSUME outcome # "stored"
       PROVE  /\ held' = h2 /\ Shaped(words', objects')
              /\ AllRight(held', words', objects', {place} \cap ArrayPlaces)
  <2>1. /\ Shaped(Overlay(w2, Filled(r, f, j)), o2)
        /\ AllRight(h2, Overlay(w2, Filled(r, f, j)), o2, {place} \cap ArrayPlaces)
    BY <1>4, <1>6, <1>8, <1>17, Filling DEF r
  <2> QED BY <1>10, <1>19, <2>1
<1>20. /\ IsTree(held') /\ Unseen(held') /\ held'.opt = h2.opt /\ Shaped(words', objects')
  BY <1>8, <1>9, <1>18, <1>19
<1>21. ASSUME verdict' = "fine" PROVE AllRight(held', words', objects', Excepted')
  <2>1. CASE outcome = "stored"
    <3>1. Excepted' = {}
      BY <1>13, <1>16, <2>1 DEF Excepted
    <3> QED BY <1>18, <2>1, <3>1
  <2>2. CASE outcome = "INCOMPLETE"
    <3>1. Excepted' = {place} \cap ArrayPlaces
      BY <1>13, <1>16, <2>2 DEF Excepted, ArrayPlaces
    <3> QED BY <1>19, <2>2, <3>1
  <2>3. CASE outcome = "REFUSED"
    <3>1. Excepted' = {}
      BY <1>13, <1>16, <2>3 DEF Excepted
    <3>2. {place} \cap ArrayPlaces = {}
      BY <1>12, <2>3 DEF ArrayPlaces, ArrayKinds, r
    <3> QED BY <1>19, <2>3, <3>1, <3>2
  <2>4. CASE outcome \in {"INVALID", "LIMIT"}
    BY <1>13, <1>21, <2>4
  <2> QED BY <1>12, <2>1, <2>2, <2>3, <2>4
<1>22. InTree(scopes', held')
  <2>1. Reads(held', p)
    <3>1. Reads(h2, p)
      <4>1. Reads(h2, Append(p, i))
        BY <1>8 DEF place
      <4> QED BY <1>1, <1>3, <1>4, <4>1, ReadsStep
    <3> QED BY <1>20, <3>1 DEF Reads
  <2> QED BY <1>1, <2>1, StayingInTree DEF p
<1>23. scopes'[1].by = "decoder" /\ scopes'[1].path = <<>>
  BY DEF StorageKept
<1> QED BY <1>14, <1>20, <1>21, <1>22, <1>23 DEF StorageKept

(* The steps that leave the storage alone.                                 *)
LEMMA LeavingStorage ==
  ASSUME StorageKept, words' = words, objects' = objects, held' = held,
         ~resume \/ resumeEntry = <<>>, ~resume' \/ resumeEntry' = <<>>,
         scopes'[1] = scopes[1], InTree(scopes', held),
         verdict' = "fine" => verdict = "fine"
  PROVE  StorageKept'
<1>1. Excepted = {} /\ Excepted' = {} /\ Suspended'
  BY DEF Excepted, InFlight, Suspended
<1>2. /\ Shaped(words', objects') /\ IsTree(held') /\ Unseen(held') /\ InTree(scopes', held')
      /\ scopes'[1].by = "decoder" /\ scopes'[1].path = <<>>
  BY DEF StorageKept
<1>3. verdict' = "fine" => AllRight(held', words', objects', Excepted')
  BY <1>1 DEF StorageKept
<1> QED BY <1>1, <1>2, <1>3 DEF StorageKept

LEMMA ClosingKeepsStorage ==
  ASSUME IInv, StorageKept, EndOfBoundScope \/ EndOfHandlerScope
  PROVE  StorageKept'
<1>1. Closes /\ Walking /\ UNCHANGED <<storage, flight, held>>
  BY DEF EndOfBoundScope, EndOfHandlerScope, CloseScope, Closes
<1>2. InTree(scopes', held) /\ scopes'[1] = scopes[1]
  BY <1>1, ClosingInTree DEF StorageKept
<1> QED BY <1>1, <1>2, LeavingStorage DEF storage, flight, Walking

LEMMA OpenToHandlerKeepsStorage ==
  ASSUME Laid(Words0, Objects0), IInv, Heard, StorageKept, NEW id \in Ids, OpenToHandler(id)
  PROVE  StorageKept'
<1> DEFINE heir == IF Replies(Here.who, id) \in Handlers THEN Replies(Here.who, id) ELSE Here.who
           new == Scope("none", heir, "handler", <<>>)
<1>1. /\ Walking /\ UNCHANGED <<storage, flight, held>> /\ Opens(new)
  BY DEF OpenToHandler, StartAt, Opens
<1>2. Here.who \in Listeners
  BY HereFacts DEF IInv, ScopeSet
<1>3. new \in ScopeSet /\ new.table = "none"
  BY <1>2 DEF Scope, ScopeSet, Listeners
<1> HIDE DEF new
<1>4. InTree(scopes', held)
  BY <1>1, <1>3, OpeningInTree DEF StorageKept, Laid
<1>5. scopes'[1] = scopes[1]
  BY <1>1, <1>3, OpeningExtends, HereFacts DEF IInv
<1> QED BY <1>1, <1>4, <1>5, LeavingStorage DEF storage, flight, Walking

LEMMA SkippingKeepsStorage ==
  ASSUME StorageKept,
         \/ TooDeep
         \/ \E id \in Ids : SkipSequence(id)
         \/ \E f \in Arriving : SkipField(f)
  PROVE  StorageKept'
<1>1. /\ Walking /\ words' = words /\ objects' = objects /\ held' = held /\ scopes' = scopes
      /\ resume' = resume /\ resumeEntry' = resumeEntry
      /\ verdict' = "fine" => verdict = "fine"
  BY DEF TooDeep, SkipSequence, SkipField, StartAt, Walking, storage, flight
<1>2. InTree(scopes', held)
  BY <1>1 DEF StorageKept
<1> QED BY <1>1, <1>2, LeavingStorage DEF Walking

LEMMA VisitKeepsStorage ==
  ASSUME StorageKept, NEW f \in Arriving, NEW j, Visit(f, j)
  PROVE  StorageKept'
<1>1. /\ Walking /\ words' = words /\ objects' = objects /\ held' = held /\ scopes' = scopes
      /\ \E outcome : Settled(outcome, <<>>, f)
  BY DEF Visit, storage
<1>2. (~resume' \/ resumeEntry' = <<>>) /\ ~resume
  BY <1>1 DEF Settled, Walking
<1>3. InTree(scopes', held)
  BY <1>1 DEF StorageKept
<1> QED BY <1>1, <1>2, <1>3, LeavingStorage DEF Walking

LEMMA ResumeVisitKeepsStorage ==
  ASSUME StorageKept, NEW j, ResumeVisit(j)
  PROVE  StorageKept'
<1>1. /\ words' = words /\ objects' = objects /\ held' = held /\ scopes' = scopes
      /\ resumeEntry = <<>> /\ resumeEntry' = <<>> /\ verdict = "fine"
  BY DEF ResumeVisit, storage
<1>2. InTree(scopes', held)
  BY <1>1 DEF StorageKept
<1> QED BY <1>1, <1>2, LeavingStorage

LEMMA MappedKeepsStorage ==
  ASSUME Laid(Words0, Objects0), IInv, Heard, StorageKept,
         NEW f \in Arriving, NEW j \in 0 .. Len(f.data), Mapped(f, j)
  PROVE  StorageKept'
<1>1. /\ Walking /\ Typed(bmap, f.id, f.tag) /\ MappedField(<<bmap, f.id>>, f, j)
      /\ scopes' = scopes /\ bmap' = bmap
  BY DEF Mapped, routing
<1>2. verdict = "fine" /\ Excepted = {}
  BY <1>1 DEF Walking, Excepted, InFlight
<1> QED BY <1>1, <1>2, ValueKeepsStorage

LEMMA ResumeMappedKeepsStorage ==
  ASSUME Laid(Words0, Objects0), IInv, Heard, StorageKept,
         NEW j \in 0 .. Len(cur.data), ResumeMapped(j)
  PROVE  StorageKept'
<1>1. /\ verdict = "fine" /\ resume /\ resumeEntry # <<>>
      /\ MappedField(resumeEntry, cur, j) /\ scopes' = scopes /\ bmap' = bmap
  BY DEF ResumeMapped
<1>2. resumeEntry = <<bmap, cur.id>> /\ Typed(bmap, cur.id, cur.tag) /\ cur \in Arriving
  BY <1>1 DEF StorageKept, Suspended
<1>3. Excepted = {Append(Here.path, cur.id)} \cap ArrayPlaces
  BY <1>1 DEF Excepted, InFlight
<1>4. PICK f : f = cur
  OBVIOUS
<1>5. /\ f \in Arriving /\ j \in 0 .. Len(f.data) /\ Typed(bmap, f.id, f.tag)
      /\ MappedField(<<bmap, f.id>>, f, j) /\ Excepted = {Append(Here.path, f.id)} \cap ArrayPlaces
  BY <1>1, <1>2, <1>3, <1>4
<1> QED BY <1>1, <1>5, ValueKeepsStorage

LEMMA DescendKeepsStorage ==
  ASSUME Laid(Words0, Objects0), IInv, Heard, StorageKept, NEW id \in Ids, Descend(id)
  PROVE  StorageKept'
<1> DEFINE p  == Here.path
           place == Append(p, id)
           r  == RowAt[place]
           h2 == Selected(held, place)
           w2 == WordsSelected(<<bmap, id>>)
           o2 == ObjectsSelected(<<bmap, id>>)
           new == Scope(r.child, Here.who, "table", place)
<1>1. /\ TablesFormTree /\ bmap # "none" /\ id \in DOMAIN T[bmap].rows
      /\ Tag(T[bmap].rows[id].kind) = "sequence"
  BY DEF Laid, Descend, Typed, Names
<1>2. p \in Paths /\ Tab(p) = bmap /\ Reads(held, p) /\ Here.table = bmap
  BY <1>1, InnermostPath
<1>3. p \in Seq(Nat) /\ TableAt[p] = T[bmap] /\ id \in DOMAIN TableAt[p].rows
  BY <1>1, <1>2, PathIsScope
<1>4. place \in Places /\ r = T[bmap].rows[id] /\ id \in Nat /\ r = TableAt[p].rows[id]
  BY <1>1, <1>2, <1>3, PlaceFacts
<1>5. r.kind = "sequence"
  BY <1>1, <1>4 DEF Tag
<1>6. /\ Shaped(words, objects) /\ IsTree(held) /\ Unseen(held)
      /\ verdict = "fine" /\ ~resume
      /\ AllRight(held, words, objects, {})
  BY DEF StorageKept, Descend, StartAt, Walking, Excepted, InFlight
<1>7. /\ IsTree(h2) /\ Reads(h2, place) /\ Shaped(w2, o2) /\ AllRight(h2, w2, o2, {})
  BY <1>2, <1>3, <1>6, Selecting
<1>8. Unseen(h2)
  BY <1>3, <1>4, <1>6, SelectedUnseen
<1>9. /\ words' = IF r.count < 0 THEN w2 ELSE [w2 EXCEPT ![r.count] = @ + 1]
      /\ objects' = o2 /\ held' = Opened(r, h2, place)
      /\ Opens(new) /\ UNCHANGED flight
  BY <1>4, Zenon DEF Descend, StartAt, Opens
<1>10. new \in ScopeSet /\ new.table = r.child /\ new.path = place
  <2>1. r.child \in DOMAIN T
    <3>1. bmap \in DOMAIN T
      BY <1>1, <1>2, PathIsScope
    <3> QED BY <1>1, <1>4, <3>1, ChildIsTable
  <2>2. Here.who \in Listeners /\ place \in Seq(Ids)
    BY HereFacts, AppendProperties DEF IInv, ScopeSet
  <2> QED BY <2>1, <2>2 DEF Scope, ScopeSet
<1>11. place \in Paths /\ Tab(place) = r.child
  BY <1>1, <1>2, <1>3, <1>4, <1>5, PathBelow
<1> HIDE DEF p, place, r, h2, w2, o2, new
<1>12. /\ IsTree(held') /\ Unseen(held') /\ held'.opt = h2.opt /\ Shaped(words', objects')
       /\ AllRight(held', words', objects', {})
  BY <1>4, <1>5, <1>7, <1>8, <1>9, Opening DEF r
<1>13. Reads(held', place) /\ Reads(held', p)
  <2>1. Reads(h2, Append(p, id))
    BY <1>7 DEF place
  <2>2. Reads(h2, p)
    BY <1>1, <1>3, <1>4, <2>1, ReadsStep
  <2> QED BY <1>7, <1>12, <2>2 DEF Reads
<1>14. InTree(scopes', held')
  <2>1. InTree(scopes, held')
    BY <1>1, <1>13, StayingInTree DEF p
  <2>2. Under(p, place)
    <3>1. Under(p, p)
      BY <1>3, UnderStep
    <3>2. Above(p, Append(p, id))
      BY <1>3, <1>4, <3>1, UnderStep
    <3> QED BY <3>2 DEF Above, place
  <2>3. PICK h : h = held'
    OBVIOUS
  <2>4. InTree(scopes', h)
    BY <1>1, <1>9, <1>10, <1>11, <1>13, <2>1, <2>2, <2>3, OpeningInTree DEF p
  <2> QED BY <2>3, <2>4
<1>15. scopes'[1].by = "decoder" /\ scopes'[1].path = <<>>
  BY <1>9, <1>10, OpeningExtends, HereFacts DEF IInv, StorageKept
<1>16. Excepted' = {} /\ Suspended'
  BY <1>6, <1>9 DEF Excepted, InFlight, Suspended, flight
<1> QED BY <1>12, <1>14, <1>15, <1>16 DEF StorageKept

(* What the caller prepared.                                               *)
LEMMA PreparedRight ==
  ASSUME Laid(Words0, Objects0), NEW h, h = Prepared(Words0, Objects0)
  PROVE  /\ Shaped(Words0, Objects0) /\ IsTree(h) /\ Unseen(h)
         /\ AllRight(h, Words0, Objects0, {})
<1>1. /\ h = [val  |-> [l \in Places |-> Stored(RowAt[l], Words0, Objects0)],
              seen |-> [l \in Places |-> Arrivals(RowAt[l], Words0)],
              opt  |-> [u \in Unions |-> Words0[TableAt[u].which]]]
  BY DEF Prepared
<1>2. /\ h.val  = [l \in Places |-> Stored(RowAt[l], Words0, Objects0)]
      /\ h.seen = [l \in Places |-> Arrivals(RowAt[l], Words0)]
      /\ h.opt  = [u \in Unions |-> Words0[TableAt[u].which]]
  BY <1>1
<1>3. IsTree(h)
  <2>1. h = [val |-> h.val, seen |-> h.seen, opt |-> h.opt]
    BY <1>1, <1>2
  <2>2. h.val = [l \in Places |-> h.val[l]] /\ h.seen = [l \in Places |-> h.seen[l]]
    BY <1>2
  <2>3. h.opt = [u \in Unions |-> h.opt[u]]
    BY <1>2
  <2> QED BY <2>1, <2>2, <2>3 DEF IsTree
<1>4. Unseen(h)
  BY <1>2 DEF Unseen, Uncounted, Arrivals
<1>5. Shaped(Words0, Objects0)
  BY DEF Laid, HasRoom, Shaped
<1>6. \A l \in Places : Reads(h, l) => Right(h, l, Words0, Objects0)
  <2>1. \A l \in Places : Reads(h, l) => Counted(RowAt[l], Words0)
    BY DEF Laid
  <2> QED BY <1>2, <2>1 DEF Right, Shows
<1>7. \A u \in Unions : ShowsOption(h, u, Words0)
  BY <1>2 DEF ShowsOption
<1> QED BY <1>3, <1>4, <1>5, <1>6, <1>7 DEF AllRight

LEMMA RootInTree ==
  ASSUME Laid(Words0, Objects0), NEW open, Len(open) = 1,
         open[1].table = Root, open[1].path = <<>>, NEW h
  PROVE  InTree(open, h)
<1>1. ASSUME Root # "none"
      PROVE  /\ <<>> \in Paths /\ Tab(<<>>) = Root /\ Reads(h, <<>>) /\ Under(<<>>, <<>>)
  <2>1. TablesFormTree
    BY DEF Laid
  <2>2. <<>> \in Paths /\ Tab(<<>>) = Root
    BY <1>1, <2>1, RootIsPath
  <2>3. \A u \in Unions : ~Above(u, <<>>)
    <3> SUFFICES ASSUME NEW u \in Unions PROVE ~Above(u, <<>>)
      OBVIOUS
    <3>1. u \in Seq(Nat)
      BY <2>1, UnionIsPath
    <3>2. Len(u) \in Nat
      BY <3>1
    <3>3. Len(<<>>) = 0
      OBVIOUS
    <3> QED BY <3>2, <3>3 DEF Above
  <2>4. Under(<<>>, <<>>)
    <3>1. <<>> \in Seq(Nat)
      OBVIOUS
    <3> QED BY <3>1, UnderStep
  <2> QED BY <2>2, <2>3, <2>4 DEF Reads
<1>2. \A k \in 1 .. Len(open) : k = 1 /\ \A m \in 1 .. k : m = 1
  OBVIOUS
<1> QED BY <1>1, <1>2 DEF InTree

LEMMA InitStorage == Laid(Words0, Objects0) /\ Init => StorageKept
<1> SUFFICES ASSUME Laid(Words0, Objects0), Init PROVE StorageKept
  OBVIOUS
<1>1. /\ words = Words0 /\ objects = Objects0 /\ held = Prepared(Words0, Objects0) /\ ~resume
      /\ Len(scopes) = 1 /\ scopes[1].table = Root
      /\ scopes[1].by = "decoder" /\ scopes[1].path = <<>>
  BY DEF Init, Scope
<1>2. /\ Shaped(words, objects) /\ IsTree(held) /\ Unseen(held)
      /\ AllRight(held, words, objects, {})
  BY <1>1, PreparedRight
<1>3. InTree(scopes, held)
  BY <1>1, RootInTree
<1>4. Excepted = {} /\ Suspended
  BY <1>1 DEF Excepted, InFlight, Suspended
<1> QED BY <1>1, <1>2, <1>3, <1>4 DEF StorageKept

LEMMA ResetKeepsStorage ==
  ASSUME Laid(Words0, Objects0), IInv, StorageKept, Reset
  PROVE  StorageKept'
<1>1. /\ words' = Words0 /\ objects' = Objects0 /\ held' = Prepared(Words0, Objects0)
      /\ ~resume' /\ depth' = 0
  BY DEF Reset
<1>2. /\ Shaped(words', objects') /\ IsTree(held') /\ Unseen(held')
      /\ AllRight(held', words', objects', {})
  BY <1>1, PreparedRight
<1>3. Len(scopes') = 1 /\ scopes'[1] = scopes[1] /\ scopes'[1].table = Root
  <2>1. scopes \in Seq(ScopeSet) /\ Len(scopes) = depth + 1 /\ depth \in Nat
        /\ scopes[1].table = Root
    BY HereFacts DEF IInv, Typing, TablesKept
  <2>2. \A i \in 1 .. 1 : scopes[i] \in ScopeSet
    BY <2>1, ElementOfSeq
  <2>3. /\ Len(SubSeq(scopes, 1, 1)) = IF 1 <= 1 THEN 1 - 1 + 1 ELSE 0
        /\ \A i \in 1 .. 1 - 1 + 1 : SubSeq(scopes, 1, 1)[i] = scopes[1 + i - 1]
    BY <2>2, SubSeqProperties
  <2>4. scopes' = SubSeq(scopes, 1, 1)
    BY DEF Reset
  <2> QED BY <2>1, <2>3, <2>4
<1>4. scopes'[1].by = "decoder" /\ scopes'[1].path = <<>>
  BY <1>3 DEF StorageKept
<1>5. InTree(scopes', held')
  <2>1. PICK open, h : open = scopes' /\ h = held'
    OBVIOUS
  <2>2. InTree(open, h)
    BY <1>3, <1>4, <2>1, RootInTree
  <2> QED BY <2>1, <2>2
<1>6. Excepted' = {} /\ Suspended'
  BY <1>1 DEF Excepted, InFlight, Suspended
<1> QED BY <1>2, <1>4, <1>5, <1>6 DEF StorageKept

LEMMA NextStorage ==
  ASSUME Laid(Words0, Objects0)
  PROVE  IInv /\ Told /\ StorageKept /\ [Next]_vars => StorageKept'
<1> SUFFICES ASSUME IInv, Told, StorageKept, [Next]_vars PROVE StorageKept'
  OBVIOUS
<1>0. Heard
  BY DEF Told
<1>1. CASE EndOfBoundScope \/ EndOfHandlerScope
  BY <1>1, ClosingKeepsStorage
<1>2. CASE Reset
  BY <1>2, ResetKeepsStorage
<1>3. CASE \E id \in Ids : Descend(id)
  BY <1>0, <1>3, DescendKeepsStorage
<1>4. CASE \E id \in Ids : OpenToHandler(id)
  BY <1>0, <1>4, OpenToHandlerKeepsStorage
<1>5. CASE \/ TooDeep
           \/ \E id \in Ids : SkipSequence(id)
           \/ \E f \in Arriving : SkipField(f)
  BY <1>5, SkippingKeepsStorage
<1>6. CASE \E f \in Arriving : \E j \in 0 .. Len(f.data) : Mapped(f, j) \/ Visit(f, j)
  BY <1>0, <1>6, MappedKeepsStorage, VisitKeepsStorage
<1>7. CASE \E j \in 0 .. Len(cur.data) : ResumeMapped(j) \/ ResumeVisit(j)
  BY <1>0, <1>7, ResumeMappedKeepsStorage, ResumeVisitKeepsStorage
<1>8. CASE UNCHANGED vars
  <2>1. /\ words' = words /\ objects' = objects /\ held' = held /\ scopes' = scopes
        /\ resume' = resume /\ resumeEntry' = resumeEntry /\ cur' = cur /\ verdict' = verdict
        /\ bmap' = bmap
    BY <1>8 DEF vars, routing, storage, flight
  <2>2. Suspended' /\ Excepted' = Excepted
    BY <2>1 DEF StorageKept, Suspended, Excepted, InFlight, Here, Last
  <2> QED BY <2>1, <2>2 DEF StorageKept
<1> QED BY <1>1, <1>2, <1>3, <1>4, <1>5, <1>6, <1>7, <1>8 DEF Next

(***************************************************************************)
(* The storage means the message (decoder.py _mapped_field, binding.py     *)
(* _option_reset): whatever options the message selects and selects anew,  *)
(* whatever it leaves out, repeats or cuts at the end of a feed, and for   *)
(* any schema laid out as a tree, every place a reader reaches shows what  *)
(* the message says of it and every union the option held.                 *)
(***************************************************************************)
THEOREM StorageMeansMessage ==
  ASSUME Laid(Words0, Objects0)
  PROVE  Spec => []StorageShowsMessage
<1>1. Init => Told
  <2> SUFFICES ASSUME Init PROVE Told
    OBVIOUS
  <2>1. depth = 0 /\ ~resume /\ said = <<>> /\ due = <<>>
    BY DEF Init
  <2> QED BY <2>1 DEF Told, Heard, RouteKept
<1>2. StorageKept => StorageShowsMessage
  <2> SUFFICES ASSUME StorageKept, verdict = "fine"
               PROVE  /\ \A place \in Places \ InFlight :
                           Reads(held, place) => Shows(held, place, words, objects)
                      /\ \A path \in Unions : Reads(held, path) => ShowsOption(held, path, words)
    BY DEF StorageShowsMessage
  <2>1. AllRight(held, words, objects, Excepted) /\ Excepted \subseteq InFlight
    BY DEF StorageKept, Excepted
  <2> QED BY <2>1 DEF AllRight, Right
<1>3. Init => StorageKept
  BY InitStorage
<1>4. IInv /\ Told /\ StorageKept /\ [Next]_vars => StorageKept'
  BY NextStorage
<1> QED BY <1>1, <1>2, <1>3, <1>4, InitIInv, NextIInv, NextTold, PTL DEF Spec
=============================================================================
