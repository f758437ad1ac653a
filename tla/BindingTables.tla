---------------------------- MODULE BindingTables ----------------------------
(***************************************************************************)
(* Building destination tables (binding.py): rows are bound one call at a  *)
(* time, children shared; the first use of a table freezes it with every   *)
(* table below it, and from then on four things are kept that were worked  *)
(* out from the rows: the storage a decoder must be given, the decoders    *)
(* that were let through on it, what a re-selected option starts from, and *)
(* the native engine's flattened copy (_speedups.pyx, _Compiled).          *)
(*                                                                         *)
(* A call refused before it changes anything is no step.  An optional      *)
(* argument is <<>> or <<value>>.                                          *)
(***************************************************************************)
EXTENDS DestinationTable, SequencesExt

CONSTANTS
  Tables,     (* the Binding objects                                        *)
  Which,      (* which_at of each, or -1                                    *)
  First,      (* default_id of each                                         *)
  Closed,     (* the tables built with closed=True                          *)
  UnsignedMax,(* UNSIGNED_MAX: what a slot holds, 2^64 - 1 in the code      *)
  SignedMax,  (* SIGNED_MAX, 2^63 - 1                                       *)
  IdMax,      (* ID_MAX                                                     *)
  CapMax,     (* ARRAY_MAX and FIXLEN_MAX                                   *)
  IdxMax,     (* _IDX_MAX_ID: the largest id a direct index is built for    *)
  Args,       (* the arguments each binder method is called with            *)
  Storage,    (* the buffers offered, as slots of words and of objects;     *)
              (* -1: none, or words that cannot be cast to slots            *)
  MaxRows,    (* bound: rows of each table                                  *)
  MaxDecoders (* bound: decoders built                                      *)

ASSUME TablesAssumption ==
  /\ IsFiniteSet(Tables) /\ "none" \notin Tables
  /\ Which \in [Tables -> Nat \cup {-1}] /\ First \in [Tables -> 0 .. IdMax]
  /\ Closed \subseteq Tables

ASSUME LimitsAssumption ==
  /\ SignedMax \in Nat /\ UnsignedMax = 2 * SignedMax + 1
  /\ IdMax \in Nat /\ CapMax \in Nat
  /\ \A s \in Storage : s.words \in Int /\ s.objects \in Int

Optional(x, S) == x \in Seq(S) /\ Len(x) <= 1

(* _index: whatever else a caller passes is refused with no effect.  A     *)
(* float default is the word its double is kept as.                        *)
Numbers(a) == a.id \in Int /\ Optional(a.count, Int)

ASSUME ArgsAssumption ==
  /\ \A a \in Args.unsigned : Numbers(a) /\ a.at \in Int
       /\ Optional(a.max, Int) /\ Optional(a.default, Int)
  /\ \A a \in Args.signed : Numbers(a) /\ a.at \in Int
       /\ Optional(a.min, Int) /\ Optional(a.max, Int) /\ Optional(a.default, Int)
  /\ \A a \in Args.boolean : Numbers(a) /\ a.at \in Int /\ Optional(a.default, Int)
  /\ \A a \in Args.float : Numbers(a) /\ a.at \in Int
       /\ Optional(a.default, 0 .. UnsignedMax)
  /\ \A a \in Args.floats : Numbers(a) /\ a.at \in Int /\ a.cap \in Int
       /\ Optional(a.default, Seq(0 .. UnsignedMax))
  /\ \A a \in Args.text : Numbers(a) /\ a.at \in Int /\ a.cap \in Int
       /\ Optional(a.default, Seq(Nat))
  /\ \A a \in Args.array : Numbers(a) /\ a.at \in Int /\ a.cap \in Int
       /\ Optional(a.max, Int) /\ Optional(a.default, Seq(Int))
  /\ \A a \in Args.sequence : Numbers(a)

VARIABLES
  entries,     (* _entries and _by_id: the rows in the order they came      *)
  needWords,   (* _words_required                                           *)
  needObjects, (* _objects_required                                         *)
  frozen,      (* the tables with _frozen set                               *)
  sizes,       (* _tree, <<>> until it is asked for                         *)
  plans,       (* the rows' which_at and reset_*, <<>> until freeze         *)
  compiled,    (* _compiled, <<>> until the native engine asks for it       *)
  decoders     (* history: the decoders built, each with its storage        *)

contents == <<entries, needWords, needObjects>>
derived  == <<sizes, plans, compiled>>
vars     == <<contents, frozen, derived, decoders>>

SignedMin == -SignedMax - 1

SignedKinds == {"signed", "signeds"}
RowKinds    == OneWordKinds \cup ManyWordsKinds \cup ObjectKinds \cup {"sequence"}

(* Entry, of binding.py.                                                   *)
Rows == [id : Nat, kind : RowKinds, at : Nat, cap : Nat, count : Nat \cup {-1},
         child : Tables \cup {"none"}, lo : Int, hi : Nat, default : Seq(Nat)]

(* _by_id                                                                  *)
ById(rows) == [id \in {rows[k].id : k \in DOMAIN rows} |->
                 rows[CHOOSE k \in DOMAIN rows : rows[k].id = id]]

TableOf(t) == [closed |-> t \in Closed, which |-> Which[t], first |-> First[t],
               rows |-> ById(entries[t])]

T == [t \in Tables |-> TableOf(t)]

(* Binding.__init__                                                        *)
Init ==
  /\ entries = [t \in Tables |-> <<>>]
  /\ needWords = [t \in Tables |-> IF Which[t] >= 0 THEN Which[t] + 1 ELSE 0]
  /\ needObjects = [t \in Tables |-> 0]
  /\ frozen = {}
  /\ sizes = [t \in Tables |-> <<>>] /\ plans = [t \in Tables |-> <<>>]
  /\ compiled = [t \in Tables |-> <<>>]
  /\ decoders = {}

-----------------------------------------------------------------------------
(* Binding a row.                                                          *)

Larger(m, n) == IF m < n THEN n ELSE m

Opt(arg, otherwise) == IF arg = <<>> THEN otherwise ELSE arg[1]

Width(kind, a) ==
  [lo |-> Opt(a.lo, SignedMin),
   hi |-> Opt(a.hi, IF kind \in SignedKinds THEN SignedMax ELSE UnsignedMax)]

WidthFits(kind, a) ==
  LET w == Width(kind, a)
  IN /\ w.lo \in SignedMin .. SignedMax
     /\ w.hi \in 0 .. (IF kind \in SignedKinds THEN SignedMax ELSE UnsignedMax)

(* A single-precision number is one double in two.                         *)
Single(d) == d - (d % 2)

(* Broken on purpose: a negative default kept as it is.                    *)
DefaultBitsUnwrapped(kind, d) ==
  IF kind \in {"boolean", "flags"} /\ d # 0 THEN 1 ELSE d

(* _default_bits: the word a declared default is kept as.                  *)
DefaultBits(kind, d) ==
  CASE kind \in {"boolean", "flags"}    -> IF d # 0 THEN 1 ELSE 0
    [] kind \in {"float32", "floats32"} -> Single(d)
    [] kind \in {"float64", "floats64"} -> d
    [] OTHER -> (d % (UnsignedMax + 1))

DefaultBitsFit(kind, w, d) ==
  kind \in SignedKinds \cup {"unsigned", "array"} => d \in w.lo .. w.hi

(* _default_payload, with _default_elements and _default_object: only a    *)
(* member of an ordinary table may start non-empty, within its bound.      *)
DefaultFits(t, kind, a) ==
  \/ a.default = <<>>
  \/ /\ kind \in OneWordKinds
     /\ DefaultBitsFit(kind, Width(kind, a), a.default[1])
  \/ /\ kind \in ManyWordsKinds /\ Which[t] < 0 /\ Len(a.default[1]) <= a.cap
     /\ \A k \in DOMAIN a.default[1] :
          DefaultBitsFit(kind, Width(kind, a), a.default[1][k])
  \/ /\ kind \in ObjectKinds /\ Which[t] < 0
     /\ a.cap = 0 \/ Len(a.default[1]) <= a.cap

Default(kind, a) ==
  CASE kind \in OneWordKinds   -> <<DefaultBits(kind, Opt(a.default, 0))>>
    [] kind \in ManyWordsKinds -> [k \in DOMAIN Opt(a.default, <<>>) |->
                                     DefaultBits(kind, a.default[1][k])]
    [] OTHER                   -> Opt(a.default, <<>>)

Entry(kind, a) ==
  [id |-> a.id, kind |-> kind, at |-> a.at, cap |-> a.cap,
   count |-> Opt(a.count, -1), child |-> a.child, lo |-> Width(kind, a).lo,
   hi |-> Width(kind, a).hi, default |-> Default(kind, a)]

(* Broken on purpose: rows may come after the table's first use.           *)
InRangeEvenFrozen(t, a) ==
  /\ a.id \in 0 .. IdMax /\ \A k \in DOMAIN entries[t] : entries[t][k].id # a.id
  /\ a.at >= 0 /\ a.cap \in 0 .. CapMax
  /\ a.count # <<>> => a.count[1] >= 0

(* What _add looks at before it changes anything.                          *)
InRange(t, a) ==
  /\ t \notin frozen
  /\ a.id \in 0 .. IdMax /\ \A k \in DOMAIN entries[t] : entries[t][k].id # a.id
  /\ a.at >= 0 /\ a.cap \in 0 .. CapMax
  /\ a.count # <<>> => a.count[1] >= 0

(* Broken on purpose: the count slot is not claimed.                       *)
WordSlotsWithoutCount(kind, a) ==
  CASE kind \in OneWordKinds   -> a.at + 1
    [] kind \in ManyWordsKinds -> a.at + a.cap
    [] OTHER                   -> 0

WordSlots(kind, a) ==
  Larger(Opt(a.count, -1) + 1,
         CASE kind \in OneWordKinds   -> a.at + 1
           [] kind \in ManyWordsKinds -> a.at + a.cap
           [] OTHER                   -> 0)

(***************************************************************************)
(* _add.  The storage the row would need is claimed before its width and   *)
(* its default are looked at: a call refused for either leaves no row, but *)
(* the table asks for the storage from then on.                            *)
(***************************************************************************)
Add(t, kind, a) ==
  /\ Len(entries[t]) < MaxRows[t]
  /\ InRange(t, a)
  /\ needWords' = [needWords EXCEPT ![t] = Larger(@, WordSlots(kind, a))]
  /\ needObjects' = [needObjects EXCEPT ![t] =
                       Larger(@, IF kind \in ObjectKinds THEN a.at + 1 ELSE 0)]
  /\ entries' = IF WidthFits(kind, a) /\ DefaultFits(t, kind, a)
                THEN [entries EXCEPT ![t] = Append(@, Entry(kind, a))]
                ELSE entries
  /\ UNCHANGED <<frozen, derived, decoders>>

(* The binder methods.  Each leaves to _add what it has no argument for.   *)
Plain(id, at, cap, count, default) ==
  [id |-> id, at |-> at, cap |-> cap, count |-> count, child |-> "none",
   lo |-> <<>>, hi |-> <<>>, default |-> default]

Unsigned(t) == \E a \in Args.unsigned :
  Add(t, "unsigned", [Plain(a.id, a.at, 0, a.count, a.default) EXCEPT !.hi = a.max])

Signed(t) == \E a \in Args.signed :
  Add(t, "signed", [Plain(a.id, a.at, 0, a.count, a.default)
                      EXCEPT !.lo = a.min, !.hi = a.max])

Boolean(t) == \E a \in Args.boolean :
  Add(t, "boolean", Plain(a.id, a.at, 0, a.count, a.default))

Float32(t) == \E a \in Args.float :
  Add(t, "float32", Plain(a.id, a.at, 0, a.count, a.default))

Float64(t) == \E a \in Args.float :
  Add(t, "float64", Plain(a.id, a.at, 0, a.count, a.default))

String(t) == \E a \in Args.text :
  Add(t, "text", Plain(a.id, a.at, a.cap, a.count, a.default))

StringInto(t) == \E a \in Args.text :
  Add(t, "into", Plain(a.id, a.at, a.cap, a.count, a.default))

(* Broken on purpose: elements are let down to the signed minimum.         *)
UnsignedArrayNoFloor(t) == \E a \in Args.array :
  Add(t, "array", [Plain(a.id, a.at, a.cap, a.count, a.default) EXCEPT !.hi = a.max])

UnsignedArray(t) == \E a \in Args.array :
  Add(t, "array", [Plain(a.id, a.at, a.cap, a.count, a.default)
                     EXCEPT !.lo = <<0>>, !.hi = a.max])

SignedArray(t) == \E a \in Args.array :
  Add(t, "signeds", [Plain(a.id, a.at, a.cap, a.count, a.default)
                       EXCEPT !.hi = a.max])

BooleanArray(t) == \E a \in Args.array :
  Add(t, "flags", Plain(a.id, a.at, a.cap, a.count, a.default))

Float32Array(t) == \E a \in Args.floats :
  Add(t, "floats32", Plain(a.id, a.at, a.cap, a.count, a.default))

Float64Array(t) == \E a \in Args.floats :
  Add(t, "floats64", Plain(a.id, a.at, a.cap, a.count, a.default))

(* A child already in use by a decoder is refused.                         *)
Sequence(t) == \E a \in Args.sequence, child \in Tables :
  /\ child \in frozen => t \in frozen
  /\ Add(t, "sequence", [Plain(a.id, 0, 0, a.count, <<>>) EXCEPT !.child = child])

-----------------------------------------------------------------------------
(* Using a table.                                                          *)

ChildrenOf(u) == ChildrenIn({entries[u][k] : k \in DOMAIN entries[u]})

(* _reachable: this table and every one below it; a schema may be a cycle. *)
Reachable(t) ==
  {u \in Tables :
     \A S \in SUBSET Tables :
       t \in S /\ (\A v \in S : ChildrenOf(v) \subseteq S) => u \in S}

(* freeze: the rows of a one-of table learn its which slot and what their  *)
(* option starts from (_option_reset).                                     *)
Plan(r, which) ==
  [which |-> which, words |-> ResetWords(T, r), objects |-> ResetObjects(T, r),
   into |-> ResetInto(T, r)]

PlansOf(u) ==
  IF Which[u] < 0 THEN <<>>
  ELSE [k \in DOMAIN entries[u] |-> Plan(entries[u][k], Which[u])]

(* Broken on purpose: only the table itself is frozen.                     *)
FrozenAlone(t) == frozen \cup {t}

Frozen(t) == frozen \cup Reachable(t)

(* Broken on purpose: the plans of the tables below are left for later.    *)
PlansAfterAlone(t) == [plans EXCEPT ![t] = PlansOf(t)]

PlansAfter(t) ==
  [u \in Tables |-> IF u \in Reachable(t) THEN PlansOf(u) ELSE plans[u]]

Freeze(t) ==
  /\ frozen' = Frozen(t) /\ plans' = PlansAfter(t)
  /\ UNCHANGED <<contents, sizes, compiled, decoders>>

(* _tree_sizes: worked out once.  Asking freezes the tree.                 *)
Largest(need, S) == Max({need[u] : u \in S})

SizesNow(t) == <<Largest(needWords, Reachable(t)), Largest(needObjects, Reachable(t))>>

SizesOf(t) == IF sizes[t] = <<>> THEN SizesNow(t) ELSE sizes[t]

AskSizes(t) ==
  /\ sizes[t] = <<>>
  /\ frozen' = Frozen(t) /\ plans' = PlansAfter(t)
  /\ sizes' = [sizes EXCEPT ![t] = SizesNow(t)]
  /\ UNCHANGED <<contents, compiled, decoders>>

(* The storage check; no objects list will do when none is needed.         *)
LetThrough(t, s, need) ==
  decoders' = IF s.words >= need[1] /\ (need[2] = 0 \/ s.objects >= need[2])
              THEN decoders \cup {[table |-> t, words |-> s.words, objects |-> s.objects]}
              ELSE decoders

(* Decoder(binding=t, words, objects), pure engine (_bind_words): words no *)
(* table could use are refused before the table is touched.                *)
BuildDecoder(t) == \E s \in Storage :
  /\ s.words >= 0 /\ Cardinality(decoders) < MaxDecoders
  /\ frozen' = Frozen(t) /\ plans' = PlansAfter(t)
  /\ sizes' = [sizes EXCEPT ![t] = SizesOf(t)]
  /\ LetThrough(t, s, SizesOf(t))
  /\ UNCHANGED <<contents, compiled>>

-----------------------------------------------------------------------------
(* The native engine's copy of a tree: the rows of all tables end to end,  *)
(* each table a slice of them with an index from ids to places in it, the  *)
(* reset plans end to end as well.                                         *)

Slices(seqs) ==
  [flat |-> FlattenSeq(seqs),
   at   |-> [k \in DOMAIN seqs |-> Len(FlattenSeq(SubSeq(seqs, 1, k - 1)))],
   n    |-> [k \in DOMAIN seqs |-> Len(seqs[k])]]

ResetOf(plan, part) == IF plan = <<>> THEN <<>> ELSE SetToSeq(plan[1][part])

(* _Compiled.build                                                         *)
Build(t, plan) ==
  LET order == SetToSeq(Reachable(t))
      rows  == Slices([k \in DOMAIN order |-> entries[order[k]]])
      own   == FlattenSeq([k \in DOMAIN order |->
                 [j \in DOMAIN entries[order[k]] |->
                    IF plan[order[k]] = <<>> THEN <<>> ELSE <<plan[order[k]][j]>>]])
      top(k) == LET ids == {r.id : r \in Range(entries[order[k]])} \cup {0}
                IN CHOOSE n \in ids : \A id \in ids : id <= n
      dense(k) == rows.n[k] > 0 /\ top(k) <= IdxMax
  IN [ent   |-> rows.flat,
      child |-> [j \in DOMAIN rows.flat |->
                   IF rows.flat[j].kind # "sequence" THEN 0
                   ELSE CHOOSE k \in DOMAIN order : order[k] = rows.flat[j].child],
      words   |-> Slices([j \in DOMAIN own |-> ResetOf(own[j], "words")]),
      objects |-> Slices([j \in DOMAIN own |-> ResetOf(own[j], "objects")]),
      into    |-> Slices([j \in DOMAIN own |-> ResetOf(own[j], "into")]),
      which   |-> [j \in DOMAIN own |-> IF own[j] = <<>> THEN -1 ELSE own[j][1].which],
      table |-> order,
      tab   |-> [k \in DOMAIN order |->
                   [first |-> rows.at[k], n |-> rows.n[k], max |-> top(k),
                    closed |-> order[k] \in Closed,
                    idx |-> IF ~dense(k) THEN <<>>
                            ELSE [id \in 0 .. top(k) |->
                                    IF \E j \in 1 .. rows.n[k] : rows.flat[rows.at[k] + j].id = id
                                    THEN CHOOSE j \in 1 .. rows.n[k] :
                                           rows.flat[rows.at[k] + j].id = id
                                    ELSE -1]]],
      sizes |-> SizesOf(t)]

(* Broken on purpose: the search runs over the rows of every table.        *)
LookupAnywhere(c, tab, id) ==
  LET hits == {j \in DOMAIN c.ent : c.ent[j].id = id}
  IN IF hits = {} THEN -1 ELSE CHOOSE j \in hits : \A i \in hits : j <= i

(* _lookup: a place in ent, or -1.                                         *)
Lookup(c, tab, id) ==
  LET t == c.tab[tab]
      hits == {j \in t.first + 1 .. t.first + t.n : c.ent[j].id = id}
  IN IF t.idx # <<>>
     THEN IF id > t.max \/ t.idx[id] < 0 THEN -1 ELSE t.first + t.idx[id]
     ELSE IF hits = {} THEN -1 ELSE CHOOSE j \in hits : \A i \in hits : j <= i

(* Decoder(...), native engine: the tree is compiled, and frozen, before   *)
(* the storage is looked at.                                               *)
BuildNative(t) == \E s \in Storage :
  /\ Cardinality(decoders) < MaxDecoders
  /\ IF compiled[t] # <<>> THEN UNCHANGED <<frozen, derived>>
     ELSE /\ frozen' = Frozen(t) /\ plans' = PlansAfter(t)
          /\ sizes' = [sizes EXCEPT ![t] = SizesOf(t)]
          /\ compiled' = [compiled EXCEPT ![t] = Build(t, PlansAfter(t))]
  /\ LetThrough(t, s, IF compiled[t] # <<>> THEN compiled[t].sizes ELSE SizesOf(t))
  /\ UNCHANGED contents

-----------------------------------------------------------------------------
Bind(t) ==
  \/ Unsigned(t) \/ Signed(t) \/ Boolean(t) \/ Float32(t) \/ Float64(t)
  \/ String(t) \/ StringInto(t)
  \/ UnsignedArray(t) \/ SignedArray(t) \/ BooleanArray(t)
  \/ Float32Array(t) \/ Float64Array(t)
  \/ Sequence(t)

Use(t) == Freeze(t) \/ AskSizes(t) \/ BuildDecoder(t) \/ BuildNative(t)

Next == \E t \in Tables : Bind(t) \/ Use(t)

Spec == Init /\ [][Next]_vars

-----------------------------------------------------------------------------
(* Properties.                                                             *)

(* What is known of the variables' types.                                  *)
TypeOK ==
  /\ entries \in [Tables -> Seq(Rows)]
  /\ needWords \in [Tables -> Nat] /\ needObjects \in [Tables -> Nat]
  /\ frozen \subseteq Tables
  /\ DOMAIN sizes = Tables /\ DOMAIN plans = Tables /\ DOMAIN compiled = Tables
  /\ \A d \in decoders : d.table \in Tables

(* freeze closes the whole tree: below a table in use every table is in    *)
(* use, so that nobody can add a row to a child behind a decoder's back.   *)
FrozenClosedDown == \A t \in frozen : ChildrenOf(t) \subseteq frozen

(* The slots a decoder over table u may write (_mapped_field, _take_which  *)
(* and the replay of a plan).                                              *)
OwnSlots(r) ==
  IF r.kind \in OneWordKinds THEN {r.at}
  ELSE IF r.kind \in ManyWordsKinds THEN r.at .. r.at + r.cap - 1 ELSE {}

WordsWritten(u) ==
  (UNION {OwnSlots(r) \cup ({r.count, Which[u]} \ {-1}) : r \in Range(entries[u])})
  \cup (UNION {{p[1] : p \in q.words} : q \in Range(plans[u])})

ObjectsWritten(u) ==
  {r.at : r \in {q \in Range(entries[u]) : q.kind \in ObjectKinds}}
  \cup (UNION {{p[1] : p \in q.objects \cup q.into} : q \in Range(plans[u])})

(* The storage a decoder was let through with has every slot that any row  *)
(* of any table of its tree, its count, its which slot or a reset plan     *)
(* writes: the stores of both engines are not bounds-checked one by one.   *)
Covered ==
  \A d \in decoders : \A u \in Reachable(d.table) :
    /\ \A s \in WordsWritten(u) : s < d.words
    /\ \A s \in ObjectsWritten(u) : s < d.objects

(* What freeze pushed onto the rows is what it would push now: no row of   *)
(* the option's sub-tree has come or changed since.                        *)
PlanCurrent == \A u \in frozen : plans[u] = PlansOf(u)

(* The sizes kept by a table and by its compiled copy are those of its     *)
(* tree as it is now.                                                      *)
CacheCurrent ==
  \A t \in Tables :
    /\ sizes[t] # <<>> => sizes[t] = SizesNow(t)
    /\ compiled[t] # <<>> => compiled[t].sizes = SizesNow(t)

Cut(s, k) == Range(SubSeq(s.flat, s.at[k] + 1, s.at[k] + s.n[k]))

(* The native engine finds under every id of every table of the tree the   *)
(* row the pure engine finds, whichever of its two searches the table got, *)
(* with the same child and the same reset plan.                            *)
CompiledFaithful ==
  \A t \in {u \in Tables : compiled[u] # <<>>} :
    LET c == compiled[t] IN
    /\ Range(c.table) = Reachable(t)
    /\ \A k \in DOMAIN c.table, id \in 0 .. IdMax :
         LET u == c.table[k]
             j == Lookup(c, k, id)
         IN IF id \notin DOMAIN ById(entries[u]) THEN j = -1
            ELSE /\ j \in DOMAIN c.ent /\ c.ent[j] = ById(entries[u])[id]
                 /\ c.ent[j].kind = "sequence" => c.table[c.child[j]] = c.ent[j].child
                 /\ c.which[j] = Which[u]
                 /\ Which[u] >= 0 =>
                      /\ Cut(c.words, j) = ResetWords(T, c.ent[j])
                      /\ Cut(c.objects, j) = ResetObjects(T, c.ent[j])
                      /\ Cut(c.into, j) = ResetInto(T, c.ent[j])

(* The words a value of the row's kind and declared width may leave.       *)
Arrivals(r) ==
  CASE r.kind \in {"unsigned", "array"}    -> 0 .. r.hi
    [] r.kind \in SignedKinds              -> {v % (UnsignedMax + 1) : v \in r.lo .. r.hi}
    [] r.kind \in {"boolean", "flags"}     -> {0, 1}
    [] r.kind \in {"float32", "floats32"}  -> {Single(d) : d \in 0 .. UnsignedMax}
    [] OTHER                               -> 0 .. UnsignedMax

Undeclared(r) == IF r.kind \in OneWordKinds THEN {0} ELSE {}

StartsAsArrival(r) == Range(r.default) \subseteq Arrivals(r) \cup Undeclared(r)

(* A declared default is a value the field's own arrival could leave, for  *)
(* every kind but a number without sign: _add leaves the lower end of that *)
(* one's width at the signed minimum, and a negative default passes.  A    *)
(* number with none starts from 0, whatever width is declared.             *)
DefaultsAreArrivals ==
  \A t \in Tables : \A r \in Range(entries[t]) :
    r.kind \notin ObjectKinds \cup {"unsigned"} => StartsAsArrival(r)

(* From its first use on a table and what was worked out from it stay.     *)
FrozenForGood ==
  [][\A t \in frozen :
       /\ t \in frozen'
       /\ entries'[t] = entries[t] /\ plans'[t] = plans[t]
       /\ needWords'[t] = needWords[t] /\ needObjects'[t] = needObjects[t]
       /\ sizes[t] # <<>> => sizes'[t] = sizes[t]]_vars
=============================================================================
