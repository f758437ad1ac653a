--------------------- MODULE EngineTwins_writers_proofs ---------------------
(***************************************************************************)
(* What a call of the writers comes to in either engine, for any word,     *)
(* ids, arguments, elements and room, on any encoder.                      *)
(*                                                                         *)
(* First, the three ways to encode a word (loop, inlined loop, word store) *)
(* write the same bytes.  Then a call is a list of steps: checks, which    *)
(* give the reason a call stops for, and writes behind the run of headers  *)
(* that was held back.  Each writer is shown, in both engines and in the   *)
(* order each of them checks, to stop for the same reason and to write the *)
(* bytes the field has; a typed array may stop between its elements, and   *)
(* then does so at the same one.  EngineTwins_proofs concludes from there. *)
(***************************************************************************)
EXTENDS EngineTwins, SequenceTheorems, WellFoundedInduction, TLAPS

-----------------------------------------------------------------------------
(* Varints: three ways to encode a word, which write the same bytes.       *)

(* A set of numbers has a least one.                                       *)
LEMMA LeastOf ==
  ASSUME NEW S, S \subseteq Nat, S # {}
  PROVE  \E n \in S : \A m \in S : n <= m
<1>1. IsWellFoundedOn(OpToRel(<, Nat), Nat)
  BY NatLessThanWellFounded
<1>2. PICK n \in S : \A m \in S : <<m, n>> \notin OpToRel(<, Nat)
  BY <1>1, WFMin, Zenon
<1>3. \A m \in S : ~(m < n)
  BY <1>2 DEF OpToRel
<1> QED BY <1>3

(* What a function on the numbers obeys that is defined by descent.        *)
Descends(f, m, b, d, op, D) == \A v \in D : f[v] = IF v < m THEN b[v] ELSE op[<<v, f[d[v]]>>]

Decreases(d, m) == d \in [Nat -> Nat] /\ \A v \in Nat : v >= m => d[v] < v

(* Two of them agree as far as both go.                                    *)
SameStart(m, b, d, op) ==
  \A n, k \in Nat : \A f, g :
    Descends(f, m, b, d, op, 0 .. n) /\ Descends(g, m, b, d, op, 0 .. k)
      => \A v \in 0 .. n : v <= k => f[v] = g[v]

LEMMA DescentAgrees ==
  ASSUME NEW m \in Nat, NEW b, NEW d, NEW op, Decreases(d, m)
  PROVE  SameStart(m, b, d, op)
<1> SUFFICES ASSUME NEW n \in Nat, NEW k \in Nat, NEW f, NEW g,
                    Descends(f, m, b, d, op, 0 .. n), Descends(g, m, b, d, op, 0 .. k)
             PROVE  \A v \in 0 .. n : v <= k => f[v] = g[v]
  BY DEF SameStart
<1> DEFINE Bad == {v \in 0 .. n : v <= k /\ f[v] # g[v]}
<1> SUFFICES ASSUME Bad # {} PROVE FALSE
  OBVIOUS
<1>1. PICK v \in Bad : \A u \in Bad : v <= u
  <2>1. Bad \subseteq Nat
    OBVIOUS
  <2> HIDE DEF Bad
  <2> QED BY <2>1, LeastOf
<1>2. v \in 0 .. n /\ v \in 0 .. k /\ f[v] # g[v]
  OBVIOUS
<1>3. v >= m
  <2> SUFFICES ASSUME v < m PROVE FALSE
    BY <1>2
  <2>1. f[v] = b[v] /\ g[v] = b[v]
    <3>1. f[v] = IF v < m THEN b[v] ELSE op[<<v, f[d[v]]>>]
      BY <1>2, Zenon DEF Descends
    <3>2. g[v] = IF v < m THEN b[v] ELSE op[<<v, g[d[v]]>>]
      BY <1>2, Zenon DEF Descends
    <3> QED BY <3>1, <3>2
  <2> QED BY <1>2, <2>1
<1>4. PICK u : u = d[v]
  OBVIOUS
<1>5. u \in Nat /\ u < v
  BY <1>2, <1>3, <1>4 DEF Decreases
<1>6. f[u] = g[u]
  <2>1. u \in 0 .. n /\ u <= k /\ ~(v <= u)
    BY <1>2, <1>5
  <2> QED BY <1>1, <2>1
<1>7. f[v] = op[<<v, f[u]>>] /\ g[v] = op[<<v, g[u]>>]
  BY <1>2, <1>3, <1>4 DEF Descends
<1> QED BY <1>2, <1>6, <1>7

LEMMA DescentExists ==
  ASSUME NEW S, NEW m \in Nat, NEW b \in [Nat -> S], NEW d \in [Nat -> Nat],
         NEW op \in [Nat \X S -> S], \A v \in Nat : v >= m => d[v] < v
  PROVE  \E f \in [Nat -> S] : Descends(f, m, b, d, op, Nat)
<1>a. SameStart(m, b, d, op)
  <2>1. Decreases(d, m)
    BY DEF Decreases
  <2> QED BY <2>1, DescentAgrees
<1> DEFINE Some(n) == \E f \in [0 .. n -> S] : Descends(f, m, b, d, op, 0 .. n)
           Bad == {n \in Nat : ~Some(n)}
<1>1. Bad = {}
  <2> SUFFICES ASSUME Bad # {} PROVE FALSE
    OBVIOUS
  <2> HIDE DEF Some
  <2>1. PICK n \in Bad : \A k \in Bad : n <= k
    <3>1. Bad \subseteq Nat
      OBVIOUS
    <3> HIDE DEF Bad
    <3> QED BY <3>1, LeastOf
  <2>2. n \in Nat /\ ~Some(n)
    OBVIOUS
  <2>3. \E f \in [0 .. n - 1 -> S] : Descends(f, m, b, d, op, 0 .. n - 1)
    <3>1. CASE n = 0
      <4>1. [v \in 0 .. n - 1 |-> b[v]] \in [0 .. n - 1 -> S]
        BY <3>1
      <4>2. Descends([v \in 0 .. n - 1 |-> b[v]], m, b, d, op, 0 .. n - 1)
        BY <3>1 DEF Descends
      <4> QED BY <4>1, <4>2
    <3>2. CASE n # 0
      <4>1. n - 1 \in Nat /\ ~(n <= n - 1)
        BY <2>2, <3>2
      <4>2. Some(n - 1)
        BY <2>1, <4>1
      <4> QED BY <4>2 DEF Some
    <3> QED BY <3>1, <3>2
  <2>4. PICK f \in [0 .. n - 1 -> S] : Descends(f, m, b, d, op, 0 .. n - 1)
    BY <2>3
  <2>5. PICK x : x = IF n < m THEN b[n] ELSE op[<<n, f[d[n]]>>]
    OBVIOUS
  <2>6. n >= m => d[n] \in 0 .. n - 1
    BY <2>2
  <2>7. x \in S
    <3>1. CASE n < m
      BY <2>2, <2>5, <3>1
    <3>2. CASE ~(n < m)
      <4>1. PICK u : u = d[n]
        OBVIOUS
      <4>2. u \in 0 .. n - 1
        BY <2>2, <2>6, <3>2, <4>1
      <4>3. <<n, f[u]>> \in Nat \X S
        BY <2>2, <4>2
      <4>4. op[<<n, f[u]>>] \in S
        BY <4>3
      <4> QED BY <2>5, <3>2, <4>1, <4>4
    <3> QED BY <3>1, <3>2
  <2>8. PICK g : g = [v \in 0 .. n |-> IF v = n THEN x ELSE f[v]]
    OBVIOUS
  <2>9. g \in [0 .. n -> S]
    BY <2>2, <2>7, <2>8
  <2>10. Descends(g, m, b, d, op, 0 .. n)
    <3> SUFFICES ASSUME NEW v \in 0 .. n
                 PROVE  g[v] = IF v < m THEN b[v] ELSE op[<<v, g[d[v]]>>]
      BY DEF Descends
    <3>1. v >= m => d[v] \in 0 .. n - 1 /\ g[d[v]] = f[d[v]]
      <4> SUFFICES ASSUME v >= m PROVE d[v] \in 0 .. n - 1 /\ g[d[v]] = f[d[v]]
        OBVIOUS
      <4>1. PICK u : u = d[v]
        OBVIOUS
      <4>2. u \in 0 .. n - 1
        BY <4>1, <2>2
      <4>3. g[u] = f[u]
        BY <2>2, <2>8, <4>2
      <4> QED BY <4>1, <4>2, <4>3
    <3>2. CASE v = n
      <4>1. g[v] = x
        BY <2>2, <2>8, <3>2
      <4>2. CASE v < m
        BY <2>5, <3>2, <4>1, <4>2
      <4>3. CASE ~(v < m)
        <5>1. g[d[v]] = f[d[v]]
          BY <2>2, <3>1, <4>3
        <5>2. x = op[<<v, f[d[v]]>>]
          BY <2>5, <3>2, <4>3
        <5> QED BY <4>1, <4>3, <5>1, <5>2
      <4> QED BY <4>2, <4>3
    <3>3. CASE v # n
      <4>1. v \in 0 .. n - 1 /\ g[v] = f[v]
        BY <2>2, <2>8, <3>3
      <4>2. f[v] = IF v < m THEN b[v] ELSE op[<<v, f[d[v]]>>]
        BY <2>4, <4>1, Zenon DEF Descends
      <4>3. CASE v < m
        BY <4>1, <4>2, <4>3
      <4>4. CASE ~(v < m)
        <5>1. g[d[v]] = f[d[v]]
          BY <2>2, <3>1, <4>4
        <5> QED BY <4>1, <4>2, <4>4, <5>1
      <4> QED BY <4>3, <4>4
    <3> QED BY <3>2, <3>3
  <2> QED BY <2>2, <2>9, <2>10 DEF Some
<1> DEFINE A(n) == CHOOSE f : f \in [0 .. n -> S] /\ Descends(f, m, b, d, op, 0 .. n)
<1>2. \A n \in Nat : A(n) \in [0 .. n -> S] /\ Descends(A(n), m, b, d, op, 0 .. n)
  <2> TAKE n \in Nat
  <2>1. Some(n)
    BY <1>1
  <2> QED BY <2>1, Zenon
<1> HIDE DEF A, Bad, Some
<1>3. PICK f : f = [v \in Nat |-> A(v)[v]]
  OBVIOUS
<1>4. f \in [Nat -> S]
  <2>1. \A v \in Nat : A(v)[v] \in S
    <3> TAKE v \in Nat
    <3>1. A(v) \in [0 .. v -> S] /\ v \in 0 .. v
      BY <1>2
    <3> QED BY <3>1
  <2> QED BY <1>3, <2>1
<1>5. Descends(f, m, b, d, op, Nat)
  <2> SUFFICES ASSUME NEW v \in Nat
               PROVE  f[v] = IF v < m THEN b[v] ELSE op[<<v, f[d[v]]>>]
    BY DEF Descends
  <2>1. PICK g : g = A(v)
    OBVIOUS
  <2>2. Descends(g, m, b, d, op, 0 .. v) /\ f[v] = g[v] /\ v \in 0 .. v
    BY <1>2, <1>3, <2>1
  <2>3. g[v] = IF v < m THEN b[v] ELSE op[<<v, g[d[v]]>>]
    BY <2>2 DEF Descends
  <2>4. CASE v < m
    BY <2>2, <2>3, <2>4
  <2>5. CASE ~(v < m)
    <3>1. PICK u : u = d[v]
      OBVIOUS
    <3>2. u \in Nat /\ u < v
      BY <2>5, <3>1
    <3>3. PICK h : h = A(u)
      OBVIOUS
    <3>4. Descends(h, m, b, d, op, 0 .. u) /\ f[u] = h[u] /\ u \in 0 .. u /\ u <= v
      BY <1>2, <1>3, <3>2, <3>3
    <3>5. h[u] = g[u]
      <4>1. \A n, k \in Nat : Descends(h, m, b, d, op, 0 .. n) /\ Descends(g, m, b, d, op, 0 .. k)
              => \A i \in 0 .. n : i <= k => h[i] = g[i]
        BY <1>a DEF SameStart
      <4>2. \A i \in 0 .. u : i <= v => h[i] = g[i]
        BY <2>2, <3>2, <3>4, <4>1
      <4> QED BY <3>4, <4>2
    <3> QED BY <2>2, <2>3, <2>5, <3>1, <3>4, <3>5
  <2> QED BY <2>4, <2>5
<1> QED BY <1>4, <1>5

(* What the powers of the base are, step by step.                          *)
LEMMA PowerIs ==
  /\ Power \in [Nat -> Nat] /\ Power[0] = 1
  /\ \A n \in Nat : Power[n + 1] = Base * Power[n]
<1> USE BaseAssumption
<1> DEFINE b  == [n \in Nat |-> 1]
           d  == [n \in Nat |-> IF n = 0 THEN 0 ELSE n - 1]
           op == [q \in Nat \X Nat |-> Base * q[2]]
<1>1. /\ b \in [Nat -> Nat] /\ d \in [Nat -> Nat] /\ \A v \in Nat : v >= 1 => d[v] < v
      /\ \A v \in Nat : v >= 1 => d[v] = v - 1
  OBVIOUS
<1>2. op \in [Nat \X Nat -> Nat]
  <2>1. \A q \in Nat \X Nat : Base * q[2] \in Nat
    OBVIOUS
  <2> QED BY <2>1
<1>3. \A x, y \in Nat : op[<<x, y>>] = Base * y
  OBVIOUS
<1>4. \A n \in Nat : b[n] = 1
  OBVIOUS
<1> HIDE DEF b, d, op
<1>5. PICK f \in [Nat -> Nat] : Descends(f, 1, b, d, op, Nat)
  BY <1>1, <1>2, DescentExists, ZenonT(30)
<1>6. \A n \in Nat : f[n] = IF n = 0 THEN 1 ELSE Base * f[n - 1]
  <2> SUFFICES ASSUME NEW n \in Nat PROVE f[n] = IF n = 0 THEN 1 ELSE Base * f[n - 1]
    OBVIOUS
  <2>1. f[n] = IF n < 1 THEN b[n] ELSE op[<<n, f[d[n]]>>]
    BY <1>5, Zenon DEF Descends
  <2>2. CASE n = 0
    BY <1>4, <2>1, <2>2
  <2>3. CASE n # 0
    <3>1. d[n] = n - 1 /\ ~(n < 1) /\ n - 1 \in Nat
      BY <1>1, <2>3
    <3>2. f[n] = op[<<n, f[n - 1]>>] /\ f[n - 1] \in Nat
      BY <1>5, <2>1, <3>1
    <3> QED BY <1>3, <2>3, <3>2
  <2> QED BY <2>2, <2>3
<1>7. f = [n \in Nat |-> IF n = 0 THEN 1 ELSE Base * f[n - 1]]
  BY <1>6
<1>8. Power = [n \in Nat |-> IF n = 0 THEN 1 ELSE Base * Power[n - 1]]
  BY <1>7, Zenon DEF Power
<1>9. PICK g : g = Power
  OBVIOUS
<1>10. \A n \in Nat : g[n] = IF n = 0 THEN 1 ELSE Base * g[n - 1]
  <2>1. g = [n \in Nat |-> IF n = 0 THEN 1 ELSE Base * g[n - 1]]
    BY <1>8, <1>9
  <2> QED BY <2>1
<1>11. \A n \in Nat : f[n] = g[n]
  <2> DEFINE Bad == {n \in Nat : f[n] # g[n]}
  <2> SUFFICES ASSUME Bad # {} PROVE FALSE
    OBVIOUS
  <2>1. PICK n \in Bad : \A m \in Bad : n <= m
    <3>1. Bad \subseteq Nat
      OBVIOUS
    <3> HIDE DEF Bad
    <3> QED BY <3>1, LeastOf
  <2>2. n \in Nat /\ f[n] # g[n]
    OBVIOUS
  <2>3. n # 0 /\ n - 1 \in Nat /\ ~(n <= n - 1)
    BY <1>6, <1>10, <2>2
  <2>4. f[n - 1] = g[n - 1]
    BY <2>1, <2>3
  <2> QED BY <1>6, <1>10, <2>2, <2>3, <2>4
<1>12. g = f
  <2>1. g = [n \in Nat |-> g[n]] /\ f = [n \in Nat |-> f[n]]
    BY <1>8, <1>9
  <2> QED BY <1>11, <2>1
<1>13. \A n \in Nat : f[n + 1] = Base * f[n]
  <2> SUFFICES ASSUME NEW n \in Nat PROVE f[n + 1] = Base * f[n]
    OBVIOUS
  <2>1. n + 1 \in Nat /\ n + 1 # 0 /\ (n + 1) - 1 = n
    OBVIOUS
  <2> QED BY <1>6, <2>1
<1> QED BY <1>6, <1>9, <1>12, <1>13

(* Powers grow, by a factor of two at least.                               *)
LEMMA PowerGrows ==
  \A n \in Nat : Power[n] \in Nat \ {0} /\ 2 * Power[n] <= Power[n + 1]
<1> DEFINE Bad == {n \in Nat : Power[n] < 1}
<1>1. Bad = {}
  <2> SUFFICES ASSUME Bad # {} PROVE FALSE
    OBVIOUS
  <2>1. PICK n \in Bad : \A m \in Bad : n <= m
    <3>1. Bad \subseteq Nat
      OBVIOUS
    <3> HIDE DEF Bad
    <3> QED BY <3>1, LeastOf
  <2>2. n \in Nat /\ Power[n] < 1 /\ n # 0
    BY PowerIs
  <2>3. n - 1 \in Nat /\ ~(n <= n - 1) /\ (n - 1) + 1 = n
    BY <2>2
  <2>4. PICK p : p = Power[n - 1]
    OBVIOUS
  <2>5. p \in Nat /\ p >= 1
    BY <2>1, <2>3, <2>4, PowerIs
  <2>6. Power[n] = Base * p
    BY <2>3, <2>4, PowerIs
  <2>7. Base * p >= 1
    BY <2>5, BaseAssumption
  <2> QED BY <2>2, <2>5, <2>6, <2>7, BaseAssumption
<1>2. ASSUME NEW n \in Nat PROVE Power[n] \in Nat \ {0} /\ 2 * Power[n] <= Power[n + 1]
  <2>1. PICK p : p = Power[n]
    OBVIOUS
  <2>2. p \in Nat /\ p >= 1
    BY <1>1, <2>1, PowerIs
  <2>3. Power[n + 1] = Base * p
    BY <2>1, PowerIs
  <2>4. 2 * p <= Base * p
    BY <2>2, BaseAssumption
  <2> QED BY <2>1, <2>2, <2>3, <2>4
<1> QED BY <1>2

-----------------------------------------------------------------------------
(* Division.                                                               *)

LEMMA Division ==
  ASSUME NEW v \in Nat, NEW a \in Nat \ {0}
  PROVE  /\ v \div a \in Nat /\ v % a \in 0 .. a - 1 /\ v = a * (v \div a) + (v % a)
         /\ \A q \in Nat, r \in 0 .. a - 1 : v = a * q + r => q = v \div a /\ r = v % a
         /\ v \div a <= v
<1>1. v \div a \in Nat /\ v % a \in 0 .. a - 1 /\ v = a * (v \div a) + (v % a)
  OBVIOUS
<1>2. ASSUME NEW p \in Nat, NEW q \in Nat, NEW r \in 0 .. a - 1, NEW s \in 0 .. a - 1,
             a * p + s = a * q + r
      PROVE  p <= q
  <2> SUFFICES ASSUME p >= q + 1 PROVE FALSE
    OBVIOUS
  <2>1. a * p >= a * (q + 1)
    BY <1>2
  <2>2. a * (q + 1) = a * q + a
    OBVIOUS
  <2>3. PICK x, y : x = a * p /\ y = a * q
    OBVIOUS
  <2> QED BY <1>2, <2>1, <2>2
<1>3. ASSUME NEW q \in Nat, NEW r \in 0 .. a - 1, v = a * q + r
      PROVE  q = v \div a /\ r = v % a
  <2>1. PICK p, s : p = v \div a /\ s = v % a
    OBVIOUS
  <2>2. p \in Nat /\ s \in 0 .. a - 1 /\ a * p + s = a * q + r
    BY <1>1, <1>3, <2>1
  <2>3. p <= q
    BY <1>2, <2>2
  <2>4. q <= p
    BY <1>2, <2>2
  <2>5. p = q
    BY <2>2, <2>3, <2>4
  <2>6. s = r
    BY <2>2, <2>5
  <2> QED BY <2>1, <2>5, <2>6
<1>4. v \div a <= v
  <2>1. PICK q, r : q = v \div a /\ r = v % a
    OBVIOUS
  <2>2. q \in Nat /\ r \in Nat /\ v = a * q + r
    BY <1>1, <2>1
  <2>3. a * q >= q
    BY <2>2
  <2>4. PICK x : x = a * q
    OBVIOUS
  <2>5. x \in Nat /\ x >= q /\ v = x + r
    BY <2>2, <2>3, <2>4
  <2>6. q <= v
    BY <2>2, <2>5
  <2> QED BY <2>1, <2>6
<1> QED BY <1>1, <1>3, <1>4

LEMMA DivisionTwice ==
  ASSUME NEW v \in Nat, NEW a \in Nat \ {0}, NEW b \in Nat \ {0}
  PROVE  (v \div a) \div b = v \div (a * b)
<1>1. PICK q, r, p, s : q = v \div a /\ r = v % a /\ p = q \div b /\ s = q % b
  OBVIOUS
<1>2. q \in Nat /\ r \in 0 .. a - 1 /\ v = a * q + r
  BY <1>1, Division
<1>3. p \in Nat /\ s \in 0 .. b - 1 /\ q = b * p + s
  BY <1>1, <1>2, Division
<1>4. PICK c : c = a * b
  OBVIOUS
<1>5. c \in Nat \ {0}
  BY <1>4
<1>6. a * s + r \in 0 .. c - 1
  <2>1. a * s <= a * (b - 1) /\ a * s \in Nat
    BY <1>3
  <2>2. a * (b - 1) = a * b - a
    OBVIOUS
  <2>3. PICK x : x = a * s
    OBVIOUS
  <2>4. x \in Nat /\ x <= c - a
    BY <1>4, <2>1, <2>2, <2>3
  <2>5. x + r \in 0 .. c - 1
    BY <1>2, <1>5, <2>4
  <2> QED BY <2>3, <2>5
<1>7. v = c * p + (a * s + r)
  <2>1. a * (b * p + s) = (a * b) * p + a * s
    BY <1>3
  <2> QED BY <1>2, <1>3, <1>4, <2>1
<1>8. p = v \div c
  BY <1>3, <1>5, <1>6, <1>7, Division
<1> QED BY <1>1, <1>4, <1>8

(* The reference encoding: a byte, or a marked one and the rest.           *)
LEMMA EncodeVarintIs ==
  /\ EncodeVarint \in [Nat -> Seq(Nat)]
  /\ \A v \in Nat : v < Base => EncodeVarint[v] = <<v>>
  /\ \A v \in Nat : v >= Base =>
       EncodeVarint[v] = <<Continued(v % Base)>> \o EncodeVarint[v \div Base]
<1> DEFINE b  == [v \in Nat |-> <<v>>]
           d  == [v \in Nat |-> v \div Base]
           op == [q \in Nat \X Seq(Nat) |-> <<Continued(q[1] % Base)>> \o q[2]]
<1>0. Base \in Nat \ {0} /\ Base >= 2
  BY BaseAssumption
<1>1. b \in [Nat -> Seq(Nat)] /\ d \in [Nat -> Nat] /\ \A v \in Nat : d[v] = v \div Base /\ b[v] = <<v>>
  BY <1>0, Division
<1>2. \A v \in Nat : v >= Base => d[v] < v
  <2> SUFFICES ASSUME NEW v \in Nat, v >= Base PROVE v \div Base < v
    BY <1>1
  <2>1. PICK q, r : q = v \div Base /\ r = v % Base
    OBVIOUS
  <2>2. q \in Nat /\ r \in Nat /\ v = Base * q + r
    BY <1>0, <2>1, Division
  <2>3. Base * q >= 2 * q
    BY <1>0, <2>2
  <2>4. PICK x : x = Base * q
    OBVIOUS
  <2>5. x \in Nat /\ x >= 2 * q /\ v = x + r
    BY <1>0, <2>2, <2>3, <2>4
  <2>6. v >= 2
    BY <1>0
  <2>7. q < v
    BY <2>2, <2>5, <2>6
  <2> QED BY <2>1, <2>7
<1>3. \A v \in Nat : Continued(v % Base) \in Nat
  BY <1>0, Division DEF Continued
<1>4. op \in [Nat \X Seq(Nat) -> Seq(Nat)]
  <2>1. \A q \in Nat \X Seq(Nat) : <<Continued(q[1] % Base)>> \o q[2] \in Seq(Nat)
    <3> SUFFICES ASSUME NEW v \in Nat, NEW s \in Seq(Nat)
                 PROVE  <<Continued(v % Base)>> \o s \in Seq(Nat)
      OBVIOUS
    <3>1. PICK x \in Nat : x = Continued(v % Base)
      BY <1>3
    <3> QED BY <3>1
  <2> QED BY <2>1
<1>5. \A v \in Nat, s \in Seq(Nat) : op[<<v, s>>] = <<Continued(v % Base)>> \o s
  OBVIOUS
<1> HIDE DEF b, d, op
<1>6. PICK f \in [Nat -> Seq(Nat)] : Descends(f, Base, b, d, op, Nat)
  BY <1>0, <1>1, <1>2, <1>4, DescentExists, ZenonT(30)
<1>7. \A v \in Nat : f[v] = IF v < Base THEN <<v>> ELSE <<Continued(v % Base)>> \o f[v \div Base]
  <2> SUFFICES ASSUME NEW v \in Nat
               PROVE  f[v] = IF v < Base THEN <<v>> ELSE <<Continued(v % Base)>> \o f[v \div Base]
    OBVIOUS
  <2>1. f[v] = IF v < Base THEN b[v] ELSE op[<<v, f[d[v]]>>]
    BY <1>6, Zenon DEF Descends
  <2>2. CASE v < Base
    BY <1>1, <2>1, <2>2
  <2>3. CASE ~(v < Base)
    <3>1. d[v] = v \div Base /\ d[v] \in Nat
      BY <1>1
    <3>2. f[v \div Base] \in Seq(Nat)
      BY <1>6, <3>1
    <3> QED BY <1>5, <2>1, <2>3, <3>1, <3>2
  <2> QED BY <2>2, <2>3
<1>8. f = [v \in Nat |-> IF v < Base THEN <<v>> ELSE <<Continued(v % Base)>> \o f[v \div Base]]
  BY <1>7
<1>9. EncodeVarint = [v \in Nat |-> IF v < Base THEN <<v>>
                       ELSE <<Continued(v % Base)>> \o EncodeVarint[v \div Base]]
  BY <1>8, Zenon DEF EncodeVarint
<1>10. PICK g : g = EncodeVarint
  OBVIOUS
<1>11. \A v \in Nat : g[v] = IF v < Base THEN <<v>> ELSE <<Continued(v % Base)>> \o g[v \div Base]
  <2>1. g = [v \in Nat |-> IF v < Base THEN <<v>> ELSE <<Continued(v % Base)>> \o g[v \div Base]]
    BY <1>9, <1>10
  <2> QED BY <2>1
<1>12. \A v \in Nat : f[v] = g[v]
  <2> DEFINE Bad == {v \in Nat : f[v] # g[v]}
  <2> SUFFICES ASSUME Bad # {} PROVE FALSE
    OBVIOUS
  <2>1. PICK v \in Bad : \A m \in Bad : v <= m
    <3>1. Bad \subseteq Nat
      OBVIOUS
    <3> HIDE DEF Bad
    <3> QED BY <3>1, LeastOf
  <2>2. v \in Nat /\ f[v] # g[v]
    OBVIOUS
  <2>3. v >= Base
    <3> SUFFICES ASSUME v < Base PROVE FALSE
      BY <1>0, <2>2
    <3>1. f[v] = <<v>> /\ g[v] = <<v>>
      BY <1>7, <1>11, <2>2
    <3> QED BY <2>2, <3>1
  <2>4. PICK u : u = v \div Base
    OBVIOUS
  <2>5. u \in Nat /\ ~(v <= u)
    BY <1>1, <1>2, <2>2, <2>3, <2>4
  <2>6. f[u] = g[u]
    BY <2>1, <2>5
  <2>7. f[v] = <<Continued(v % Base)>> \o f[u] /\ g[v] = <<Continued(v % Base)>> \o g[u]
    BY <1>0, <1>7, <1>11, <2>2, <2>3, <2>4
  <2> QED BY <2>2, <2>6, <2>7
<1>13. g = f
  <2>1. g = [v \in Nat |-> g[v]] /\ f = [v \in Nat |-> f[v]]
    BY <1>9, <1>10
  <2> QED BY <1>12, <2>1
<1>14. /\ \A v \in Nat : v < Base => f[v] = <<v>>
       /\ \A v \in Nat : v >= Base => f[v] = <<Continued(v % Base)>> \o f[v \div Base]
  <2>1. ASSUME NEW v \in Nat, v < Base PROVE f[v] = <<v>>
    BY <1>7, <2>1
  <2>2. ASSUME NEW v \in Nat, v >= Base PROVE f[v] = <<Continued(v % Base)>> \o f[v \div Base]
    <3>1. ~(v < Base)
      BY <1>0, <2>2
    <3> QED BY <1>7, <3>1
  <2> QED BY <2>1, <2>2
<1> QED BY <1>10, <1>13, <1>14

(* The inlined loop of the pure encoder: two bytes a turn.                 *)
LEMMA InlineVarintIs ==
  /\ \A v \in Nat : v < Base => InlineVarint[v] = <<v>>
  /\ \A v \in Nat : v >= Base /\ v < Power[2] =>
       InlineVarint[v] = <<Continued(Digit(v, 0)), v \div Base>>
  /\ \A v \in Nat : v >= Power[2] =>
       InlineVarint[v] = <<Continued(Digit(v, 0)), Continued(Digit(v, 1))>>
                          \o InlineVarint[v \div Power[2]]
<1> DEFINE two(v) == <<Continued(Digit(v, 0)), Continued(Digit(v, 1))>>
           few(v) == IF v >= Base THEN <<Continued(Digit(v, 0)), v \div Base>> ELSE <<v>>
           b  == [v \in Nat |-> few(v)]
           d  == [v \in Nat |-> v \div Power[2]]
           op == [q \in Nat \X Seq(Nat) |-> two(q[1]) \o q[2]]
<1>0. Base \in Nat \ {0} /\ Base >= 2 /\ Power[2] \in Nat \ {0} /\ Power[2] >= 4 /\ Power[2] > Base
      /\ \A n \in Nat : Power[n] \in Nat \ {0}
  <2>1. Power[1] = Base /\ Power[2] = Base * Power[1]
    <3>1. Power[0 + 1] = Base * Power[0] /\ Power[1 + 1] = Base * Power[1] /\ Power[0] = 1
      BY PowerIs
    <3> QED BY <3>1, BaseAssumption
  <2>2. 2 * Power[1] <= Power[1 + 1]
    BY PowerGrows
  <2> QED BY <2>1, <2>2, BaseAssumption, PowerGrows
<1>1. \A v \in Nat : \A i \in Nat : Digit(v, i) \in Nat /\ Continued(Digit(v, i)) \in Nat
  <2> SUFFICES ASSUME NEW v \in Nat, NEW i \in Nat
               PROVE  Digit(v, i) \in Nat /\ Continued(Digit(v, i)) \in Nat
    OBVIOUS
  <2>1. PICK u : u = v \div Power[i]
    OBVIOUS
  <2>2. u \in Nat
    BY <1>0, <2>1, Division
  <2>3. u % Base \in Nat
    BY <1>0, <2>2, Division
  <2> QED BY <1>0, <2>1, <2>3 DEF Digit, Continued
<1>2. \A v \in Nat : v \div Base \in Nat /\ v \div Power[2] \in Nat
  BY <1>0, Division
<1>3. \A v \in Nat : two(v) \in Seq(Nat) /\ few(v) \in Seq(Nat)
  <2> SUFFICES ASSUME NEW v \in Nat PROVE two(v) \in Seq(Nat) /\ few(v) \in Seq(Nat)
    OBVIOUS
  <2>1. Continued(Digit(v, 0)) \in Nat /\ Continued(Digit(v, 1)) \in Nat /\ v \div Base \in Nat
    BY <1>1, <1>2
  <2>2. PICK x \in Nat, y \in Nat, z \in Nat :
          x = Continued(Digit(v, 0)) /\ y = Continued(Digit(v, 1)) /\ z = v \div Base
    BY <2>1
  <2>3. <<x, y>> \in Seq(Nat) /\ <<x, z>> \in Seq(Nat) /\ <<v>> \in Seq(Nat)
    OBVIOUS
  <2> QED BY <2>2, <2>3
<1>4. b \in [Nat -> Seq(Nat)] /\ \A v \in Nat : b[v] = few(v)
  <2> HIDE DEF few
  <2> QED BY <1>3
<1>5. d \in [Nat -> Nat] /\ \A v \in Nat : d[v] = v \div Power[2]
  BY <1>2
<1>6. op \in [Nat \X Seq(Nat) -> Seq(Nat)] /\ \A v \in Nat, s \in Seq(Nat) : op[<<v, s>>] = two(v) \o s
  <2> HIDE DEF two
  <2>1. \A q \in Nat \X Seq(Nat) : two(q[1]) \o q[2] \in Seq(Nat)
    <3> SUFFICES ASSUME NEW v \in Nat, NEW s \in Seq(Nat) PROVE two(v) \o s \in Seq(Nat)
      OBVIOUS
    <3>1. two(v) \in Seq(Nat)
      BY <1>3
    <3> QED BY <3>1, ConcatProperties
  <2> QED BY <2>1
<1>7. \A v \in Nat : v >= Power[2] => d[v] < v
  <2> SUFFICES ASSUME NEW v \in Nat, v >= Power[2] PROVE v \div Power[2] < v
    BY <1>5
  <2>1. PICK p : p = Power[2]
    OBVIOUS
  <2>2. p \in Nat \ {0} /\ p >= 4 /\ v >= p
    BY <1>0, <2>1
  <2>a. PICK q, r : q = v \div p /\ r = v % p
    OBVIOUS
  <2>3. q \in Nat /\ r \in Nat /\ v = p * q + r
    <3>1. v \div p \in Nat /\ v % p \in 0 .. p - 1 /\ v = p * (v \div p) + (v % p)
      BY <2>2, Division
    <3> QED BY <2>2, <2>a, <3>1
  <2>4. p * q >= 4 * q
    BY <2>2, <2>3
  <2>5. PICK x : x = p * q
    OBVIOUS
  <2>6. x \in Nat /\ x >= 4 * q /\ v = x + r
    BY <2>2, <2>3, <2>4, <2>5
  <2>7. q < v
    BY <2>2, <2>3, <2>6
  <2> QED BY <2>1, <2>a, <2>7
<1> HIDE DEF b, d, op
<1>8. PICK f \in [Nat -> Seq(Nat)] : Descends(f, Power[2], b, d, op, Nat)
  <2>1. PICK p : p = Power[2]
    OBVIOUS
  <2>2. p \in Nat /\ \A v \in Nat : v >= p => d[v] < v
    BY <1>0, <1>7, <2>1
  <2>3. \E f \in [Nat -> Seq(Nat)] : Descends(f, p, b, d, op, Nat)
    BY <1>4, <1>5, <1>6, <2>2, DescentExists, ZenonT(30)
  <2> QED BY <2>1, <2>3
<1>9. \A v \in Nat : f[v] = IF v >= Power[2] THEN two(v) \o f[v \div Power[2]] ELSE few(v)
  <2> HIDE DEF two, few
  <2> SUFFICES ASSUME NEW v \in Nat
               PROVE  f[v] = IF v >= Power[2] THEN two(v) \o f[v \div Power[2]] ELSE few(v)
    OBVIOUS
  <2>1. f[v] = IF v < Power[2] THEN b[v] ELSE op[<<v, f[d[v]]>>]
    BY <1>8, Zenon DEF Descends
  <2>2. CASE v < Power[2]
    <3>1. ~(v >= Power[2])
      BY <1>0, <2>2
    <3>2. f[v] = few(v)
      BY <1>4, <2>1, <2>2
    <3> QED BY <3>1, <3>2
  <2>3. CASE ~(v < Power[2])
    <3>1. d[v] = v \div Power[2] /\ d[v] \in Nat
      BY <1>5
    <3>2. f[v \div Power[2]] \in Seq(Nat)
      BY <1>8, <3>1
    <3>3. v >= Power[2]
      BY <1>0, <2>3, SMTT(40)
    <3> QED BY <1>6, <2>1, <2>3, <3>1, <3>2, <3>3
  <2> QED BY <2>2, <2>3
<1>10. f = [v \in Nat |-> IF v >= Power[2] THEN two(v) \o f[v \div Power[2]] ELSE few(v)]
  <2> HIDE DEF two, few
  <2> QED BY <1>9
<1>11. InlineVarint = [v \in Nat |-> IF v >= Power[2] THEN two(v) \o InlineVarint[v \div Power[2]]
                        ELSE few(v)]
  BY <1>10, Zenon DEF InlineVarint
<1>12. \A v \in Nat : InlineVarint[v] = IF v >= Power[2] THEN two(v) \o InlineVarint[v \div Power[2]]
                                        ELSE few(v)
  <2> HIDE DEF two, few
  <2>1. PICK g : g = InlineVarint
    OBVIOUS
  <2>2. g = [v \in Nat |-> IF v >= Power[2] THEN two(v) \o g[v \div Power[2]] ELSE few(v)]
    BY <1>11, <2>1
  <2>3. \A v \in Nat : g[v] = IF v >= Power[2] THEN two(v) \o g[v \div Power[2]] ELSE few(v)
    BY <2>2
  <2> QED BY <2>1, <2>3
<1>13. ASSUME NEW v \in Nat, v < Power[2] PROVE InlineVarint[v] = few(v)
  <2> HIDE DEF two, few
  <2>1. ~(v >= Power[2])
    BY <1>0, <1>13
  <2> QED BY <1>12, <2>1
<1>14. ASSUME NEW v \in Nat, v >= Power[2]
       PROVE  InlineVarint[v] = two(v) \o InlineVarint[v \div Power[2]]
  <2> HIDE DEF two, few
  <2> QED BY <1>0, <1>12, <1>14
<1>15. ASSUME NEW v \in Nat, v < Base PROVE InlineVarint[v] = <<v>>
  <2>1. v < Power[2] /\ ~(v >= Base)
    BY <1>0, <1>15
  <2> QED BY <1>13, <2>1
<1>16. ASSUME NEW v \in Nat, v >= Base, v < Power[2]
       PROVE  InlineVarint[v] = <<Continued(Digit(v, 0)), v \div Base>>
  BY <1>13, <1>16
<1> QED BY <1>14, <1>15, <1>16

(* What the proofs use of the powers.                                      *)
LEMMA Powers ==
  /\ Base \in Nat \ {0} /\ Base >= 2
  /\ \A n \in Nat : Power[n] \in Nat \ {0} /\ Power[n] <= Power[n + 1] /\ Power[n + 1] = Power[n] * Base
  /\ Power[0] = 1 /\ Power[1] = Base /\ Power[2] = Base * Base
<1>1. \A n \in Nat : Power[n] \in Nat \ {0} /\ 2 * Power[n] <= Power[n + 1]
  BY PowerGrows
<1>2. ASSUME NEW n \in Nat PROVE Power[n] <= Power[n + 1]
  <2>1. PICK x, y : x = Power[n] /\ y = Power[n + 1]
    OBVIOUS
  <2>2. x \in Nat /\ y \in Nat /\ 2 * x <= y
    BY <1>1, <2>1
  <2> QED BY <2>1, <2>2
<1>3. ASSUME NEW n \in Nat PROVE Power[n + 1] = Power[n] * Base
  <2>1. PICK x : x = Power[n]
    OBVIOUS
  <2>2. x \in Nat /\ Power[n + 1] = Base * x
    BY <2>1, PowerIs
  <2> QED BY <2>1, <2>2, BaseAssumption
<1>4. Power[0] = 1 /\ Power[1] = Base /\ Power[2] = Base * Base
  <2>1. Power[0 + 1] = Base * Power[0] /\ Power[1 + 1] = Base * Power[1] /\ Power[0] = 1
    BY PowerIs
  <2> QED BY <2>1, BaseAssumption
<1> QED BY <1>1, <1>2, <1>3, <1>4, BaseAssumption

LEMMA DigitsAre ==
  ASSUME NEW v \in Nat
  PROVE  /\ \A i \in Nat : Digit(v, i) \in Nat /\ v \div Power[i] \in Nat
         /\ Digit(v, 0) = v % Base /\ Digit(v, 1) = (v \div Base) % Base
         /\ v \div Base \in Nat /\ v % Base \in Nat
<1>1. \A i \in Nat : v \div Power[i] \in Nat
  <2> TAKE i \in Nat
  <2>1. PICK p : p = Power[i]
    OBVIOUS
  <2>2. p \in Nat \ {0}
    BY <2>1, Powers
  <2>3. v \div p \in Nat
    BY <2>2, Division
  <2> QED BY <2>1, <2>3
<1>2. \A i \in Nat : Digit(v, i) \in Nat
  <2> TAKE i \in Nat
  <2>1. PICK u \in Nat : u = v \div Power[i]
    BY <1>1
  <2>2. u % Base \in Nat
    BY Powers, Division
  <2> QED BY <2>1, <2>2 DEF Digit
<1>3. v \div 1 = v
  OBVIOUS
<1> QED BY <1>1, <1>2, <1>3, Powers, Division DEF Digit

LEMMA Associative ==
  \A a, b, c \in Seq(Nat) : (a \o b) \o c = a \o (b \o c)
BY ConcatAssociative, SMTT(40)

LEMMA AppendIs ==
  \A a \in Seq(Nat) : \A y \in Nat :
    /\ Append(a, y) \in Seq(Nat) /\ Len(Append(a, y)) = Len(a) + 1
    /\ Append(a, y) = a \o <<y>> /\ Append(a, y)[Len(a) + 1] = y
    /\ \A i \in 1 .. Len(a) : Append(a, y)[i] = a[i]
<1> SUFFICES ASSUME NEW a \in Seq(Nat), NEW y \in Nat
             PROVE  /\ Append(a, y) \in Seq(Nat) /\ Len(Append(a, y)) = Len(a) + 1
                    /\ Append(a, y) = a \o <<y>> /\ Append(a, y)[Len(a) + 1] = y
                    /\ \A i \in 1 .. Len(a) : Append(a, y)[i] = a[i]
  OBVIOUS
<1>1. Append(a, y) \in Seq(Nat) /\ Len(Append(a, y)) = Len(a) + 1
      /\ \A i \in 1.. Len(a) : Append(a, y)[i] = a[i]
      /\ Append(a, y)[Len(a)+1] = y
  BY AppendProperties
<1>2. Append(a, y) = a \o <<y>>
  BY AppendIsConcat
<1> QED BY <1>1, <1>2

LEMMA PairUp ==
  ASSUME NEW x \in Nat, NEW y \in Nat
  PROVE  <<x>> \o <<y>> = <<x, y>>
<1>1. PICK a : a = <<x>>
  OBVIOUS
<1>2. a \in Seq(Nat) /\ Len(a) = 1 /\ a[1] = x
  BY <1>1
<1>3. PICK b, c : b = Append(a, y) /\ c = <<x, y>>
  OBVIOUS
<1>4. c \in Seq(Nat) /\ Len(c) = 2 /\ c[1] = x /\ c[2] = y
  BY <1>3
<1>5. /\ Append(a, y) \in Seq(Nat) /\ Len(Append(a, y)) = Len(a) + 1
      /\ Append(a, y) = a \o <<y>> /\ Append(a, y)[Len(a) + 1] = y
      /\ \A i \in 1 .. Len(a) : Append(a, y)[i] = a[i]
  BY <1>2, AppendIs
<1>6. b \in Seq(Nat) /\ Len(b) = 2 /\ b[1] = x /\ b[2] = y
  BY <1>2, <1>3, <1>5
<1>7. \A i \in 1 .. Len(b) : b[i] = c[i]
  BY <1>4, <1>6
<1>8. b = c
  BY <1>4, <1>6, <1>7, SeqEqual
<1> QED BY <1>1, <1>3, <1>5, <1>8

(* The inlined loop writes the bytes the plain loop writes.                *)
LEMMA InlineAgrees == \A v \in Nat : InlineVarint[v] = EncodeVarint[v]
<1> DEFINE Bad == {v \in Nat : InlineVarint[v] # EncodeVarint[v]}
<1> SUFFICES ASSUME Bad # {} PROVE FALSE
  OBVIOUS
<1>1. PICK v \in Bad : \A m \in Bad : v <= m
  <2>1. Bad \subseteq Nat
    OBVIOUS
  <2> HIDE DEF Bad
  <2> QED BY <2>1, LeastOf
<1>2. v \in Nat /\ InlineVarint[v] # EncodeVarint[v]
  OBVIOUS
<1>b. Base \in Nat \ {0} /\ Base >= 2
  BY Powers
<1>3. v >= Base
  <2> SUFFICES ASSUME v < Base PROVE FALSE
    BY <1>2, <1>b
  <2>1. InlineVarint[v] = <<v>>
    BY <1>2, InlineVarintIs
  <2>2. EncodeVarint[v] = <<v>>
    BY <1>2, EncodeVarintIs
  <2> QED BY <1>2, <2>1, <2>2
<1>4. PICK q : q = v \div Base
  OBVIOUS
<1>5. q \in Nat /\ EncodeVarint[v] = <<Continued(v % Base)>> \o EncodeVarint[q]
      /\ Digit(v, 0) = v % Base /\ Digit(v, 1) = q % Base
  <2>1. v \div Base \in Nat /\ Digit(v, 0) = v % Base /\ Digit(v, 1) = (v \div Base) % Base
    BY <1>2, DigitsAre
  <2>2. EncodeVarint[v] = <<Continued(v % Base)>> \o EncodeVarint[v \div Base]
    BY <1>2, <1>3, EncodeVarintIs
  <2> QED BY <1>4, <2>1, <2>2
<1>6. PICK x, y : x = Continued(v % Base) /\ y = Continued(q % Base)
  OBVIOUS
<1>7. x \in Nat /\ y \in Nat
  BY <1>2, <1>5, <1>6, Powers, Division DEF Continued
<1>8. v = Base * q + (v % Base) /\ v % Base \in 0 .. Base - 1
  BY <1>2, <1>4, Powers, Division
<1>9. CASE v < Power[2]
  <2>1. InlineVarint[v] = <<x, q>>
    BY <1>2, <1>3, <1>4, <1>5, <1>6, <1>9, InlineVarintIs
  <2>2. q < Base
    <3> SUFFICES ASSUME q >= Base PROVE FALSE
      BY <1>5, Powers
    <3>1. Base * q >= Base * Base
      BY <1>5, Powers
    <3>2. PICK w, z : w = Base * q /\ z = v % Base
      OBVIOUS
    <3>3. w \in Nat
      BY <1>5, <3>2, Powers
    <3> QED BY <1>8, <1>9, <3>1, <3>2, <3>3, Powers
  <2>3. EncodeVarint[q] = <<q>>
    BY <1>5, <2>2, EncodeVarintIs
  <2>4. <<x>> \o <<q>> = <<x, q>>
    BY <1>5, <1>7, PairUp
  <2> QED BY <1>2, <1>5, <1>6, <2>1, <2>3, <2>4
<1>10. CASE v >= Power[2]
  <2>1. q >= Base
    <3> SUFFICES ASSUME q <= Base - 1 PROVE FALSE
      BY <1>5, Powers
    <3>1. Base * q <= Base * (Base - 1)
      BY <1>5, Powers
    <3>2. Base * (Base - 1) = Base * Base - Base
      BY Powers
    <3>3. PICK w, z, t : w = Base * q /\ z = v % Base /\ t = Base * Base
      OBVIOUS
    <3>4. w \in Nat /\ t \in Nat /\ z \in 0 .. Base - 1 /\ v = w + z /\ w <= t - Base /\ v >= t
      BY <1>5, <1>8, <1>10, <3>1, <3>2, <3>3, Powers
    <3> QED BY <3>4, Powers
  <2>2. PICK u : u = v \div Power[2]
    OBVIOUS
  <2>3. u \in Nat /\ u = q \div Base
    <3>1. v \div Power[2] \in Nat
      BY <1>2, DigitsAre
    <3>2. (v \div Base) \div Base = v \div (Base * Base)
      BY <1>2, <1>b, DivisionTwice
    <3>3. Power[2] = Base * Base
      BY Powers
    <3> QED BY <1>4, <2>2, <3>1, <3>2, <3>3
  <2>4. u < v
    <3>1. q < v
      <4>1. Base * q >= 2 * q
        BY <1>5, Powers
      <4>2. PICK w, z : w = Base * q /\ z = v % Base
        OBVIOUS
      <4>3. w >= 2 * q /\ w \in Nat /\ z \in Nat /\ v = w + z
        BY <1>b, <1>5, <1>8, <4>1, <4>2
      <4>4. q > 0
        BY <1>b, <1>5, <2>1
      <4> QED BY <1>5, <4>3, <4>4
    <3>2. u <= q
      BY <1>5, <2>3, Powers, Division
    <3> QED BY <1>2, <1>5, <2>3, <3>1, <3>2
  <2>5. InlineVarint[u] = EncodeVarint[u]
    BY <1>1, <1>2, <2>3, <2>4
  <2>6. InlineVarint[v] = <<x, y>> \o InlineVarint[u]
    BY <1>2, <1>5, <1>6, <1>10, <2>2, InlineVarintIs
  <2>7. EncodeVarint[q] = <<y>> \o EncodeVarint[u]
    BY <1>5, <1>6, <2>1, <2>3, EncodeVarintIs
  <2>8. PICK e \in Seq(Nat) : e = EncodeVarint[u]
    BY <2>3, EncodeVarintIs
  <2>9. <<x>> \o (<<y>> \o e) = <<x, y>> \o e
    <3>1. <<x>> \in Seq(Nat) /\ <<y>> \in Seq(Nat)
      BY <1>7
    <3>2. <<x>> \o (<<y>> \o e) = (<<x>> \o <<y>>) \o e
      BY <3>1, ConcatAssociative
    <3> QED BY <1>7, <3>2, PairUp
  <2> QED BY <1>2, <1>5, <1>6, <2>5, <2>6, <2>7, <2>8, <2>9
<1> QED BY <1>2, <1>9, <1>10, Powers

Front8(v, k) == Marked(Groups(v, k), k)

LEMMA FrontIs ==
  ASSUME NEW v \in Nat, NEW k \in Nat
  PROVE  /\ Front8(v, k) \in Seq(Nat) /\ Len(Front8(v, k)) = k
         /\ \A i \in 1 .. k : Front8(v, k)[i] = Continued(Digit(v, i - 1))
         /\ Front8(v, 0) = <<>>
         /\ Front8(v, k + 1) = Front8(v, k) \o <<Continued(Digit(v, k))>>
<1> DEFINE all(n) == [i \in 1 .. n |-> Continued(Digit(v, i - 1))]
<1>1. \A i \in Nat : Continued(Digit(v, i)) \in Nat
  <2> TAKE i \in Nat
  <2>1. PICK x : x = Digit(v, i)
    OBVIOUS
  <2>2. x \in Nat /\ Base \in Nat
    BY <2>1, DigitsAre, BaseAssumption
  <2> QED BY <2>1, <2>2 DEF Continued
<1>2. \A n \in Nat : Front8(v, n) = all(n)
  BY DEF Front8, Marked, Groups
<1>3. \A n \in Nat : all(n) \in Seq(Nat) /\ Len(all(n)) = n
  <2> TAKE n \in Nat
  <2>1. \A i \in 1 .. n : Continued(Digit(v, i - 1)) \in Nat
    BY <1>1
  <2> QED BY <2>1
<1>4. all(0) = <<>>
  OBVIOUS
<1>5. all(k + 1) = all(k) \o <<Continued(Digit(v, k))>>
  <2>1. PICK x \in Nat : x = Continued(Digit(v, k))
    BY <1>1
  <2>2. PICK a \in Seq(Nat), b \in Seq(Nat) : a = all(k) /\ b = all(k + 1)
    <3>1. all(k) \in Seq(Nat) /\ all(k + 1) \in Seq(Nat)
      <4> HIDE DEF all
      <4> QED BY <1>3
    <3> QED BY <3>1
  <2>3. Len(a) = k /\ Len(b) = k + 1
    BY <1>3, <2>2
  <2>4. \A i \in 1 .. k : a[i] = b[i]
    BY <2>2
  <2>5. b[k + 1] = x
    BY <2>1, <2>2
  <2>6. b = a \o <<x>>
    BY <2>3, <2>4, <2>5
  <2> QED BY <2>1, <2>2, <2>6
<1>6. \A i \in 1 .. k : all(k)[i] = Continued(Digit(v, i - 1))
  OBVIOUS
<1> HIDE DEF all
<1>7. Front8(v, k) = all(k) /\ Front8(v, 0) = all(0) /\ Front8(v, k + 1) = all(k + 1)
  BY <1>2
<1>8. all(k) \in Seq(Nat) /\ Len(all(k)) = k
  BY <1>3, SMTT(40)
<1> QED BY <1>4, <1>5, <1>6, <1>7, <1>8

(* The groups of a value, from the lowest: k of them, and the rest.        *)
LEMMA GroupsFirst ==
  ASSUME NEW v \in Nat, NEW k \in Nat, k = 0 \/ v >= Power[k]
  PROVE  EncodeVarint[v] = Front8(v, k) \o EncodeVarint[v \div Power[k]]
<1> DEFINE Holds(n) == EncodeVarint[v] = Front8(v, n) \o EncodeVarint[v \div Power[n]]
           Bad == {n \in Nat : (n = 0 \/ v >= Power[n]) /\ ~Holds(n)}
<1> SUFFICES ASSUME Bad # {} PROVE FALSE
  OBVIOUS
<1> HIDE DEF Holds
<1>1. PICK n \in Bad : \A m \in Bad : n <= m
  <2>1. Bad \subseteq Nat
    OBVIOUS
  <2> HIDE DEF Bad
  <2> QED BY <2>1, LeastOf
<1>2. n \in Nat /\ (n = 0 \/ v >= Power[n]) /\ ~Holds(n)
  OBVIOUS
<1>b. Base \in Nat \ {0} /\ Base >= 2
  BY Powers
<1>3. n # 0
  <2> SUFFICES ASSUME n = 0 PROVE Holds(0)
    BY <1>2
  <2>1. v \div Power[0] = v
    BY Powers
  <2>2. Front8(v, 0) = <<>>
    BY FrontIs
  <2>3. EncodeVarint[v] \in Seq(Nat)
    BY EncodeVarintIs
  <2>4. <<>> \o EncodeVarint[v] = EncodeVarint[v]
    BY <2>3, ConcatEmptySeq
  <2> QED BY <2>1, <2>2, <2>4 DEF Holds
<1>4. PICK i : i = n - 1
  OBVIOUS
<1>5. i \in Nat /\ ~(n <= i) /\ n = i + 1
  BY <1>2, <1>3, <1>4
<1>6. PICK p : p = Power[i]
  OBVIOUS
<1>7. p \in Nat \ {0} /\ Power[n] = p * Base /\ v >= p * Base /\ v >= p
  <2>1. Power[i] \in Nat \ {0} /\ Power[i] <= Power[i + 1] /\ Power[i + 1] = Power[i] * Base
        /\ Power[i + 1] \in Nat
    BY <1>5, Powers
  <2> QED BY <1>2, <1>3, <1>5, <1>6, <2>1
<1>8. Holds(i)
  <2>1. i = 0 \/ v >= Power[i]
    BY <1>6, <1>7
  <2> QED BY <1>1, <1>5, <2>1
<1>9. PICK u : u = v \div p
  OBVIOUS
<1>10. u \in Nat /\ u >= Base
  <2>1. u \in Nat /\ v = p * u + (v % p) /\ v % p \in 0 .. p - 1
    BY <1>7, <1>9, Division
  <2> SUFFICES ASSUME u <= Base - 1 PROVE FALSE
    BY <1>b, <2>1
  <2>2. p * u <= p * (Base - 1)
    BY <1>b, <1>7, <2>1
  <2>3. p * (Base - 1) = p * Base - p
    BY <1>b, <1>7
  <2>4. PICK w, z, t : w = p * u /\ z = v % p /\ t = p * Base
    OBVIOUS
  <2>5. w \in Nat /\ t \in Nat /\ z \in 0 .. p - 1 /\ v = w + z /\ w <= t - p /\ v >= t
    BY <1>b, <1>7, <2>1, <2>2, <2>3, <2>4
  <2> QED BY <1>7, <2>5
<1>11. PICK q : q = u \div Base
  OBVIOUS
<1>12. q \in Nat /\ q = v \div Power[n]
  <2>1. (v \div p) \div Base = v \div (p * Base)
    BY <1>b, <1>7, DivisionTwice
  <2>2. q \in Nat
    BY <1>b, <1>10, <1>11, Division
  <2> QED BY <1>7, <1>9, <1>11, <2>1, <2>2
<1>13. PICK x : x = Continued(Digit(v, i))
  OBVIOUS
<1>14. x \in Nat /\ x = Continued(u % Base)
  <2>1. u % Base \in Nat
    BY <1>b, <1>10, Division
  <2>2. Digit(v, i) = u % Base
    BY <1>6, <1>9 DEF Digit
  <2> QED BY <1>b, <1>13, <2>1, <2>2 DEF Continued
<1>15. EncodeVarint[u] = <<x>> \o EncodeVarint[q]
  BY <1>10, <1>11, <1>14, EncodeVarintIs
<1>16. PICK a, e : a = Front8(v, i) /\ e = EncodeVarint[q]
  OBVIOUS
<1>17. a \in Seq(Nat) /\ e \in Seq(Nat) /\ <<x>> \in Seq(Nat)
  <2>1. a \in Seq(Nat)
    BY <1>5, <1>16, FrontIs
  <2>2. e \in Seq(Nat)
    BY <1>12, <1>16, EncodeVarintIs
  <2>3. <<x>> \in Seq(Nat)
    BY <1>14
  <2> QED BY <2>1, <2>2, <2>3
<1>18. Front8(v, n) = a \o <<x>>
  BY <1>5, <1>13, <1>16, FrontIs, SMTT(40)
<1>19. EncodeVarint[v] = a \o (<<x>> \o e)
  BY <1>6, <1>8, <1>9, <1>15, <1>16 DEF Holds
<1>20. EncodeVarint[v] = (a \o <<x>>) \o e
  <2>1. PICK b : b = <<x>>
    OBVIOUS
  <2>2. a \in Seq(Nat) /\ b \in Seq(Nat) /\ e \in Seq(Nat)
    BY <1>17, <2>1
  <2>3. (a \o b) \o e = a \o (b \o e)
    BY <2>2, Associative
  <2> QED BY <1>19, <2>1, <2>3
<1> QED BY <1>2, <1>12, <1>16, <1>18, <1>20 DEF Holds

(* The word store writes the bytes the loop writes.                        *)
LEMMA WordStore ==
  ASSUME NEW v \in 0 .. UnsignedMax
  PROVE  VarintPut(v) = EncodeVarint[v]
<1>b. Base \in Nat \ {0} /\ Base >= 2 /\ v \in Nat /\ \A n \in Nat : Power[n] \in Nat \ {0}
  <2>1. UnsignedMax \in Int
    BY Powers DEF UnsignedMax
  <2> QED BY <2>1, Powers
<1>1. CASE v < Power[8]
  <2> DEFINE Is(k) == v < Power[k] /\ (k = 1 \/ v >= Power[k - 1])
             Bad == {k \in 1 .. 8 : v < Power[k]}
  <2>1. \E k \in 1 .. 8 : Is(k)
    <3>1. Bad # {}
      BY <1>1
    <3>2. PICK k \in Bad : \A m \in Bad : k <= m
      <4>1. Bad \subseteq Nat
        OBVIOUS
      <4> HIDE DEF Bad
      <4> QED BY <3>1, <4>1, LeastOf
    <3>3. k \in 1 .. 8 /\ v < Power[k]
      OBVIOUS
    <3>4. k = 1 \/ v >= Power[k - 1]
      <4> SUFFICES ASSUME k # 1 PROVE v >= Power[k - 1]
        OBVIOUS
      <4>1. k - 1 \in 1 .. 8 /\ ~(k <= k - 1) /\ k - 1 \in Nat
        BY <3>3
      <4>2. ~(v < Power[k - 1])
        BY <3>2, <4>1
      <4> QED BY <1>b, <4>1, <4>2
    <3> QED BY <3>3, <3>4
  <2>2. PICK k : k = GroupCount(v)
    OBVIOUS
  <2>3. k \in 1 .. 8 /\ Is(k)
    BY <2>1, <2>2, Zenon DEF GroupCount
  <2>4. VarintPut(v) = Marked(Groups(v, k), k - 1)
    BY <1>1, <2>2, Zenon DEF VarintPut
  <2>5. PICK i : i = k - 1
    OBVIOUS
  <2>6. i \in Nat /\ k = i + 1 /\ (i = 0 \/ v >= Power[i]) /\ v < Power[i + 1]
    BY <2>3, <2>5
  <2>7. PICK p, u : p = Power[i] /\ u = v \div p
    OBVIOUS
  <2>8. p \in Nat \ {0} /\ Power[i + 1] = p * Base /\ v < p * Base
    BY <2>6, <2>7, Powers
  <2>9. u \in Nat /\ u < Base /\ u % Base = u
    <3>1. u \in Nat /\ v = p * u + (v % p) /\ v % p \in 0 .. p - 1
      BY <1>b, <2>7, <2>8, Division
    <3>2. u < Base
      <4> SUFFICES ASSUME u >= Base PROVE FALSE
        BY <1>b, <3>1
      <4>1. p * u >= p * Base
        BY <1>b, <2>8, <3>1
      <4>2. PICK w, z, t : w = p * u /\ z = v % p /\ t = p * Base
        OBVIOUS
      <4>3. w \in Nat /\ t \in Nat /\ z \in Nat /\ v = w + z /\ w >= t /\ v < t
        BY <1>b, <2>8, <3>1, <4>1, <4>2
      <4> QED BY <4>3
    <3>3. Base * 0 = 0
      BY <1>b
    <3>4. u = u % Base
      <4>1. u = Base * 0 + u /\ u \in 0 .. Base - 1
        BY <1>b, <3>1, <3>2
      <4>2. \A q \in Nat, r \in 0 .. Base - 1 : u = Base * q + r => q = u \div Base /\ r = u % Base
        BY <1>b, <3>1, Division
      <4> QED BY <4>1, <4>2
    <3> QED BY <3>1, <3>2, <3>4
  <2>10. EncodeVarint[v] = Front8(v, i) \o <<u>>
    <3>1. EncodeVarint[v] = Front8(v, i) \o EncodeVarint[v \div Power[i]]
      BY <1>b, <2>6, GroupsFirst
    <3>2. EncodeVarint[u] = <<u>>
      BY <2>9, EncodeVarintIs
    <3> QED BY <2>7, <3>1, <3>2
  <2>11. Digit(v, i) = u
    BY <2>7, <2>9 DEF Digit
  <2>12. Marked(Groups(v, k), k - 1) = Front8(v, i) \o <<u>>
    <3>1. PICK a, b : a = Front8(v, i) /\ b = Marked(Groups(v, k), k - 1)
      OBVIOUS
    <3>2. a \in Seq(Nat) /\ Len(a) = i /\ \A j \in 1 .. i : a[j] = Continued(Digit(v, j - 1))
      BY <1>b, <2>6, <3>1, FrontIs
    <3>3. b = [j \in 1 .. i + 1 |-> IF j <= i THEN Continued(Digit(v, j - 1)) ELSE Digit(v, j - 1)]
      BY <2>5, <2>6, <3>1 DEF Marked, Groups
    <3>4. \A j \in 1 .. i : b[j] = a[j]
      BY <2>6, <3>2, <3>3
    <3>5. b[i + 1] = u
      <4>1. (i + 1) - 1 = i /\ ~(i + 1 <= i) /\ i + 1 \in 1 .. i + 1
        BY <2>6
      <4> QED BY <2>11, <3>3, <4>1
    <3>6. \A j \in 1 .. i + 1 : b[j] \in Nat
      BY <2>6, <2>9, <3>2, <3>4, <3>5
    <3>7. b \in Seq(Nat) /\ Len(b) = i + 1
      BY <2>6, <3>3, <3>6
    <3>8. b = a \o <<u>>
      BY <2>6, <2>9, <3>2, <3>4, <3>5, <3>7
    <3> QED BY <3>1, <3>8
  <2> QED BY <2>4, <2>10, <2>12
<1>2. CASE ~(v < Power[8])
  <2>1. PICK r : r = v \div Power[8]
    OBVIOUS
  <2>2. VarintPut(v) = Front8(v, 8)
          \o (IF r < Base THEN <<r>> ELSE <<Continued(r % Base), r \div Base>>)
    BY <1>2, <2>1, Zenon DEF VarintPut, Front8
  <2>3. EncodeVarint[v] = Front8(v, 8) \o EncodeVarint[r]
    <3>1. v >= Power[8]
      BY <1>b, <1>2
    <3> QED BY <1>b, <2>1, <3>1, GroupsFirst
  <2>4. r \in Nat /\ r < 2 * Base
    <3>1. PICK p : p = Power[8]
      OBVIOUS
    <3>2. p \in Nat \ {0} /\ Power[9] = p * Base
      BY <3>1, Powers
    <3>3. r \in Nat /\ v = p * r + (v % p) /\ v % p \in 0 .. p - 1
      <4>1. /\ v \div p \in Nat /\ v % p \in 0 .. p - 1
            /\ v = p * (v \div p) + (v % p)
        BY <1>b, <3>2, Division
      <4> QED BY <2>1, <3>1, <4>1
    <3>4. v < 2 * (p * Base)
      <4>1. v <= UnsignedMax /\ UnsignedMax = 2 * (p * Base) - 1 /\ p * Base \in Nat
        BY <1>b, <3>2 DEF UnsignedMax
      <4> QED BY <1>b, <4>1
    <3>5. r < 2 * Base
      <4> SUFFICES ASSUME r >= 2 * Base PROVE FALSE
        BY <1>b, <3>3
      <4>1. p * r >= p * (2 * Base)
        BY <1>b, <3>2, <3>3
      <4>2. p * (2 * Base) = 2 * (p * Base)
        BY <1>b, <3>2
      <4>3. PICK w, z, t : w = p * r /\ z = v % p /\ t = p * Base
        OBVIOUS
      <4>4. w \in Nat /\ t \in Nat /\ z \in Nat /\ v = w + z /\ w >= 2 * t /\ v < 2 * t
        BY <1>b, <3>2, <3>3, <3>4, <4>1, <4>2, <4>3
      <4> QED BY <4>4
    <3> QED BY <3>3, <3>5
  <2>5. EncodeVarint[r] = IF r < Base THEN <<r>> ELSE <<Continued(r % Base), r \div Base>>
    <3>1. CASE r < Base
      BY <2>4, <3>1, EncodeVarintIs
    <3>2. CASE ~(r < Base)
      <4>1. EncodeVarint[r] = <<Continued(r % Base)>> \o EncodeVarint[r \div Base]
        <5>1. r >= Base
          BY <1>b, <2>4, <3>2
        <5> QED BY <2>4, <5>1, EncodeVarintIs
      <4>2. PICK x, y : x = Continued(r % Base) /\ y = r \div Base
        OBVIOUS
      <4>3. x \in Nat /\ y \in Nat /\ y < Base
        <5>1. r \div Base \in Nat /\ r % Base \in 0 .. Base - 1 /\ r = Base * (r \div Base) + (r % Base)
          BY <1>b, <2>4, Division
        <5>2. PICK z : z = r % Base
          OBVIOUS
        <5>3. y \in Nat /\ z \in 0 .. Base - 1 /\ r = Base * y + z
          BY <4>2, <5>1, <5>2
        <5>4. y < 2
          <6> SUFFICES ASSUME y >= 2 PROVE FALSE
            BY <5>3
          <6>1. Base * y >= Base * 2
            BY <1>b, <5>3
          <6>2. PICK w : w = Base * y
            OBVIOUS
          <6>3. w \in Nat /\ r = w + z /\ w >= 2 * Base
            BY <1>b, <5>3, <6>1, <6>2
          <6> QED BY <1>b, <2>4, <5>3, <6>3
        <5>5. x = z + Base
          BY <4>2, <5>2 DEF Continued
        <5> QED BY <1>b, <5>3, <5>4, <5>5
      <4>4. EncodeVarint[y] = <<y>>
        BY <4>3, EncodeVarintIs
      <4>5. EncodeVarint[r] = <<x, y>>
        BY <4>1, <4>2, <4>3, <4>4, PairUp
      <4> QED BY <3>2, <4>2, <4>5
    <3> QED BY <3>1, <3>2
  <2> QED BY <2>2, <2>3, <2>5
<1> QED BY <1>1, <1>2

(* A zigzag of a signed word is a word.                                    *)
LEMMA ZigZagFits ==
  \A n \in SignedMin .. SignedMax : ZigZag(n) \in 0 .. UnsignedMax
<1>1. PICK p \in Nat : p = Power[9]
  BY Powers
<1>2. \A n \in -p .. p - 1 : ZigZag(n) \in 0 .. 2 * p - 1
  BY DEF ZigZag
<1> QED BY <1>1, <1>2 DEF SignedMin, SignedMax, UnsignedMax

-----------------------------------------------------------------------------
(* Encoders, and what a step can change.                                   *)

(* Sequences laid end to end.                                              *)
LEMMA Joined ==
  \A a, b \in Seq(Nat) : /\ a \o b \in Seq(Nat) /\ Len(a \o b) = Len(a) + Len(b)
                         /\ Len(a) \in Nat /\ Len(b) \in Nat
BY ConcatProperties

LEMMA JoinedAt ==
  \A a, b \in Seq(Nat) : \A i \in 1 .. Len(a) + Len(b) :
    (a \o b)[i] = IF i <= Len(a) THEN a[i] ELSE b[i - Len(a)]
BY ConcatProperties

LEMMA JoinedFirst ==
  \A a, b \in Seq(Nat) : \A n \in 0 .. Len(b) : \A k \in {Len(a) + n} :
    SubSeq(a \o b, 1, k) = a \o SubSeq(b, 1, n)
<1> SUFFICES ASSUME NEW a \in Seq(Nat), NEW b \in Seq(Nat), NEW n \in 0 .. Len(b), NEW k \in {Len(a) + n}
             PROVE  SubSeq(a \o b, 1, k) = a \o SubSeq(b, 1, n)
  OBVIOUS
<1>0. k = Len(a) + n /\ Len(a) \in Nat
  OBVIOUS
<1>1. PICK c, d, e : c = SubSeq(b, 1, n) /\ d = a \o b /\ e = SubSeq(d, 1, k)
  OBVIOUS
<1>2. /\ c \in Seq(Nat) /\ Len(c) = n /\ \A i \in 1 .. n : c[i] = b[i]
      /\ d \in Seq(Nat) /\ Len(d) = Len(a) + Len(b) /\ k \in 0 .. Len(d) /\ Len(a) \in Nat /\ Len(b) \in Nat
  BY <1>0, <1>1, Joined
<1>3. \A i \in 1 .. Len(d) : d[i] = IF i <= Len(a) THEN a[i] ELSE b[i - Len(a)]
  BY <1>1, <1>2, JoinedAt
<1>4. e \in Seq(Nat) /\ Len(e) = k /\ \A i \in 1 .. k : e[i] = d[i]
  BY <1>1, <1>2, SMTT(40)
<1>5. PICK f : f = a \o c
  OBVIOUS
<1>6. /\ f \in Seq(Nat) /\ Len(f) = k
      /\ \A i \in 1 .. k : f[i] = IF i <= Len(a) THEN a[i] ELSE c[i - Len(a)]
  <2>1. /\ a \o c \in Seq(Nat) /\ Len(a \o c) = Len(a) + Len(c)
        /\ \A i \in 1 .. Len(a) + Len(c) : (a \o c)[i] = IF i <= Len(a) THEN a[i] ELSE c[i - Len(a)]
    BY <1>2, Joined, JoinedAt
  <2>2. Len(a) + Len(c) = k
    BY <1>2
  <2> QED BY <1>5, <2>1, <2>2
<1>7. \A i \in 1 .. Len(e) : e[i] = f[i]
  <2> SUFFICES ASSUME NEW i \in 1 .. k PROVE e[i] = f[i]
    BY <1>4
  <2>1. i \in 1 .. Len(d) /\ e[i] = d[i]
    BY <1>2, <1>4
  <2>2. CASE i <= Len(a)
    BY <1>3, <1>6, <2>1, <2>2
  <2>3. CASE ~(i <= Len(a))
    <3>1. i - Len(a) \in 1 .. n
      BY <1>2, <2>3
    <3>2. f[i] = c[i - Len(a)] /\ e[i] = b[i - Len(a)]
      BY <1>3, <1>6, <2>1, <2>3
    <3> QED BY <1>2, <3>1, <3>2
  <2> QED BY <2>2, <2>3
<1>8. e = f
  BY <1>4, <1>6, <1>7, SeqEqual
<1> QED BY <1>1, <1>5, <1>8

-----------------------------------------------------------------------------
(* An encoder, whatever it has gone through.                               *)
Errors == {"none", "argument", "buffer"}
Stops  == {"none", "argument", "buffer", "python", "skip"}
IsEncoder(s) ==
  /\ s \in [out : Seq(Nat), pending : Seq(0 .. IdMax), depth : Nat, error : Errors, stop : Stops,
            sticky : BOOLEAN, room : Nat]
  /\ Len(s.out) <= s.room /\ (s.error # "none" => s.sticky)

(* What a write can change.                                                *)
Wrote(s, x, y) == [s EXCEPT !.out = x, !.stop = y]

LEMMA WroteIs ==
  ASSUME NEW s, IsEncoder(s), NEW x \in Seq(Nat), Len(x) <= s.room, NEW y \in Stops
  PROVE  /\ IsEncoder(Wrote(s, x, y)) /\ Wrote(s, x, y).out = x /\ Wrote(s, x, y).stop = y
         /\ Wrote(s, x, y).pending = s.pending /\ Wrote(s, x, y).depth = s.depth
         /\ Wrote(s, x, y).error = s.error /\ Wrote(s, x, y).sticky = s.sticky
         /\ Wrote(s, x, y).room = s.room
         /\ \A a, b : Wrote(Wrote(s, x, y), a, b) = Wrote(s, a, b)
<1>1. PICK u : u = Wrote(s, x, y)
  OBVIOUS
<1>2. /\ u \in [out : Seq(Nat), pending : Seq(0 .. IdMax), depth : Nat, error : Errors, stop : Stops,
                sticky : BOOLEAN, room : Nat]
      /\ u.out = x /\ u.stop = y /\ u.pending = s.pending /\ u.depth = s.depth
      /\ u.error = s.error /\ u.sticky = s.sticky /\ u.room = s.room
  BY <1>1 DEF IsEncoder, Wrote
<1>3. IsEncoder(u)
  BY <1>2 DEF IsEncoder
<1>4. \A a, b : Wrote(u, a, b) = Wrote(s, a, b)
  BY <1>1 DEF IsEncoder, Wrote
<1> QED BY <1>1, <1>2, <1>3, <1>4

LEMMA WroteNone ==
  ASSUME NEW s, IsEncoder(s)
  PROVE  /\ s = Wrote(s, s.out, s.stop)
         /\ \A x : [s EXCEPT !.out = x] = Wrote(s, x, s.stop)
BY DEF IsEncoder, Wrote

LEMMA EncoderIs ==
  ASSUME NEW s, IsEncoder(s)
  PROVE  /\ s.out \in Seq(Nat) /\ Len(s.out) \in Nat /\ s.room \in Nat /\ Len(s.out) <= s.room
         /\ s.stop \in Stops /\ s.error \in Errors /\ s.depth \in Nat /\ s.sticky \in BOOLEAN
         /\ s.pending \in Seq(0 .. IdMax)
BY DEF IsEncoder

(* Two writes in a row are one of both.                                    *)
LEMMA PutIs ==
  ASSUME NEW s, IsEncoder(s), NEW b \in Seq(Nat)
  PROVE  /\ s.stop # "none" => Put(s, b) = s
         /\ s.stop = "none" /\ Len(s.out) + Len(b) <= s.room => Put(s, b) = Wrote(s, s.out \o b, "none")
         /\ s.stop = "none" /\ Len(s.out) + Len(b) > s.room =>
              Put(s, b) = Wrote(s, s.out \o SubSeq(b, 1, s.room - Len(s.out)), "buffer")
<1>1. /\ s.out \in Seq(Nat) /\ s.room \in Nat /\ Len(s.out) \in Nat /\ Len(b) \in Nat
      /\ Len(s.out) <= s.room
  BY EncoderIs
<1>2. CASE s.stop # "none"
  BY <1>2 DEF Put
<1>3. CASE s.stop = "none" /\ Len(s.out) + Len(b) <= s.room
  <2>1. Len(b) <= s.room - Len(s.out)
    BY <1>1, <1>3
  <2>2. Put(s, b) = [s EXCEPT !.out = @ \o b]
    BY <1>3, <2>1 DEF Put
  <2>3. [s EXCEPT !.out = s.out \o b] = Wrote(s, s.out \o b, s.stop)
    BY WroteNone
  <2>4. Put(s, b) = Wrote(s, s.out \o b, "none")
    BY <1>3, <2>2, <2>3
  <2> QED BY <1>1, <1>3, <2>4
<1>4. CASE s.stop = "none" /\ Len(s.out) + Len(b) > s.room
  <2>1. ~(Len(b) <= s.room - Len(s.out))
    BY <1>1, <1>4
  <2>2. Put(s, b) = Wrote(s, s.out \o SubSeq(b, 1, s.room - Len(s.out)), "buffer")
    BY <1>4, <2>1 DEF Put, Wrote
  <2> QED BY <1>1, <1>4, <2>2
<1>5. Len(s.out) + Len(b) <= s.room \/ Len(s.out) + Len(b) > s.room
  BY <1>1
<1> QED BY <1>2, <1>3, <1>4, <1>5

LEMMA PutWrites ==
  ASSUME NEW s, IsEncoder(s), NEW b \in Seq(Nat)
  PROVE  \E x \in Seq(Nat), y \in {s.stop, "buffer"} :
           Len(x) <= s.room /\ Put(s, b) = Wrote(s, x, y)
<1>1. PICK o, r : o = s.out /\ r = s.room
  OBVIOUS
<1>2. o \in Seq(Nat) /\ r \in Nat /\ Len(o) \in Nat /\ Len(b) \in Nat /\ Len(o) <= r
  BY <1>1, EncoderIs
<1>3. CASE s.stop # "none"
  BY <1>1, <1>2, <1>3, PutIs, WroteNone
<1>4. CASE s.stop = "none" /\ Len(o) + Len(b) <= r
  <2>1. o \o b \in Seq(Nat) /\ Len(o \o b) <= r
    BY <1>2, <1>4, Joined
  <2>2. Put(s, b) = Wrote(s, o \o b, s.stop)
    BY <1>1, <1>4, PutIs
  <2> QED BY <1>1, <2>1, <2>2
<1>5. CASE s.stop = "none" /\ Len(o) + Len(b) > r
  <2>1. PICK c : c = SubSeq(b, 1, r - Len(o))
    OBVIOUS
  <2>2. c \in Seq(Nat) /\ Len(c) = r - Len(o)
    BY <1>2, <1>5, <2>1
  <2>3. o \o c \in Seq(Nat) /\ Len(o \o c) <= r
    BY <1>2, <2>2, Joined
  <2>4. Put(s, b) = Wrote(s, o \o c, "buffer")
    BY <1>1, <1>5, <2>1, PutIs
  <2> QED BY <1>1, <2>3, <2>4
<1> QED BY <1>2, <1>3, <1>4, <1>5

LEMMA PutKeeps ==
  ASSUME NEW s, IsEncoder(s), NEW b \in Seq(Nat)
  PROVE  /\ IsEncoder(Put(s, b))
         /\ Put(s, b).pending = s.pending /\ Put(s, b).depth = s.depth /\ Put(s, b).error = s.error
         /\ Put(s, b).sticky = s.sticky /\ Put(s, b).room = s.room
         /\ Put(s, b).stop \in {s.stop, "buffer"}
         /\ \A x, y : Wrote(Put(s, b), x, y) = Wrote(s, x, y)
<1>1. PICK x \in Seq(Nat), y \in {s.stop, "buffer"} :
        Len(x) <= s.room /\ Put(s, b) = Wrote(s, x, y)
  BY PutWrites
<1>2. y \in Stops
  BY EncoderIs DEF Stops
<1> QED BY <1>1, <1>2, WroteIs

LEMMA PutNone ==
  ASSUME NEW s, IsEncoder(s)
  PROVE  Put(s, <<>>) = s
<1>1. s.out \o <<>> = s.out /\ s.out \in Seq(Nat) /\ Len(s.out) \in Nat /\ s.room \in Nat
  BY ConcatEmptySeq, EncoderIs
<1>2. <<>> \in Seq(Nat) /\ Len(<<>>) = 0
  OBVIOUS
<1>3. CASE s.stop # "none"
  BY <1>2, <1>3, PutIs
<1>4. CASE s.stop = "none"
  <2>1. Len(s.out) + Len(<<>>) <= s.room
    BY <1>1, <1>2, EncoderIs
  <2>2. Put(s, <<>>) = Wrote(s, s.out \o <<>>, "none")
    BY <1>2, <1>4, <2>1, PutIs
  <2> QED BY <1>1, <1>4, <2>2, WroteNone
<1> QED BY <1>3, <1>4

LEMMA PutTwice ==
  ASSUME NEW s, IsEncoder(s), NEW a \in Seq(Nat), NEW b \in Seq(Nat)
  PROVE  Put(Put(s, a), b) = Put(s, a \o b)
<1>1. PICK o, r, t, j, k, m : o = s.out /\ r = s.room /\ t = Put(s, a) /\ j = Len(o) /\ k = Len(a) /\ m = Len(b)
  OBVIOUS
<1>2. o \in Seq(Nat) /\ j \in Nat /\ k \in Nat /\ m \in Nat /\ r \in Nat /\ j <= r
  BY <1>1, EncoderIs
<1>3. a \o b \in Seq(Nat) /\ Len(a \o b) = k + m
  BY <1>1, Joined
<1>4. /\ IsEncoder(t) /\ \A x, y : Wrote(t, x, y) = Wrote(s, x, y)
      /\ t.room = r
  BY <1>1, PutKeeps
<1>5. CASE s.stop # "none"
  BY <1>3, <1>5, PutIs
<1>6. CASE s.stop = "none" /\ j + k > r
  <2>1. PICK n : n = r - j
    OBVIOUS
  <2>2. n \in 0 .. k /\ j + (k + m) > r
    BY <1>2, <1>6, <2>1
  <2>3. PICK c : c = SubSeq(a, 1, n)
    OBVIOUS
  <2>4. c \in Seq(Nat) /\ Len(c) = n /\ SubSeq(a \o b, 1, n) = c
    BY <1>1, <1>3, <2>2, <2>3
  <2>5. t = Wrote(s, o \o c, "buffer")
    BY <1>1, <1>6, <2>1, <2>3, PutIs
  <2>6. o \o c \in Seq(Nat) /\ Len(o \o c) <= r
    <3>1. o \o c \in Seq(Nat) /\ Len(o \o c) = Len(o) + Len(c)
      BY <1>2, <2>4, Joined
    <3> QED BY <1>1, <1>2, <2>1, <2>4, <3>1
  <2>7. t.stop = "buffer"
    <3>1. PICK x : x = o \o c
      OBVIOUS
    <3>2. x \in Seq(Nat) /\ Len(x) <= s.room /\ "buffer" \in Stops
      BY <1>1, <2>6, <3>1 DEF Stops
    <3>3. Wrote(s, x, "buffer").stop = "buffer"
      BY <3>2, WroteIs
    <3> QED BY <2>5, <3>1, <3>3
  <2>8. Put(t, b) = t
    BY <1>4, <2>7, PutIs
  <2>9. Put(s, a \o b) = Wrote(s, o \o c, "buffer")
    BY <1>1, <1>3, <1>6, <2>1, <2>2, <2>4, PutIs
  <2> QED BY <1>1, <2>5, <2>8, <2>9
<1>7. CASE s.stop = "none" /\ j + k <= r
  <2>1. t = Wrote(s, o \o a, "none")
    BY <1>1, <1>7, PutIs
  <2>2. o \o a \in Seq(Nat) /\ Len(o \o a) = j + k
    BY <1>1, <1>2, Joined
  <2>3. t.stop = "none" /\ t.out = o \o a
    <3>1. PICK x : x = o \o a
      OBVIOUS
    <3>2. x \in Seq(Nat) /\ Len(x) <= s.room /\ "none" \in Stops
      BY <1>1, <1>7, <2>2, <3>1 DEF Stops
    <3>3. Wrote(s, x, "none").stop = "none" /\ Wrote(s, x, "none").out = x
      BY <3>2, WroteIs
    <3> QED BY <2>1, <3>1, <3>3
  <2>b. Len(t.out) = j + k /\ t.room = r /\ t.out = o \o a /\ Len(b) = m
    BY <1>1, <1>4, <2>2, <2>3
  <2>4. (o \o a) \o b = o \o (a \o b)
    BY <1>2, Associative
  <2>5. CASE (j + k) + m <= r
    <3>1. Put(t, b) = Wrote(t, (o \o a) \o b, "none")
      <4>1. Len(t.out) + Len(b) <= t.room
        BY <2>b, <2>5
      <4> QED BY <1>4, <2>3, <2>b, <4>1, PutIs
    <3>2. Put(s, a \o b) = Wrote(s, o \o (a \o b), "none")
      <4>1. j + (k + m) <= r
        BY <1>2, <2>5
      <4> QED BY <1>1, <1>3, <1>7, <4>1, PutIs
    <3> QED BY <1>1, <1>4, <2>4, <3>1, <3>2
  <2>6. CASE (j + k) + m > r
    <3>1. PICK n : n = r - (j + k)
      OBVIOUS
    <3>2. n \in 0 .. m /\ r - j = k + n /\ j + (k + m) > r
      BY <1>2, <1>7, <2>6, <3>1
    <3>3. PICK c : c = SubSeq(b, 1, n)
      OBVIOUS
    <3>4. c \in Seq(Nat) /\ SubSeq(a \o b, 1, k + n) = a \o c
      <4>1. PICK q : q = k + n
        OBVIOUS
      <4>2. n \in 0 .. Len(b) /\ q = Len(a) + n
        BY <1>1, <3>2, <4>1
      <4>3. SubSeq(a \o b, 1, q) = a \o SubSeq(b, 1, n)
        BY <4>2, JoinedFirst
      <4>4. c \in Seq(Nat)
        BY <3>3, <4>2
      <4> QED BY <3>3, <4>1, <4>3, <4>4
    <3>5. Put(t, b) = Wrote(t, (o \o a) \o c, "buffer")
      <4>1. Len(t.out) + Len(b) > t.room /\ t.room - Len(t.out) = n
        BY <2>b, <2>6, <3>1
      <4>2. Put(t, b) = Wrote(t, t.out \o SubSeq(b, 1, t.room - Len(t.out)), "buffer")
        BY <1>4, <2>3, <4>1, PutIs
      <4> QED BY <2>b, <3>3, <4>1, <4>2
    <3>6. Put(s, a \o b) = Wrote(s, o \o (a \o c), "buffer")
      <4>1. PICK d : d = a \o b
        OBVIOUS
      <4>2. d \in Seq(Nat) /\ Len(s.out) + Len(d) > s.room /\ s.room - Len(s.out) = k + n /\ s.stop = "none"
        BY <1>1, <1>3, <1>7, <3>2, <4>1
      <4>3. Put(s, d) = Wrote(s, s.out \o SubSeq(d, 1, s.room - Len(s.out)), "buffer")
        BY <4>2, PutIs
      <4> QED BY <1>1, <3>4, <4>1, <4>2, <4>3
    <3>7. (o \o a) \o c = o \o (a \o c)
      BY <1>2, <3>4, Associative, ZenonT(40)
    <3> QED BY <1>1, <1>4, <3>5, <3>6, <3>7
  <2> QED BY <1>2, <2>5, <2>6
<1> QED BY <1>2, <1>5, <1>6, <1>7

LEMMA WordIs == UnsignedMax \in Nat
<1>1. PICK p \in Nat \ {0} : p = Power[9]
  BY Powers
<1> QED BY <1>1 DEF UnsignedMax

(* A varint of a word goes out alike, whichever way it is encoded.         *)
LEMMA EmitIs ==
  ASSUME NEW e \in Engines, NEW s, IsEncoder(s), NEW v \in 0 .. UnsignedMax
  PROVE  EmitVarint(e, s, v) = Put(s, EncodeVarint[v]) /\ EncodeVarint[v] \in Seq(Nat)
<1>1. v \in Nat
  BY WordIs
<1>2. VarintPut(v) = EncodeVarint[v] /\ InlineVarint[v] = EncodeVarint[v]
  BY <1>1, WordStore, InlineAgrees
<1>3. EncodeVarint[v] \in Seq(Nat)
  BY <1>1, EncodeVarintIs
<1>4. EmitVarint(e, s, v) = Put(s, EncodeVarint[v])
  <2>1. PICK b : b = EncodeVarint[v]
    OBVIOUS
  <2>2. EmitVarint(e, s, v)
          = Put(s, IF e = "native" THEN b ELSE IF s.room - Len(s.out) >= VarintMax THEN b ELSE b)
    BY <1>2, <2>1, Zenon DEF EmitVarint
  <2> QED BY <2>1, <2>2
<1> QED BY <1>3, <1>4

-----------------------------------------------------------------------------
(* Steps in a row.                                                         *)
Goes(e, s, steps, f, n) == \A i \in 0 .. n : f[i] = IF i = 0 THEN s ELSE Do(e, f[i - 1], steps[i])

LEMMA GoesOneWay ==
  ASSUME NEW e, NEW s, NEW a, NEW f, NEW g, NEW n \in Nat, Goes(e, s, a, f, n), Goes(e, s, a, g, n)
  PROVE  \A i \in 0 .. n : f[i] = g[i]
<1> DEFINE Bad == {i \in 0 .. n : f[i] # g[i]}
<1> SUFFICES ASSUME Bad # {} PROVE FALSE
  OBVIOUS
<1>1. PICK i \in Bad : \A m \in Bad : i <= m
  <2>1. Bad \subseteq Nat
    OBVIOUS
  <2> HIDE DEF Bad
  <2> QED BY <2>1, LeastOf
<1>2. i \in 0 .. n /\ f[i] # g[i]
  OBVIOUS
<1>3. f[i] = IF i = 0 THEN s ELSE Do(e, f[i - 1], a[i])
  BY <1>2, Zenon DEF Goes
<1>4. g[i] = IF i = 0 THEN s ELSE Do(e, g[i - 1], a[i])
  BY <1>2, Zenon DEF Goes
<1>5. i # 0
  BY <1>2, <1>3, <1>4
<1>6. i - 1 \in 0 .. n /\ ~(i <= i - 1)
  BY <1>2, <1>5
<1>7. f[i - 1] = g[i - 1]
  BY <1>1, <1>6
<1> QED BY <1>2, <1>3, <1>4, <1>5, <1>7

LEMMA AfterIs ==
  ASSUME NEW e, NEW s, NEW a, NEW n \in Nat, Len(a) = n
  PROVE  \E f : Goes(e, s, a, f, n) /\ After(e, s, a) = f[n]
<1> DEFINE Rule(f, i) == IF i = 0 THEN s ELSE Do(e, f[i - 1], a[i])
           Some(k) == \E f : f = [i \in 0 .. k |-> Rule(f, i)]
           Bad == {k \in 0 .. n : ~Some(k)}
<1>1. Bad = {}
  <2> SUFFICES ASSUME Bad # {} PROVE FALSE
    OBVIOUS
  <2> HIDE DEF Some
  <2>1. PICK k \in Bad : \A m \in Bad : k <= m
    <3>1. Bad \subseteq Nat
      OBVIOUS
    <3> HIDE DEF Bad
    <3> QED BY <3>1, LeastOf
  <2>2. k \in 0 .. n /\ ~Some(k)
    OBVIOUS
  <2>3. CASE k = 0
    <3>1. PICK f : f = [i \in 0 .. 0 |-> s]
      OBVIOUS
    <3>2. f = [i \in 0 .. 0 |-> Rule(f, i)]
      BY <3>1
    <3> QED BY <2>2, <2>3, <3>2 DEF Some
  <2>4. CASE k # 0
    <3>1. k - 1 \in 0 .. n /\ ~(k <= k - 1)
      BY <2>2, <2>4
    <3>2. Some(k - 1)
      BY <2>1, <3>1
    <3>3. PICK f : f = [i \in 0 .. k - 1 |-> Rule(f, i)]
      BY <3>2 DEF Some
    <3>4. PICK x : x = Rule(f, k)
      OBVIOUS
    <3>5. PICK g : g = [i \in 0 .. k |-> IF i = k THEN x ELSE f[i]]
      OBVIOUS
    <3>6. \A i \in 0 .. k - 1 : f[i] = Rule(f, i)
      <4> HIDE DEF Rule
      <4> QED BY <3>3
    <3>7. \A i \in 0 .. k - 1 : g[i] = f[i]
      BY <2>2, <3>5
    <3>8. \A i \in 0 .. k : Rule(g, i) = Rule(f, i)
      <4> SUFFICES ASSUME NEW i \in 0 .. k PROVE Rule(g, i) = Rule(f, i)
        OBVIOUS
      <4>1. i # 0 => i - 1 \in 0 .. k - 1
        BY <2>2
      <4>2. i # 0 => g[i - 1] = f[i - 1]
        BY <3>7, <4>1
      <4> QED BY <4>2
    <3>9. g = [i \in 0 .. k |-> Rule(g, i)]
      <4>1. \A i \in 0 .. k : g[i] = Rule(g, i)
        <5> SUFFICES ASSUME NEW i \in 0 .. k PROVE g[i] = Rule(f, i)
          BY <3>8
        <5> HIDE DEF Rule
        <5>1. CASE i = k
          BY <3>4, <3>5, <5>1
        <5>2. CASE i # k
          <6>1. i \in 0 .. k - 1
            BY <2>2, <5>2
          <6> QED BY <3>6, <3>7, <6>1
        <5> QED BY <5>1, <5>2
      <4> HIDE DEF Rule
      <4> QED BY <3>5, <4>1
    <3> QED BY <2>2, <3>9 DEF Some
  <2> QED BY <2>3, <2>4
<1>2. Some(n)
  <2> HIDE DEF Some
  <2> QED BY <1>1
<1> DEFINE F == CHOOSE f : f = [i \in 0 .. Len(a) |-> IF i = 0 THEN s ELSE Do(e, f[i - 1], a[i])]
<1>3. F = [i \in 0 .. Len(a) |-> IF i = 0 THEN s ELSE Do(e, F[i - 1], a[i])]
  BY <1>2, Zenon
<1>4. After(e, s, a) = F[Len(a)]
  BY Zenon DEF After
<1> HIDE DEF F
<1>5. Goes(e, s, a, F, n)
  <2>1. PICK f : f = F
    OBVIOUS
  <2>2. f = [i \in 0 .. n |-> Rule(f, i)]
    BY <1>3, <2>1, Zenon
  <2>3. \A i \in 0 .. n : f[i] = Rule(f, i)
    <3> HIDE DEF Rule
    <3> QED BY <2>2
  <2> QED BY <2>1, <2>3, Zenon DEF Goes
<1> QED BY <1>4, <1>5

LEMMA AfterGoes ==
  \A n \in Nat : \A a : Len(a) = n =>
    \A e, s : \E f : Goes(e, s, a, f, n) /\ After(e, s, a) = f[n]
BY AfterIs

LEMMA AfterNone ==
  \A e, s : After(e, s, <<>>) = s
<1> TAKE e, s
<1>1. Len(<<>>) = 0
  OBVIOUS
<1>2. PICK f : Goes(e, s, <<>>, f, 0) /\ After(e, s, <<>>) = f[0]
  <2>1. PICK a, n : a = <<>> /\ n = 0
    OBVIOUS
  <2>2. n \in Nat /\ Len(a) = n
    BY <1>1, <2>1
  <2>3. \E f : Goes(e, s, a, f, n) /\ After(e, s, a) = f[n]
    BY <2>2, AfterGoes
  <2> QED BY <2>1, <2>3
<1>3. 0 \in 0 .. 0
  OBVIOUS
<1> QED BY <1>2, <1>3, Zenon DEF Goes

LEMMA AfterOne ==
  \A e, s, x : After(e, s, <<x>>) = Do(e, s, x)
<1> TAKE e, s, x
<1>1. Len(<<x>>) = 1 /\ <<x>>[1] = x
  OBVIOUS
<1>2. PICK f : Goes(e, s, <<x>>, f, 1) /\ After(e, s, <<x>>) = f[1]
  <2>1. PICK a : a = <<x>>
    OBVIOUS
  <2>2. \A n \in Nat : Len(a) = n => \E f : Goes(e, s, a, f, n) /\ After(e, s, a) = f[n]
    BY AfterGoes, ZenonT(40)
  <2> QED BY <1>1, <2>1, <2>2
<1>3. 0 \in 0 .. 1 /\ 1 \in 0 .. 1 /\ 1 # 0 /\ 1 - 1 = 0
  OBVIOUS
<1>4. f[0] = IF 0 = 0 THEN s ELSE Do(e, f[0 - 1], <<x>>[0])
  BY <1>2, <1>3, Zenon DEF Goes
<1>5. f[1] = IF 1 = 0 THEN s ELSE Do(e, f[1 - 1], <<x>>[1])
  BY <1>2, <1>3, Zenon DEF Goes
<1>6. f[0] = s /\ f[1] = Do(e, f[0], x)
  BY <1>1, <1>3, <1>4, <1>5
<1> QED BY <1>2, <1>6

LEMMA AfterBoth ==
  ASSUME NEW T, NEW a \in Seq(T), NEW b \in Seq(T), NEW e, NEW s
  PROVE  After(e, s, a \o b) = After(e, After(e, s, a), b)
<1>1. PICK c, k, m : c = a \o b /\ k = Len(a) /\ m = Len(b)
  OBVIOUS
<1>2. /\ c \in Seq(T) /\ k \in Nat /\ m \in Nat /\ Len(c) = k + m
      /\ \A i \in 1 .. k : c[i] = a[i]
      /\ \A i \in 1 .. m : c[k + i] = b[i]
  BY <1>1
<1>3. PICK t : t = After(e, s, a)
  OBVIOUS
<1>4. PICK f : Goes(e, s, c, f, k + m) /\ After(e, s, c) = f[k + m]
  <2>1. PICK n : n = k + m
    OBVIOUS
  <2>2. n \in Nat /\ Len(c) = n
    BY <1>2, <2>1
  <2>3. \E f : Goes(e, s, c, f, n) /\ After(e, s, c) = f[n]
    BY <2>2, AfterGoes
  <2> QED BY <2>1, <2>3
<1>5. PICK g : Goes(e, s, a, g, k) /\ t = g[k]
  BY <1>1, <1>2, <1>3, AfterGoes, SMTT(40)
<1>6. PICK h : Goes(e, t, b, h, m) /\ After(e, t, b) = h[m]
  <2>1. \A n \in Nat : Len(b) = n => \E h : Goes(e, t, b, h, n) /\ After(e, t, b) = h[n]
    BY AfterGoes, ZenonT(40)
  <2> QED BY <1>1, <1>2, <2>1
<1>7. Goes(e, s, a, f, k)
  <2> SUFFICES ASSUME NEW i \in 0 .. k PROVE f[i] = IF i = 0 THEN s ELSE Do(e, f[i - 1], a[i])
    BY DEF Goes
  <2>1. i \in 0 .. k + m
    BY <1>2
  <2>2. f[i] = IF i = 0 THEN s ELSE Do(e, f[i - 1], c[i])
    BY <1>4, <2>1, Zenon DEF Goes
  <2>3. i # 0 => c[i] = a[i]
    BY <1>2
  <2> QED BY <2>2, <2>3
<1>8. f[k] = t
  <2>1. \A i \in 0 .. k : f[i] = g[i]
    BY <1>2, <1>5, <1>7, GoesOneWay
  <2>2. k \in 0 .. k
    BY <1>2
  <2> QED BY <1>5, <2>1, <2>2
<1>9. PICK u : u = [i \in 0 .. m |-> f[k + i]]
  OBVIOUS
<1>10. Goes(e, t, b, u, m)
  <2> SUFFICES ASSUME NEW i \in 0 .. m PROVE u[i] = IF i = 0 THEN t ELSE Do(e, u[i - 1], b[i])
    BY DEF Goes
  <2>1. CASE i = 0
    <3>1. u[i] = f[k + 0] /\ k + 0 = k
      BY <1>2, <1>9, <2>1
    <3> QED BY <1>8, <2>1, <3>1
  <2>2. CASE i # 0
    <3>1. PICK j : j = k + i
      OBVIOUS
    <3>2. j \in 0 .. k + m /\ j # 0 /\ j - 1 = k + (i - 1) /\ i - 1 \in 0 .. m /\ i \in 1 .. m
      BY <1>2, <2>2, <3>1
    <3>3. f[j] = IF j = 0 THEN s ELSE Do(e, f[j - 1], c[j])
      BY <1>4, <3>2, Zenon DEF Goes
    <3>4. u[i] = f[j] /\ u[i - 1] = f[j - 1] /\ c[j] = b[i]
      BY <1>2, <1>9, <3>1, <3>2
    <3> QED BY <2>2, <3>2, <3>3, <3>4
  <2> QED BY <2>1, <2>2
<1>11. u[m] = h[m]
  <2>1. \A i \in 0 .. m : u[i] = h[i]
    BY <1>2, <1>6, <1>10, GoesOneWay
  <2>2. m \in 0 .. m
    BY <1>2
  <2> QED BY <2>1, <2>2
<1>12. u[m] = f[k + m]
  BY <1>2, <1>9
<1> QED BY <1>1, <1>3, <1>4, <1>6, <1>11, <1>12

-----------------------------------------------------------------------------
(* Sequences of sequences, laid end to end.                                *)

(* The sums of sequences, one by one.                                      *)
Chain(ss, f, n) == \A i \in 1 .. n : f[i] = IF i = 1 THEN ss[i] ELSE f[i - 1] \o ss[i]

(* The sums of the first n sequences are what those n make them.           *)
LEMMA ChainAgrees ==
  ASSUME NEW ss, NEW f, NEW g, NEW n \in Nat, Chain(ss, f, n), Chain(ss, g, n)
  PROVE  \A i \in 1 .. n : f[i] = g[i]
<1> DEFINE Bad == {i \in 1 .. n : f[i] # g[i]}
<1> SUFFICES ASSUME Bad # {} PROVE FALSE
  OBVIOUS
<1>1. PICK i \in Bad : \A j \in Bad : i <= j
  <2>1. Bad \subseteq Nat
    OBVIOUS
  <2> HIDE DEF Bad
  <2> QED BY <2>1, LeastOf
<1>2. i \in 1 .. n /\ f[i] # g[i]
  OBVIOUS
<1>3. CASE i = 1
  BY <1>2, <1>3 DEF Chain
<1>4. CASE i # 1
  <2>1. i - 1 \in 1 .. n /\ ~(i <= i - 1)
    BY <1>2, <1>4
  <2>2. f[i - 1] = g[i - 1]
    BY <1>1, <2>1
  <2>3. f[i] = f[i - 1] \o ss[i] /\ g[i] = g[i - 1] \o ss[i]
    BY <1>2, <1>4 DEF Chain
  <2> QED BY <1>2, <2>2, <2>3
<1> QED BY <1>3, <1>4

(* FlattenSeq is the last of the sums ...                                  *)
LEMMA ChainExists ==
  ASSUME NEW S, NEW ss \in Seq(Seq(S)), Len(ss) # 0
  PROVE  \E f \in [1 .. Len(ss) -> Seq(S)] : Chain(ss, f, Len(ss)) /\ FlattenSeq(ss) = f[Len(ss)]
<1> DEFINE Sum(f, i) == IF i = 1 THEN ss[i] ELSE f[i - 1] \o ss[i]
           Summed(n) == \E g \in [1 .. n -> Seq(S)] : \A i \in 1 .. n : g[i] = Sum(g, i)
           Bad == {n \in 1 .. Len(ss) : ~Summed(n)}
<1>1. Len(ss) \in Nat /\ \A i \in 1 .. Len(ss) : ss[i] \in Seq(S)
  OBVIOUS
<1>2. Bad = {}
  <2> SUFFICES ASSUME Bad # {} PROVE FALSE
    OBVIOUS
  <2> HIDE DEF Summed
  <2>1. PICK n \in Bad : \A m \in Bad : n <= m
    <3>1. Bad \subseteq Nat
      OBVIOUS
    <3> QED BY <3>1, LeastOf
  <2>2. n \in 1 .. Len(ss) /\ ~Summed(n)
    OBVIOUS
  <2>3. n # 1
    <3> SUFFICES ASSUME n = 1 PROVE Summed(n)
      BY <2>2
    <3>1. [i \in 1 .. 1 |-> ss[1]] \in [1 .. 1 -> Seq(S)]
      BY <1>1
    <3>2. \A i \in 1 .. 1 : [j \in 1 .. 1 |-> ss[1]][i] = Sum([j \in 1 .. 1 |-> ss[1]], i)
      OBVIOUS
    <3> QED BY <3>1, <3>2 DEF Summed
  <2>4. n - 1 \in 1 .. Len(ss) /\ Summed(n - 1)
    <3>1. n - 1 \in 1 .. Len(ss) /\ ~(n <= n - 1)
      BY <1>1, <2>2, <2>3
    <3> QED BY <2>1, <3>1
  <2>5. PICK g \in [1 .. n - 1 -> Seq(S)] : \A i \in 1 .. n - 1 : g[i] = Sum(g, i)
    BY <2>4 DEF Summed
  <2>6. PICK h : h = [i \in 1 .. n |-> IF i = n THEN g[n - 1] \o ss[n] ELSE g[i]]
    OBVIOUS
  <2>7. h \in [1 .. n -> Seq(S)]
    <3>1. g[n - 1] \o ss[n] \in Seq(S)
      BY <1>1, <2>2, <2>3, <2>4, <2>5, ConcatProperties
    <3> QED BY <1>1, <2>2, <2>5, <2>6, <3>1
  <2>8. \A i \in 1 .. n : h[i] = Sum(h, i)
    <3> SUFFICES ASSUME NEW i \in 1 .. n PROVE h[i] = Sum(h, i)
      OBVIOUS
    <3>1. CASE i = n
      <4>1. n - 1 \in 1 .. n /\ n - 1 # n /\ n \in 1 .. n
        BY <2>2, <2>3
      <4>2. h[n] = g[n - 1] \o ss[n]
        BY <2>6, <4>1, Zenon
      <4>3. h[n - 1] = g[n - 1]
        BY <2>2, <2>6, <4>1
      <4>4. h[n] = h[n - 1] \o ss[n]
        BY <4>2, <4>3
      <4>5. Sum(h, n) = h[n - 1] \o ss[n]
        BY <2>3
      <4> HIDE DEF Sum
      <4> QED BY <3>1, <4>4, <4>5
    <3>2. CASE i # n
      <4>1. i \in 1 .. n - 1 /\ (i # 1 => i - 1 \in 1 .. n /\ i - 1 # n)
        BY <2>2, <3>2
      <4>2. h[i] = g[i] /\ (i # 1 => h[i - 1] = g[i - 1])
        BY <2>6, <3>2, <4>1
      <4>3. g[i] = Sum(g, i)
        BY <2>5, <4>1
      <4> QED BY <4>2, <4>3
    <3> QED BY <3>1, <3>2
  <2> QED BY <2>2, <2>7, <2>8 DEF Summed
<1>3. PICK g \in [1 .. Len(ss) -> Seq(S)] : \A i \in 1 .. Len(ss) : g[i] = Sum(g, i)
  <2>1. Len(ss) \in 1 .. Len(ss)
    BY <1>1
  <2> HIDE DEF Summed
  <2>2. Summed(Len(ss))
    BY <1>2, <2>1
  <2> QED BY <2>2 DEF Summed
<1>4. g = [i \in 1 .. Len(ss) |-> IF i = 1 THEN ss[i] ELSE g[i - 1] \o ss[i]]
  BY <1>3
<1> DEFINE F == CHOOSE f : f = [i \in 1 .. Len(ss) |-> IF i = 1 THEN ss[i] ELSE f[i - 1] \o ss[i]]
<1>5. F = [i \in 1 .. Len(ss) |-> IF i = 1 THEN ss[i] ELSE F[i - 1] \o ss[i]]
  BY <1>4, Zenon
<1>6. FlattenSeq(ss) = F[Len(ss)]
  BY Zenon DEF FlattenSeq
<1> HIDE DEF F
<1>7. Chain(ss, F, Len(ss)) /\ Chain(ss, g, Len(ss))
  <2>1. PICK f : f = F
    OBVIOUS
  <2>2. f = [i \in 1 .. Len(ss) |-> IF i = 1 THEN ss[i] ELSE f[i - 1] \o ss[i]]
    BY <1>5, <2>1
  <2>3. Chain(ss, f, Len(ss))
    BY <2>2 DEF Chain
  <2> QED BY <1>3, <2>1, <2>3 DEF Chain
<1>8. Len(ss) \in 1 .. Len(ss) /\ \A i \in 1 .. Len(ss) : F[i] = g[i]
  BY <1>1, <1>7, ChainAgrees
<1> QED BY <1>6, <1>7, <1>8

(* ... so that each sequence is appended to those before it.               *)
Upto(ss, k) == FlattenSeq(SubSeq(ss, 1, k))

LEMMA UptoIs ==
  ASSUME NEW S, NEW ss \in Seq(Seq(S))
  PROVE  /\ Upto(ss, 0) = <<>> /\ Upto(ss, Len(ss)) = FlattenSeq(ss)
         /\ \A k \in 0 .. Len(ss) : Upto(ss, k) \in Seq(S) /\ Len(Upto(ss, k)) \in Nat
         /\ \A k \in 1 .. Len(ss) : Upto(ss, k) = Upto(ss, k - 1) \o ss[k]
<1>1. Len(ss) \in Nat
  OBVIOUS
<1>2. \A k \in 0 .. Len(ss) : /\ SubSeq(ss, 1, k) \in Seq(Seq(S)) /\ Len(SubSeq(ss, 1, k)) = k
                             /\ \A i \in 1 .. k : SubSeq(ss, 1, k)[i] = ss[i]
  OBVIOUS
<1>3. Upto(ss, 0) = <<>>
  <2>1. SubSeq(ss, 1, 0) = <<>> /\ Len(SubSeq(ss, 1, 0)) = 0
    OBVIOUS
  <2> QED BY <2>1 DEF Upto, FlattenSeq
<1>4. Upto(ss, Len(ss)) = FlattenSeq(ss)
  <2>1. SubSeq(ss, 1, Len(ss)) = ss
    BY <1>1
  <2> QED BY <2>1 DEF Upto
<1>5. ASSUME NEW k \in 1 .. Len(ss)
      PROVE  Upto(ss, k) \in Seq(S) /\ \E f : Chain(ss, f, k) /\ Upto(ss, k) = f[k]
  <2>1. PICK tt : tt = SubSeq(ss, 1, k)
    OBVIOUS
  <2>2. tt \in Seq(Seq(S)) /\ Len(tt) = k /\ k # 0 /\ \A i \in 1 .. k : tt[i] = ss[i]
    BY <1>2, <2>1
  <2>3. PICK f \in [1 .. k -> Seq(S)] : Chain(tt, f, k) /\ FlattenSeq(tt) = f[k]
    BY <2>2, ChainExists
  <2>4. Chain(ss, f, k)
    BY <2>2, <2>3 DEF Chain
  <2>5. k \in 1 .. k
    OBVIOUS
  <2>6. f[k] \in Seq(S)
    BY <2>5
  <2> QED BY <2>1, <2>3, <2>4, <2>6, Zenon DEF Upto
<1>6. \A k \in 0 .. Len(ss) : Upto(ss, k) \in Seq(S)
  <2> SUFFICES ASSUME NEW k \in 0 .. Len(ss) PROVE Upto(ss, k) \in Seq(S)
    OBVIOUS
  <2>1. CASE k = 0
    <3>1. <<>> \in Seq(S)
      OBVIOUS
    <3> QED BY <1>3, <2>1, <3>1
  <2>2. CASE k \in 1 .. Len(ss)
    BY <1>5, <2>2
  <2> QED BY <1>1, <2>1, <2>2
<1>7. ASSUME NEW k \in 1 .. Len(ss) PROVE Upto(ss, k) = Upto(ss, k - 1) \o ss[k]
  <2>1. PICK f : Chain(ss, f, k) /\ Upto(ss, k) = f[k]
    BY <1>5
  <2>2. CASE k = 1
    <3>1. f[k] = ss[k]
      BY <2>1, <2>2 DEF Chain
    <3>2. Upto(ss, k - 1) = <<>>
      BY <1>3, <2>2
    <3>3. ss[k] \in Seq(S)
      OBVIOUS
    <3>4. <<>> \o ss[k] = ss[k]
      BY <3>3, ConcatEmptySeq
    <3> QED BY <2>1, <3>1, <3>2, <3>4
  <2>3. CASE k # 1
    <3>1. k - 1 \in 1 .. Len(ss) /\ k - 1 \in 1 .. k /\ k - 1 \in Nat /\ k \in 1 .. k
      BY <1>1, <2>3
    <3>2. PICK g : Chain(ss, g, k - 1) /\ Upto(ss, k - 1) = g[k - 1]
      BY <1>5, <3>1
    <3>3. Chain(ss, f, k - 1)
      <4>1. \A i \in 1 .. k - 1 : i \in 1 .. k
        BY <3>1
      <4> QED BY <2>1, <4>1 DEF Chain
    <3>4. k - 1 \in 1 .. k - 1
      BY <3>1
    <3>5. f[k - 1] = g[k - 1]
      <4>1. PICK n : n = k - 1
        OBVIOUS
      <4>2. n \in Nat /\ Chain(ss, f, n) /\ Chain(ss, g, n)
        BY <3>1, <3>2, <3>3, <4>1
      <4>3. \A i \in 1 .. n : f[i] = g[i]
        BY <4>2, ChainAgrees
      <4> QED BY <3>4, <4>1, <4>3
    <3>6. f[k] = f[k - 1] \o ss[k]
      BY <2>1, <2>3, <3>1 DEF Chain
    <3> QED BY <2>1, <3>2, <3>5, <3>6
  <2> QED BY <2>2, <2>3
<1> QED BY <1>3, <1>4, <1>6, <1>7, LenProperties

(* One more laid behind the rest.                                          *)
LEMMA FlatAppend ==
  ASSUME NEW S, NEW ss \in Seq(Seq(S)), NEW x \in Seq(S)
  PROVE  /\ FlattenSeq(Append(ss, x)) = FlattenSeq(ss) \o x
         /\ FlattenSeq(ss) \in Seq(S)
<1>1. PICK tt, n : tt = Append(ss, x) /\ n = Len(ss) + 1
  OBVIOUS
<1>2. tt \in Seq(Seq(S)) /\ Len(tt) = n /\ n \in 1 .. Len(tt) /\ tt[n] = x /\ n - 1 = Len(ss)
  BY <1>1
<1>3. SubSeq(tt, 1, n - 1) = ss
  BY <1>1, <1>2
<1>4. Upto(tt, n - 1) = FlattenSeq(ss)
  BY <1>3, Zenon DEF Upto
<1>5. Upto(tt, n) = Upto(tt, n - 1) \o tt[n] /\ Upto(tt, n) = FlattenSeq(tt)
  BY <1>2, UptoIs
<1>6. FlattenSeq(ss) \in Seq(S)
  <2>1. Len(ss) \in 0 .. Len(ss)
    OBVIOUS
  <2> QED BY <2>1, UptoIs
<1> QED BY <1>1, <1>2, <1>4, <1>5, <1>6

(* The headers of the sequences held back.                                 *)
Opens(p) == [i \in DOMAIN p |-> Opened(p[i])]

LEMMA OpensIs ==
  ASSUME NEW p \in Seq(0 .. IdMax)
  PROVE  /\ Opens(p) \in Seq(Seq(Nat)) /\ Len(Opens(p)) = Len(p)
         /\ \A i \in 1 .. Len(p) : /\ 8 * p[i] + WireType.start \in 0 .. UnsignedMax
                                   /\ Opens(p)[i] = EncodeVarint[8 * p[i] + WireType.start]
<1>1. \A i \in 1 .. Len(p) : 8 * p[i] + 6 \in 0 .. UnsignedMax
  <2> SUFFICES ASSUME NEW i \in 1 .. Len(p) PROVE 8 * p[i] + 6 \in 0 .. UnsignedMax
    OBVIOUS
  <2>1. p[i] \in 0 .. IdMax
    BY ElementOfSeq
  <2>2. PICK u : u = UnsignedMax
    OBVIOUS
  <2>3. u \in Int
    BY <2>2, WordIs
  <2> QED BY <2>1, <2>2, <2>3, WordAssumption
<1>2. WireType.start = 6
  BY DEF WireType
<1>3. \A i \in 1 .. Len(p) : Opened(p[i]) \in Seq(Nat)
  <2> SUFFICES ASSUME NEW i \in 1 .. Len(p) PROVE Opened(p[i]) \in Seq(Nat)
    OBVIOUS
  <2>1. PICK v \in Nat : v = 8 * p[i] + WireType.start
    BY <1>1, <1>2
  <2> QED BY <2>1, EncodeVarintIs DEF Opened
<1>4. Opens(p) = [i \in 1 .. Len(p) |-> Opened(p[i])] /\ Len(p) \in Nat
  BY DEF Opens
<1>5. Opens(p) \in Seq(Seq(Nat)) /\ Len(Opens(p)) = Len(p) /\ \A i \in 1 .. Len(p) : Opens(p)[i] = Opened(p[i])
  BY <1>3, <1>4
<1> QED BY <1>1, <1>2, <1>5 DEF Opened

(* The encoder once nothing is held back.                                  *)
Emptied(s) == [s EXCEPT !.pending = <<>>]

LEMMA EmptiedIs ==
  ASSUME NEW s, IsEncoder(s)
  PROVE  /\ IsEncoder(Emptied(s)) /\ Emptied(s).pending = <<>> /\ Emptied(s).out = s.out
         /\ Emptied(s).depth = s.depth /\ Emptied(s).error = s.error /\ Emptied(s).stop = s.stop
         /\ Emptied(s).sticky = s.sticky /\ Emptied(s).room = s.room
<1>1. PICK u : u = Emptied(s)
  OBVIOUS
<1>0. <<>> \in Seq(0 .. IdMax)
  OBVIOUS
<1>2. /\ u \in [out : Seq(Nat), pending : Seq(0 .. IdMax), depth : Nat, error : Errors, stop : Stops,
                sticky : BOOLEAN, room : Nat]
      /\ u.pending = <<>> /\ u.out = s.out /\ u.depth = s.depth /\ u.error = s.error /\ u.stop = s.stop
      /\ u.sticky = s.sticky /\ u.room = s.room
  BY <1>0, <1>1 DEF IsEncoder, Emptied
<1>3. IsEncoder(u)
  BY <1>2 DEF IsEncoder
<1> QED BY <1>1, <1>2, <1>3

(* The run that was held back goes out as one.                             *)
LEMMA CommitIs ==
  ASSUME NEW e \in Engines, NEW s, IsEncoder(s)
  PROVE  CommitPending(e, s) = Put(Emptied(s), FlattenSeq(Opens(s.pending)))
<1>1. PICK p, n, z, o : p = s.pending /\ n = Len(p) /\ z = Emptied(s) /\ o = Opens(p)
  OBVIOUS
<1>2. p \in Seq(0 .. IdMax) /\ n \in Nat /\ IsEncoder(z)
  <2>1. s.pending \in Seq(0 .. IdMax)
    BY EncoderIs
  <2> QED BY <1>1, <2>1, EmptiedIs
<1>3. /\ o \in Seq(Seq(Nat)) /\ Len(o) = n
      /\ \A i \in 1 .. n : /\ 8 * p[i] + WireType.start \in 0 .. UnsignedMax
                           /\ o[i] = EncodeVarint[8 * p[i] + WireType.start]
  BY <1>1, <1>2, OpensIs
<1>4. PICK g : g = [i \in 0 .. n |-> Put(z, Upto(o, i))]
  OBVIOUS
<1> DEFINE Rule(f, i) == IF i = 0 THEN z ELSE EmitVarint(e, f[i - 1], 8 * p[i] + WireType.start)
<1>5. \A i \in 0 .. n : g[i] = Rule(g, i)
  <2> SUFFICES ASSUME NEW i \in 0 .. n PROVE g[i] = Rule(g, i)
    OBVIOUS
  <2>1. CASE i = 0
    <3>1. Upto(o, 0) = <<>>
      BY <1>3, UptoIs
    <3>2. g[0] = Put(z, Upto(o, 0))
      BY <1>2, <1>4
    <3> QED BY <1>2, <2>1, <3>1, <3>2, PutNone
  <2>2. CASE i # 0
    <3>1. i \in 1 .. n /\ i - 1 \in 0 .. n
      BY <1>2, <2>2
    <3>2. PICK a, b, v : a = Upto(o, i - 1) /\ b = o[i] /\ v = 8 * p[i] + WireType.start
      OBVIOUS
    <3>3. a \in Seq(Nat) /\ b \in Seq(Nat) /\ Upto(o, i) = a \o b
      <4>1. a \in Seq(Nat)
        BY <1>3, <3>1, <3>2, UptoIs
      <4>2. Upto(o, i) = a \o b
        BY <1>3, <3>1, <3>2, UptoIs
      <4>3. b \in Seq(Nat)
        BY <1>3, <3>1, <3>2
      <4> QED BY <4>1, <4>2, <4>3
    <3>4. g[i] = Put(z, a \o b) /\ g[i - 1] = Put(z, a)
      BY <1>4, <3>1, <3>2, <3>3
    <3>5. PICK t : t = Put(z, a)
      OBVIOUS
    <3>6. IsEncoder(t) /\ Put(t, b) = Put(z, a \o b)
      BY <1>2, <3>3, <3>5, PutKeeps, PutTwice
    <3>7. v \in 0 .. UnsignedMax /\ b = EncodeVarint[v]
      BY <1>3, <3>1, <3>2
    <3>8. EmitVarint(e, t, v) = Put(t, b)
      BY <3>6, <3>7, EmitIs
    <3> QED BY <2>2, <3>2, <3>4, <3>5, <3>6, <3>8
  <2> QED BY <2>1, <2>2
<1>6. g = [i \in 0 .. n |-> Rule(g, i)]
  <2> HIDE DEF Rule
  <2> QED BY <1>4, <1>5
<1> DEFINE F == CHOOSE f : f = [i \in 0 .. Len(s.pending) |->
                  IF i = 0 THEN [s EXCEPT !.pending = <<>>]
                  ELSE EmitVarint(e, f[i - 1], 8 * s.pending[i] + WireType.start)]
<1>7. F = [i \in 0 .. Len(s.pending) |->
            IF i = 0 THEN [s EXCEPT !.pending = <<>>]
            ELSE EmitVarint(e, F[i - 1], 8 * s.pending[i] + WireType.start)]
  <2>1. g = [i \in 0 .. Len(s.pending) |->
            IF i = 0 THEN [s EXCEPT !.pending = <<>>]
            ELSE EmitVarint(e, g[i - 1], 8 * s.pending[i] + WireType.start)]
    BY <1>1, <1>6, Zenon DEF Emptied
  <2> QED BY <2>1, Zenon
<1>8. CommitPending(e, s) = F[Len(s.pending)]
  BY Zenon DEF CommitPending
<1> HIDE DEF F
<1>9. PICK h : h = F
  OBVIOUS
<1>10. h = [i \in 0 .. n |-> Rule(h, i)]
  BY <1>1, <1>7, <1>9, Zenon DEF Emptied
<1>11. \A i \in 0 .. n : h[i] = Rule(h, i)
  <2> HIDE DEF Rule
  <2> QED BY <1>10
<1>12. \A i \in 0 .. n : h[i] = g[i]
  <2> DEFINE Bad == {i \in 0 .. n : h[i] # g[i]}
  <2> SUFFICES ASSUME Bad # {} PROVE FALSE
    OBVIOUS
  <2>1. PICK i \in Bad : \A m \in Bad : i <= m
    <3>1. Bad \subseteq Nat
      OBVIOUS
    <3> HIDE DEF Bad
    <3> QED BY <3>1, LeastOf
  <2>2. i \in 0 .. n /\ h[i] # g[i]
    OBVIOUS
  <2>3. h[i] = Rule(h, i) /\ g[i] = Rule(g, i)
    <3> HIDE DEF Rule
    <3> QED BY <1>5, <1>11, <2>2
  <2>4. i # 0
    BY <2>2, <2>3
  <2>5. i - 1 \in 0 .. n /\ ~(i <= i - 1)
    BY <1>2, <2>2, <2>4
  <2>6. h[i - 1] = g[i - 1]
    BY <2>1, <2>5
  <2> QED BY <2>2, <2>3, <2>6
<1>13. g[n] = Put(z, FlattenSeq(o))
  <2>1. n \in 0 .. n /\ Upto(o, n) = FlattenSeq(o)
    <3>1. Upto(o, Len(o)) = FlattenSeq(o)
      BY <1>3, UptoIs
    <3> QED BY <1>2, <1>3, <3>1
  <2> QED BY <1>4, <2>1
<1> QED BY <1>1, <1>2, <1>8, <1>9, <1>12, <1>13

(* Short lists of steps, one after the other.                              *)
LEMMA AfterTwo ==
  \A e, s, x, y :
    After(e, s, <<x, y>>) = Do(e, Do(e, s, x), y)
<1> TAKE e, s, x, y
<1>0. PICK a : a = <<x, y>>
  OBVIOUS
<1>1. Len(a) = 2 /\ a[1] = x /\ a[2] = y
  BY <1>0
<1>2. PICK f : Goes(e, s, a, f, 2) /\ After(e, s, a) = f[2]
  <2>1. PICK b : b = a
    OBVIOUS
  <2>2. \A n \in Nat : Len(b) = n => \E f : Goes(e, s, b, f, n) /\ After(e, s, b) = f[n]
    BY AfterGoes, Zenon
  <2> QED BY <1>1, <2>1, <2>2
<1>3. /\ 0 \in 0 .. 2
      /\ 1 \in 0 .. 2 /\ 1 # 0 /\ 1 - 1 = 0
      /\ 2 \in 0 .. 2 /\ 2 # 0 /\ 2 - 1 = 1
  OBVIOUS
<1>4. f[0] = IF 0 = 0 THEN s ELSE Do(e, f[0 - 1], a[0])
  BY <1>2, <1>3, Zenon DEF Goes
<1>5. f[1] = IF 1 = 0 THEN s ELSE Do(e, f[1 - 1], a[1])
  BY <1>2, <1>3, Zenon DEF Goes
<1>6. f[2] = IF 2 = 0 THEN s ELSE Do(e, f[2 - 1], a[2])
  BY <1>2, <1>3, Zenon DEF Goes
<1>7. f[0] = s /\ f[1] = Do(e, f[0], x) /\ f[2] = Do(e, f[1], y)
  BY <1>1, <1>3, <1>4, <1>5, <1>6
<1> QED BY <1>0, <1>2, <1>7

LEMMA AfterThree ==
  \A e, s, x, y, u :
    After(e, s, <<x, y, u>>) = Do(e, Do(e, Do(e, s, x), y), u)
<1> TAKE e, s, x, y, u
<1>0. PICK a : a = <<x, y, u>>
  OBVIOUS
<1>1. Len(a) = 3 /\ a[1] = x /\ a[2] = y /\ a[3] = u
  BY <1>0
<1>2. PICK f : Goes(e, s, a, f, 3) /\ After(e, s, a) = f[3]
  <2>1. PICK b : b = a
    OBVIOUS
  <2>2. \A n \in Nat : Len(b) = n => \E f : Goes(e, s, b, f, n) /\ After(e, s, b) = f[n]
    BY AfterGoes, Zenon
  <2> QED BY <1>1, <2>1, <2>2
<1>3. /\ 0 \in 0 .. 3
      /\ 1 \in 0 .. 3 /\ 1 # 0 /\ 1 - 1 = 0
      /\ 2 \in 0 .. 3 /\ 2 # 0 /\ 2 - 1 = 1
      /\ 3 \in 0 .. 3 /\ 3 # 0 /\ 3 - 1 = 2
  OBVIOUS
<1>4. f[0] = IF 0 = 0 THEN s ELSE Do(e, f[0 - 1], a[0])
  BY <1>2, <1>3, Zenon DEF Goes
<1>5. f[1] = IF 1 = 0 THEN s ELSE Do(e, f[1 - 1], a[1])
  BY <1>2, <1>3, Zenon DEF Goes
<1>6. f[2] = IF 2 = 0 THEN s ELSE Do(e, f[2 - 1], a[2])
  BY <1>2, <1>3, Zenon DEF Goes
<1>7. f[3] = IF 3 = 0 THEN s ELSE Do(e, f[3 - 1], a[3])
  BY <1>2, <1>3, Zenon DEF Goes
<1>8. f[0] = s /\ f[1] = Do(e, f[0], x) /\ f[2] = Do(e, f[1], y) /\ f[3] = Do(e, f[2], u)
  BY <1>1, <1>3, <1>4, <1>5, <1>6, <1>7
<1> QED BY <1>0, <1>2, <1>8

LEMMA AfterFour ==
  \A e, s, x, y, u, v :
    After(e, s, <<x, y, u, v>>) = Do(e, Do(e, Do(e, Do(e, s, x), y), u), v)
<1> TAKE e, s, x, y, u, v
<1>0. PICK a : a = <<x, y, u, v>>
  OBVIOUS
<1>1. Len(a) = 4 /\ a[1] = x /\ a[2] = y /\ a[3] = u /\ a[4] = v
  BY <1>0
<1>2. PICK f : Goes(e, s, a, f, 4) /\ After(e, s, a) = f[4]
  <2>1. PICK b : b = a
    OBVIOUS
  <2>2. \A n \in Nat : Len(b) = n => \E f : Goes(e, s, b, f, n) /\ After(e, s, b) = f[n]
    BY AfterGoes, Zenon
  <2> QED BY <1>1, <2>1, <2>2
<1>3. /\ 0 \in 0 .. 4
      /\ 1 \in 0 .. 4 /\ 1 # 0 /\ 1 - 1 = 0
      /\ 2 \in 0 .. 4 /\ 2 # 0 /\ 2 - 1 = 1
      /\ 3 \in 0 .. 4 /\ 3 # 0 /\ 3 - 1 = 2
      /\ 4 \in 0 .. 4 /\ 4 # 0 /\ 4 - 1 = 3
  OBVIOUS
<1>4. f[0] = IF 0 = 0 THEN s ELSE Do(e, f[0 - 1], a[0])
  BY <1>2, <1>3, Zenon DEF Goes
<1>5. f[1] = IF 1 = 0 THEN s ELSE Do(e, f[1 - 1], a[1])
  BY <1>2, <1>3, Zenon DEF Goes
<1>6. f[2] = IF 2 = 0 THEN s ELSE Do(e, f[2 - 1], a[2])
  BY <1>2, <1>3, Zenon DEF Goes
<1>7. f[3] = IF 3 = 0 THEN s ELSE Do(e, f[3 - 1], a[3])
  BY <1>2, <1>3, Zenon DEF Goes
<1>8. f[4] = IF 4 = 0 THEN s ELSE Do(e, f[4 - 1], a[4])
  BY <1>2, <1>3, Zenon DEF Goes
<1>9. f[0] = s /\ f[1] = Do(e, f[0], x) /\ f[2] = Do(e, f[1], y) /\ f[3] = Do(e, f[2], u) /\ f[4] = Do(e, f[3], v)
  BY <1>1, <1>3, <1>4, <1>5, <1>6, <1>7, <1>8
<1> QED BY <1>0, <1>2, <1>9

(* Nothing happens once the call has stopped.                              *)
LEMMA AfterStopped ==
  ASSUME NEW e, NEW s, s.stop # "none", NEW T, NEW a \in Seq(T)
  PROVE  After(e, s, a) = s
<1>1. PICK n : n = Len(a)
  OBVIOUS
<1>2. n \in Nat
  BY <1>1
<1>3. PICK b : b = a
  OBVIOUS
<1>4. PICK f : Goes(e, s, a, f, n) /\ After(e, s, a) = f[n]
  <2>1. n \in Nat /\ Len(b) = n
    BY <1>1, <1>2, <1>3
  <2>2. \E f : Goes(e, s, b, f, n) /\ After(e, s, b) = f[n]
    BY <2>1, AfterIs
  <2> QED BY <1>3, <2>2
<1> DEFINE Bad == {i \in 0 .. n : f[i] # s}
<1>5. Bad = {}
  <2> SUFFICES ASSUME Bad # {} PROVE FALSE
    OBVIOUS
  <2>1. PICK i \in Bad : \A m \in Bad : i <= m
    <3>1. Bad \subseteq Nat
      OBVIOUS
    <3> HIDE DEF Bad
    <3> QED BY <3>1, LeastOf
  <2>2. i \in 0 .. n /\ f[i] # s
    OBVIOUS
  <2>3. f[i] = IF i = 0 THEN s ELSE Do(e, f[i - 1], a[i])
    BY <1>4, <2>2, Zenon DEF Goes
  <2>4. i # 0
    BY <2>2, <2>3
  <2>5. i - 1 \in 0 .. n /\ ~(i <= i - 1)
    BY <1>2, <2>2, <2>4
  <2>6. f[i - 1] = s
    BY <2>1, <2>5
  <2>7. Do(e, s, a[i]) = s
    BY Zenon DEF Do
  <2> QED BY <2>2, <2>3, <2>4, <2>6, <2>7
<1>6. n \in 0 .. n
  BY <1>2
<1> QED BY <1>4, <1>5, <1>6

(* A series of parts, each of which writes what belongs to it.             *)
LEMMA AfterParts ==
  ASSUME NEW T, NEW parts \in Seq(Seq(T)), NEW bs \in Seq(Seq(Nat)), NEW n \in Nat,
         Len(parts) = n, Len(bs) = n, NEW e,
         \A i \in 1 .. n : \A t : IsEncoder(t) => After(e, t, parts[i]) = Put(t, bs[i]),
         NEW s, IsEncoder(s)
  PROVE  After(e, s, FlattenSeq(parts)) = Put(s, FlattenSeq(bs)) /\ FlattenSeq(bs) \in Seq(Nat)
<1> DEFINE Bad == {k \in 0 .. n : After(e, s, Upto(parts, k)) # Put(s, Upto(bs, k))}
<1>1. Bad = {}
  <2> SUFFICES ASSUME Bad # {} PROVE FALSE
    OBVIOUS
  <2>1. PICK k \in Bad : \A m \in Bad : k <= m
    <3>1. Bad \subseteq Nat
      OBVIOUS
    <3> HIDE DEF Bad
    <3> QED BY <3>1, LeastOf
  <2>2. k \in 0 .. n /\ After(e, s, Upto(parts, k)) # Put(s, Upto(bs, k))
    OBVIOUS
  <2>3. k # 0
    <3>1. Upto(parts, 0) = <<>> /\ Upto(bs, 0) = <<>>
      BY UptoIs
    <3>2. After(e, s, <<>>) = s
      BY AfterNone
    <3> QED BY <2>2, <3>1, <3>2, PutNone
  <2>4. k - 1 \in 0 .. n /\ ~(k <= k - 1) /\ k \in 1 .. n
    BY <2>2, <2>3
  <2>5. PICK a, p, b, q : a = Upto(parts, k - 1) /\ p = parts[k] /\ b = Upto(bs, k - 1) /\ q = bs[k]
    OBVIOUS
  <2>6. a \in Seq(T) /\ p \in Seq(T) /\ Upto(parts, k) = a \o p
    <3>1. a \in Seq(T)
      BY <2>4, <2>5, UptoIs
    <3>2. Upto(parts, k) = a \o p
      BY <2>4, <2>5, UptoIs
    <3>3. p \in Seq(T)
      BY <2>4, <2>5
    <3> QED BY <3>1, <3>2, <3>3
  <2>7. b \in Seq(Nat) /\ q \in Seq(Nat) /\ Upto(bs, k) = b \o q
    <3>1. b \in Seq(Nat)
      BY <2>4, <2>5, UptoIs
    <3>2. Upto(bs, k) = b \o q
      BY <2>4, <2>5, UptoIs
    <3>3. q \in Seq(Nat)
      BY <2>4, <2>5
    <3> QED BY <3>1, <3>2, <3>3
  <2>8. After(e, s, a) = Put(s, b)
    <3>1. k - 1 \notin Bad
      BY <2>1, <2>4
    <3> QED BY <2>4, <2>5, <3>1
  <2>9. PICK t : t = Put(s, b)
    OBVIOUS
  <2>10. IsEncoder(t) /\ Put(t, q) = Put(s, b \o q)
    BY <2>7, <2>9, PutKeeps, PutTwice
  <2>11. After(e, t, p) = Put(t, q)
    BY <2>4, <2>5, <2>10
  <2>12. After(e, s, a \o p) = After(e, After(e, s, a), p)
    BY <2>6, AfterBoth
  <2> QED BY <2>2, <2>6, <2>7, <2>8, <2>9, <2>10, <2>11, <2>12
<1>2. n \in 0 .. n /\ Upto(parts, n) = FlattenSeq(parts) /\ Upto(bs, n) = FlattenSeq(bs)
      /\ Upto(bs, n) \in Seq(Nat)
  <2>1. n \in 0 .. n
    OBVIOUS
  <2>2. Upto(parts, Len(parts)) = FlattenSeq(parts)
    BY UptoIs
  <2>3. Upto(bs, Len(bs)) = FlattenSeq(bs)
    BY UptoIs
  <2>4. Upto(bs, n) \in Seq(Nat)
    BY <2>1, UptoIs
  <2> QED BY <2>1, <2>2, <2>3, <2>4
<1> QED BY <1>1, <1>2

(* Parts of one each are the sequence itself.                              *)
LEMMA FlatSingles ==
  ASSUME NEW T, NEW a \in Seq(T), NEW n \in Nat, Len(a) = n
  PROVE  /\ [i \in 1 .. n |-> <<a[i]>>] \in Seq(Seq(T)) /\ Len([i \in 1 .. n |-> <<a[i]>>]) = n
         /\ FlattenSeq([i \in 1 .. n |-> <<a[i]>>]) = a
<1>1. PICK ss : ss = [i \in 1 .. n |-> <<a[i]>>]
  OBVIOUS
<1>2. ss \in Seq(Seq(T)) /\ Len(ss) = n /\ \A i \in 1 .. n : ss[i] = <<a[i]>>
  <2>1. \A i \in 1 .. n : <<a[i]>> \in Seq(T)
    OBVIOUS
  <2> QED BY <1>1, <2>1
<1> DEFINE Bad == {k \in 0 .. n : Upto(ss, k) # SubSeq(a, 1, k)}
<1>3. Bad = {}
  <2> SUFFICES ASSUME Bad # {} PROVE FALSE
    OBVIOUS
  <2>1. PICK k \in Bad : \A m \in Bad : k <= m
    <3>1. Bad \subseteq Nat
      OBVIOUS
    <3> HIDE DEF Bad
    <3> QED BY <3>1, LeastOf
  <2>2. k \in 0 .. n /\ Upto(ss, k) # SubSeq(a, 1, k)
    OBVIOUS
  <2>3. k # 0
    <3>1. Upto(ss, 0) = <<>>
      BY <1>2, UptoIs
    <3>2. SubSeq(a, 1, 0) = <<>>
      OBVIOUS
    <3> QED BY <2>2, <3>1, <3>2
  <2>4. k - 1 \in 0 .. n /\ ~(k <= k - 1) /\ k \in 1 .. n
    BY <2>2, <2>3
  <2>5. Upto(ss, k - 1) = SubSeq(a, 1, k - 1)
    BY <2>1, <2>4
  <2>6. Upto(ss, k) = Upto(ss, k - 1) \o ss[k]
    BY <1>2, <2>4, UptoIs
  <2>7. SubSeq(a, 1, k) = SubSeq(a, 1, k - 1) \o <<a[k]>>
    BY <2>4
  <2> QED BY <1>2, <2>2, <2>4, <2>5, <2>6, <2>7
<1>4. n \in 0 .. n /\ SubSeq(a, 1, n) = a
  OBVIOUS
<1>5. Upto(ss, Len(ss)) = FlattenSeq(ss)
  BY <1>2, UptoIs
<1> QED BY <1>1, <1>2, <1>3, <1>4, <1>5

-----------------------------------------------------------------------------
(* A call that stopped, and checks in a row.                               *)
Halted(s, w) == [s EXCEPT !.stop = w]
Flags == BOOLEAN
Then(w, ok, why) == IF w # "none" \/ ok THEN w ELSE why
Held(s) == s.sticky /\ s.error # "none"

LEMMA HaltedIs ==
  ASSUME NEW s, IsEncoder(s), NEW w \in Stops
  PROVE  /\ IsEncoder(Halted(s, w)) /\ Halted(s, w).stop = w /\ Halted(s, w).out = s.out
         /\ Halted(s, w).pending = s.pending /\ Halted(s, w).depth = s.depth
         /\ Halted(s, w).error = s.error /\ Halted(s, w).sticky = s.sticky /\ Halted(s, w).room = s.room
         /\ \A v : Halted(Halted(s, w), v) = Halted(s, v)
         /\ s.stop = w => Halted(s, w) = s
<1>1. PICK u : u = Halted(s, w)
  OBVIOUS
<1>2. /\ u \in [out : Seq(Nat), pending : Seq(0 .. IdMax), depth : Nat, error : Errors, stop : Stops,
                sticky : BOOLEAN, room : Nat]
      /\ u.stop = w /\ u.out = s.out /\ u.pending = s.pending /\ u.depth = s.depth
      /\ u.error = s.error /\ u.sticky = s.sticky /\ u.room = s.room
  BY <1>1 DEF IsEncoder, Halted
<1>3. IsEncoder(u)
  BY <1>2 DEF IsEncoder
<1>4. \A v : Halted(Halted(s, w), v) = Halted(s, v)
  BY DEF IsEncoder, Halted
<1>5. s.stop = w => Halted(s, w) = s
  BY DEF IsEncoder, Halted
<1> QED BY <1>1, <1>2, <1>3, <1>4, <1>5

LEMMA ThenIs ==
  \A w \in Stops, why \in Stops, a, b \in BOOLEAN :
    /\ Then(w, a, why) \in Stops
    /\ why # "none" => Then(Then(w, a, why), b, why) = Then(w, a /\ b, why)
    /\ Then(w, TRUE, why) = w
BY DEF Then

LEMMA HeldIs == \A s : IsEncoder(s) => Held(s) \in BOOLEAN /\ (~Held(s)) \in BOOLEAN
BY DEF Held, IsEncoder

(* Every check is one of the same kind.                                    *)
LEMMA DoCheck ==
  ASSUME NEW e, NEW s, IsEncoder(s), NEW w \in Stops, NEW ok \in Flags, NEW why
  PROVE  Do(e, Halted(s, w), Check(ok, why)) = Halted(s, Then(w, ok, why))
<1>1. PICK t : t = Halted(s, w)
  OBVIOUS
<1>2. t.stop = w /\ Halted(t, why) = Halted(s, why)
  BY <1>1, HaltedIs
<1>3. Do(e, t, Check(ok, why)) = IF w # "none" THEN t ELSE IF ok THEN t ELSE Halted(t, why)
  <2>1. Check(ok, why).do = "check" /\ Check(ok, why).ok = ok /\ Check(ok, why).as = why
    BY DEF Check
  <2>2. PICK c : c = Check(ok, why)
    OBVIOUS
  <2>3. c.do = "check" /\ c.ok = ok /\ c.as = why
    BY <2>1, <2>2, SMTT(40)
  <2>4. Do(e, t, c) = IF t.stop # "none" THEN t ELSE IF c.ok THEN t ELSE Halted(t, c.as)
    BY <2>3 DEF Do, Halted
  <2> QED BY <1>2, <2>2, <2>3, <2>4
<1> QED BY <1>1, <1>2, <1>3 DEF Then

LEMMA DoGate ==
  ASSUME NEW e, NEW s, IsEncoder(s), NEW w \in Stops
  PROVE  Do(e, Halted(s, w), Gate) = Halted(s, Then(w, ~Held(s), "skip"))
<1>1. PICK t : t = Halted(s, w)
  OBVIOUS
<1>2. t.stop = w /\ Halted(t, "skip") = Halted(s, "skip") /\ Held(t) = Held(s)
  BY <1>1, HaltedIs DEF Held
<1>3. Do(e, t, Gate) = IF w # "none" THEN t ELSE IF Held(t) THEN Halted(t, "skip") ELSE t
  <2>1. PICK c : c = Gate
    OBVIOUS
  <2>2. c.do = "gate"
    BY <2>1, SMTT(40) DEF Gate
  <2>3. Do(e, t, c) = IF t.stop # "none" THEN t ELSE IF Held(t) THEN Halted(t, "skip") ELSE t
    BY <2>2 DEF Do, Halted, Held
  <2> QED BY <1>2, <2>1, <2>3
<1> QED BY <1>1, <1>2, <1>3 DEF Then

LEMMA DoEnter ==
  ASSUME NEW e, NEW s, IsEncoder(s), NEW w \in Stops
  PROVE  Do(e, Halted(s, w), Enter) = Halted(s, Then(w, s.depth < MaxDepth, "argument"))
<1>1. PICK t : t = Halted(s, w)
  OBVIOUS
<1>2. t.stop = w /\ Halted(t, "argument") = Halted(s, "argument") /\ t.depth = s.depth
  BY <1>1, HaltedIs
<1>3. Do(e, t, Enter) = IF w # "none" THEN t ELSE IF s.depth < MaxDepth THEN t ELSE Halted(t, "argument")
  <2>1. PICK c : c = Enter
    OBVIOUS
  <2>2. c.do = "enter"
    BY <2>1, SMTT(40) DEF Enter
  <2>3. Do(e, t, c) = IF t.stop # "none" THEN t ELSE IF t.depth < MaxDepth THEN t ELSE Halted(t, "argument")
    BY <2>2 DEF Do, Halted
  <2> QED BY <1>2, <2>1, <2>3
<1> QED BY <1>1, <1>2, <1>3 DEF Then

LEMMA DoInside ==
  ASSUME NEW e, NEW s, IsEncoder(s), NEW w \in Stops
  PROVE  Do(e, Halted(s, w), Inside) = Halted(s, Then(w, s.depth > 0, "argument"))
<1>1. PICK t : t = Halted(s, w)
  OBVIOUS
<1>2. t.stop = w /\ Halted(t, "argument") = Halted(s, "argument") /\ t.depth = s.depth
  BY <1>1, HaltedIs
<1>3. Do(e, t, Inside) = IF w # "none" THEN t ELSE IF s.depth > 0 THEN t ELSE Halted(t, "argument")
  <2>1. PICK c : c = Inside
    OBVIOUS
  <2>2. c.do = "inside"
    BY <2>1, SMTT(40) DEF Inside
  <2>3. Do(e, t, c) = IF t.stop # "none" THEN t ELSE IF t.depth > 0 THEN t ELSE Halted(t, "argument")
    BY <2>2 DEF Do, Halted
  <2> QED BY <1>2, <2>1, <2>3
<1> QED BY <1>1, <1>2, <1>3 DEF Then

-----------------------------------------------------------------------------
(* What went out once the checks were through: the run, and some bytes.    *)
Written(s, w, b) ==
  IF w # "none" THEN Halted(s, w)
  ELSE Put(Emptied(Halted(s, "none")), FlattenSeq(Opens(s.pending)) \o b)

LEMMA RunIs ==
  ASSUME NEW s, IsEncoder(s)
  PROVE  FlattenSeq(Opens(s.pending)) \in Seq(Nat)
<1>1. Opens(s.pending) \in Seq(Seq(Nat))
  BY OpensIs, EncoderIs
<1>2. FlattenSeq(Opens(s.pending)) \o <<>> \in Seq(Nat) /\ FlattenSeq(Opens(s.pending)) \in Seq(Nat)
  BY <1>1, FlatAppend
<1> QED BY <1>2

LEMMA WrittenIs ==
  ASSUME NEW s, IsEncoder(s), NEW w \in Stops, NEW b, w = "none" => b \in Seq(Nat)
  PROVE  IsEncoder(Written(s, w, b)) /\ (w # "none" => Written(s, w, b).stop = w)
         /\ (w = "none" => Written(s, w, b).stop \in {"none", "buffer"})
<1>1. CASE w # "none"
  BY <1>1, HaltedIs DEF Written
<1>2. CASE w = "none"
  <2>1. PICK t, r : t = Emptied(Halted(s, "none")) /\ r = FlattenSeq(Opens(s.pending))
    OBVIOUS
  <2>2. IsEncoder(t) /\ t.stop = "none"
    <3>1. IsEncoder(Halted(s, "none")) /\ Halted(s, "none").stop = "none"
      BY HaltedIs DEF Stops
    <3> QED BY <2>1, <3>1, EmptiedIs
  <2>3. r \in Seq(Nat) /\ r \o b \in Seq(Nat)
    BY <1>2, <2>1, RunIs, Joined
  <2>4. IsEncoder(Put(t, r \o b)) /\ Put(t, r \o b).stop \in {t.stop, "buffer"}
    BY <2>2, <2>3, PutKeeps
  <2>5. Written(s, w, b) = Put(t, r \o b)
    BY <1>2, <2>1 DEF Written
  <2> QED BY <1>2, <2>2, <2>4, <2>5
<1> QED BY <1>1, <1>2

LEMMA WrittenMore ==
  ASSUME NEW s, IsEncoder(s), NEW w \in Stops, NEW b, w = "none" => b \in Seq(Nat),
         NEW x, w = "none" => x \in Seq(Nat)
  PROVE  Put(Written(s, w, b), x) = Written(s, w, b \o x) /\ (w = "none" => b \o x \in Seq(Nat))
<1>1. CASE w # "none"
  <2>1. PICK t : t = Halted(s, w)
    OBVIOUS
  <2>2. t.stop # "none"
    BY <1>1, <2>1, HaltedIs
  <2>3. Put(t, x) = t
    BY <2>2, Zenon DEF Put
  <2> QED BY <1>1, <2>1, <2>3 DEF Written
<1>2. CASE w = "none"
  <2>1. PICK t, r : t = Emptied(Halted(s, "none")) /\ r = FlattenSeq(Opens(s.pending))
    OBVIOUS
  <2>2. IsEncoder(t)
    <3>1. IsEncoder(Halted(s, "none"))
      BY HaltedIs DEF Stops
    <3> QED BY <2>1, <3>1, EmptiedIs
  <2>3. r \in Seq(Nat) /\ r \o b \in Seq(Nat) /\ b \o x \in Seq(Nat) /\ (r \o b) \o x = r \o (b \o x)
    <3>1. r \in Seq(Nat)
      BY <2>1, RunIs
    <3>2. b \in Seq(Nat) /\ x \in Seq(Nat)
      BY <1>2
    <3> QED BY <3>1, <3>2, Joined, Associative
  <2>4. Put(Put(t, r \o b), x) = Put(t, (r \o b) \o x)
    BY <1>2, <2>2, <2>3, PutTwice, ZenonT(40)
  <2> QED BY <1>2, <2>1, <2>3, <2>4 DEF Written
<1> QED BY <1>1, <1>2

LEMMA DoCommit ==
  ASSUME NEW e \in Engines, NEW s, IsEncoder(s), NEW w \in Stops
  PROVE  Do(e, Halted(s, w), Commit) = Written(s, w, <<>>)
<1>1. PICK t, c : t = Halted(s, w) /\ c = Commit
  OBVIOUS
<1>2. IsEncoder(t) /\ t.stop = w /\ t.pending = s.pending
  BY <1>1, HaltedIs
<1>3. Do(e, t, c) = IF w # "none" THEN t ELSE CommitPending(e, t)
  <2>1. c.do = "commit"
    BY <1>1 DEF Commit
  <2> QED BY <1>2, <2>1, Zenon DEF Do
<1>4. CommitPending(e, t) = Put(Emptied(t), FlattenSeq(Opens(t.pending)))
  BY <1>2, CommitIs
<1>5. FlattenSeq(Opens(s.pending)) \o <<>> = FlattenSeq(Opens(s.pending))
  BY RunIs, ConcatEmptySeq
<1> QED BY <1>1, <1>2, <1>3, <1>4, <1>5 DEF Written

LEMMA DoVarint ==
  ASSUME NEW e \in Engines, NEW s, IsEncoder(s), NEW w \in Stops, NEW b, w = "none" => b \in Seq(Nat),
         NEW v, w = "none" => v \in 0 .. UnsignedMax
  PROVE  /\ Do(e, Written(s, w, b), Varint(v)) = Written(s, w, b \o EncodeVarint[v])
         /\ w = "none" => b \o EncodeVarint[v] \in Seq(Nat)
<1>1. PICK t, c : t = Written(s, w, b) /\ c = Varint(v)
  OBVIOUS
<1>2. IsEncoder(t) /\ (w # "none" => t.stop = w) /\ c.do = "varint" /\ c.v = v
  BY <1>1, WrittenIs, SMTT(40) DEF Varint
<1>3. Do(e, t, c) = IF t.stop # "none" THEN t ELSE EmitVarint(e, t, v)
  BY <1>2, Zenon DEF Do
<1>4. CASE w # "none"
  BY <1>1, <1>2, <1>3, <1>4 DEF Written
<1>5. CASE w = "none"
  <2>1. EmitVarint(e, t, v) = Put(t, EncodeVarint[v]) /\ EncodeVarint[v] \in Seq(Nat)
    BY <1>2, <1>5, EmitIs
  <2>2. t.stop # "none" => Put(t, EncodeVarint[v]) = t
    BY Zenon DEF Put
  <2>3. Put(t, EncodeVarint[v]) = Written(s, w, b \o EncodeVarint[v]) /\ b \o EncodeVarint[v] \in Seq(Nat)
    BY <1>1, <1>5, <2>1, WrittenMore
  <2> QED BY <1>1, <1>3, <2>1, <2>2, <2>3
<1> QED BY <1>4, <1>5

LEMMA DoBytes ==
  ASSUME NEW e, NEW s, IsEncoder(s), NEW w \in Stops, NEW b, w = "none" => b \in Seq(Nat),
         NEW x \in Seq(Nat)
  PROVE  /\ Do(e, Written(s, w, b), Bytes(x)) = Written(s, w, b \o x)
         /\ w = "none" => b \o x \in Seq(Nat)
<1>1. PICK t, c : t = Written(s, w, b) /\ c = Bytes(x)
  OBVIOUS
<1>2. c.do = "bytes" /\ c.bytes = x
  BY <1>1 DEF Bytes
<1>3. Do(e, t, c) = IF t.stop # "none" THEN t ELSE Put(t, x)
  BY <1>2, Zenon DEF Do
<1>4. t.stop # "none" => Put(t, x) = t
  BY Zenon DEF Put
<1> QED BY <1>1, <1>3, <1>4, WrittenMore

-----------------------------------------------------------------------------
(* The steps of a call.                                                    *)
Steps ==
  [do : {"gate", "commit", "enter", "inside"}] \cup [do : {"check"}, ok : BOOLEAN, as : Stops]
  \cup [do : {"varint"}, v : Int] \cup [do : {"bytes"}, bytes : Seq(Nat)]
  \cup [do : {"push"}, id : Int] \cup [do : {"close"}, keep : BOOLEAN]

LEMMA StepsAre ==
  /\ Gate \in Steps /\ Commit \in Steps /\ Enter \in Steps /\ Inside \in Steps
  /\ \A ok \in Flags : Check(ok, "python") \in Steps /\ Check(ok, "argument") \in Steps
  /\ \A v \in Int : Varint(v) \in Steps /\ Pushed(v) \in Steps
  /\ \A b \in Seq(Nat) : Bytes(b) \in Steps
  /\ \A keep \in BOOLEAN : Closed(keep) \in Steps
<1>1. Gate \in Steps /\ Commit \in Steps /\ Enter \in Steps /\ Inside \in Steps
  BY DEF Steps, Gate, Commit, Enter, Inside
<1>2. \A ok \in Flags : Check(ok, "python") \in Steps /\ Check(ok, "argument") \in Steps
  BY DEF Steps, Check, Stops, Flags
<1>3. \A v \in Int : Varint(v) \in Steps /\ Pushed(v) \in Steps
  BY DEF Steps, Varint, Pushed
<1>4. \A b \in Seq(Nat) : Bytes(b) \in Steps
  BY DEF Steps, Bytes
<1>5. \A keep \in BOOLEAN : Closed(keep) \in Steps
  BY DEF Steps, Closed
<1> QED BY <1>1, <1>2, <1>3, <1>4, <1>5

LEMMA StepsJoin ==
  \A a, b \in Seq(Steps) : a \o b \in Seq(Steps)
                           /\ \A e, s : After(e, s, a \o b) = After(e, After(e, s, a), b)
<1> TAKE a, b \in Seq(Steps)
<1>1. a \o b \in Seq(Steps)
  OBVIOUS
<1>2. \A e, s : After(e, s, a \o b) = After(e, After(e, s, a), b)
  BY AfterBoth
<1> QED BY <1>1, <1>2

(* An id that names a field.                                               *)
Named(id) == id.int /\ id.n \in 0 .. IdMax

LEMMA WrittenPlain ==
  \A s, w, b : (w = "none" => b \in Seq(Nat)) => Written(s, w, <<>> \o b) = Written(s, w, b)
<1> TAKE s, w, b
<1>1. b \in Seq(Nat) => <<>> \o b = b
  BY ConcatEmptySeq
<1> QED BY <1>1 DEF Written

LEMMA HeaderCIs ==
  ASSUME NEW e \in Engines, NEW s, IsEncoder(s), NEW w \in Stops, NEW id \in Arg, NEW wt \in 0 .. 7,
         w = "none" => Named(id)
  PROVE  /\ HeaderC(id, wt) \in Seq(Steps)
         /\ After(e, Halted(s, w), HeaderC(id, wt)) = Written(s, w, EncodeVarint[8 * id.n + wt])
         /\ w = "none" => EncodeVarint[8 * id.n + wt] \in Seq(Nat)
<1>1. PICK v : v = 8 * id.n + wt
  OBVIOUS
<1>2. v \in Int /\ (w = "none" => v \in 0 .. UnsignedMax)
  BY <1>1, WordAssumption, WordIs DEF Arg, Named
<1>3. w = "none" => EncodeVarint[v] \in Seq(Nat)
  <2> SUFFICES ASSUME w = "none" PROVE EncodeVarint[v] \in Seq(Nat)
    OBVIOUS
  <2>1. v \in 0 .. UnsignedMax
    BY <1>2
  <2> QED BY <2>1, EmitIs
<1>4. After(e, Halted(s, w), <<Commit, Varint(v)>>) = Do(e, Do(e, Halted(s, w), Commit), Varint(v))
  BY AfterTwo
<1>5. Do(e, Halted(s, w), Commit) = Written(s, w, <<>>)
  BY DoCommit
<1>6. Do(e, Written(s, w, <<>>), Varint(v)) = Written(s, w, <<>> \o EncodeVarint[v])
  <2>1. PICK b : b = <<>>
    OBVIOUS
  <2>2. w = "none" => b \in Seq(Nat)
    BY <2>1
  <2>3. Do(e, Written(s, w, b), Varint(v)) = Written(s, w, b \o EncodeVarint[v])
    BY <1>2, <2>2, DoVarint
  <2> QED BY <2>1, <2>3
<1>7. Written(s, w, <<>> \o EncodeVarint[v]) = Written(s, w, EncodeVarint[v])
  BY <1>3, WrittenPlain
<1>8. HeaderC(id, wt) = <<Commit, Varint(v)>>
  BY <1>1 DEF HeaderC
<1>9. <<Commit, Varint(v)>> \in Seq(Steps)
  <2>1. Commit \in Steps /\ Varint(v) \in Steps
    BY <1>2, StepsAre
  <2> QED BY <2>1
<1> QED BY <1>1, <1>3, <1>4, <1>5, <1>6, <1>7, <1>8, <1>9

LEMMA ArgIs == \A a \in Arg : a.int \in BOOLEAN /\ a.n \in Int /\ Named(a) \in BOOLEAN
BY DEF Arg, Named

LEMMA IdMaxIs == IdMax \in Nat /\ \A n \in Int : (n \in 0 .. IdMax) \in BOOLEAN
BY WordAssumption

(* A header fits the word when the id names a field.                       *)
LEMMA HeaderIs ==
  ASSUME NEW e \in Engines, NEW s, IsEncoder(s), NEW w \in Stops, NEW id \in Arg, NEW wt \in 0 .. 7
  PROVE  /\ Header(id, wt) \in Seq(Steps) /\ NativeHeader(id, wt) \in Seq(Steps)
         /\ After(e, Halted(s, w), Header(id, wt))
              = Written(s, Then(w, Named(id), "argument"), EncodeVarint[8 * id.n + wt])
         /\ After(e, Halted(s, w), NativeHeader(id, wt))
              = Written(s, Then(w, Named(id), "argument"), EncodeVarint[8 * id.n + wt])
         /\ Then(w, Named(id), "argument") = "none" => EncodeVarint[8 * id.n + wt] \in Seq(Nat)
<1>1. PICK a, b, v, x : a = id.int /\ b = (id.n \in 0 .. IdMax) /\ v = 8 * id.n + wt
                        /\ x = Then(w, Named(id), "argument")
  OBVIOUS
<1>2. a \in Flags /\ b \in Flags /\ Named(id) = (a /\ b) /\ (a /\ b) \in Flags
  BY <1>1, ArgIs, IdMaxIs DEF Named, Flags
<1>3. /\ Then(w, a, "argument") \in Stops /\ x \in Stops
      /\ Then(Then(w, a, "argument"), b, "argument") = x
  <2>1. x = Then(w, a /\ b, "argument")
    BY <1>1, <1>2
  <2>2. Then(w, a, "argument") \in Stops /\ Then(w, a /\ b, "argument") \in Stops
    BY DEF Then, Stops
  <2>3. Then(Then(w, a, "argument"), b, "argument") = Then(w, a /\ b, "argument")
    BY DEF Then
  <2> QED BY <2>1, <2>2, <2>3
<1>4. x = "none" => Named(id)
  BY <1>1 DEF Then
<1>5. /\ HeaderC(id, wt) \in Seq(Steps)
      /\ After(e, Halted(s, x), HeaderC(id, wt)) = Written(s, x, EncodeVarint[8 * id.n + wt])
      /\ x = "none" => EncodeVarint[8 * id.n + wt] \in Seq(Nat)
  <2>1. x \in Stops
    BY <1>3
  <2>2. \A y \in Stops : (y = "none" => Named(id)) =>
          /\ HeaderC(id, wt) \in Seq(Steps)
          /\ After(e, Halted(s, y), HeaderC(id, wt)) = Written(s, y, EncodeVarint[8 * id.n + wt])
          /\ y = "none" => EncodeVarint[8 * id.n + wt] \in Seq(Nat)
    BY HeaderCIs
  <2> QED BY <1>4, <2>1, <2>2
<1>6. PICK p, q : p = <<Check(a, "argument"), Check(b, "argument")>> /\ q = <<Check(a /\ b, "argument")>>
  OBVIOUS
<1>7. p \in Seq(Steps) /\ q \in Seq(Steps)
  <2>1. Check(a, "argument") \in Steps /\ Check(b, "argument") \in Steps /\ Check(a /\ b, "argument") \in Steps
    BY <1>2, StepsAre
  <2> QED BY <1>6, <2>1
<1>8. After(e, Halted(s, w), p) = Halted(s, x)
  <2>1. After(e, Halted(s, w), p) = Do(e, Do(e, Halted(s, w), Check(a, "argument")), Check(b, "argument"))
    BY <1>6, AfterTwo
  <2>2. Do(e, Halted(s, w), Check(a, "argument")) = Halted(s, Then(w, a, "argument"))
    BY <1>2, DoCheck
  <2>3. Do(e, Halted(s, Then(w, a, "argument")), Check(b, "argument"))
          = Halted(s, Then(Then(w, a, "argument"), b, "argument"))
    BY <1>2, <1>3, DoCheck
  <2> QED BY <1>3, <2>1, <2>2, <2>3
<1>9. After(e, Halted(s, w), q) = Halted(s, x)
  <2>1. After(e, Halted(s, w), q) = Do(e, Halted(s, w), Check(a /\ b, "argument"))
    BY <1>6, AfterOne
  <2>2. Do(e, Halted(s, w), Check(a /\ b, "argument")) = Halted(s, Then(w, a /\ b, "argument"))
    BY <1>2, DoCheck
  <2> QED BY <1>1, <1>2, <2>1, <2>2
<1>10. Header(id, wt) = p \o HeaderC(id, wt)
  BY <1>1, <1>6 DEF Header, HeaderC
<1>11. NativeHeader(id, wt) = q \o HeaderC(id, wt)
  BY <1>1, <1>6 DEF NativeHeader, IdArg
<1> QED BY <1>1, <1>5, <1>7, <1>8, <1>9, <1>10, <1>11, StepsJoin

-----------------------------------------------------------------------------
(* What a check does to the reason a call stopped for.                     *)
Checks == {x \in Steps : x.do \in {"gate", "check", "enter", "inside"}}
Answer(s, x, w) ==
  IF x.do = "gate" THEN Then(w, ~Held(s), "skip")
  ELSE IF x.do = "enter" THEN Then(w, s.depth < MaxDepth, "argument")
  ELSE IF x.do = "inside" THEN Then(w, s.depth > 0, "argument")
  ELSE Then(w, x.ok, x.as)

(* The reasons a check gives.                                              *)
Refusals == {"python", "argument"}

LEMMA ChecksAre ==
  /\ Gate \in Checks /\ Enter \in Checks /\ Inside \in Checks
  /\ \A ok : \A why \in Refusals : ok \in Flags => Check(ok, why) \in Checks
  /\ \A s, w : /\ Answer(s, Gate, w) = Then(w, ~Held(s), "skip")
               /\ Answer(s, Enter, w) = Then(w, s.depth < MaxDepth, "argument")
               /\ Answer(s, Inside, w) = Then(w, s.depth > 0, "argument")
  /\ \A s, w, why, ok : ok \in Flags => Answer(s, Check(ok, why), w) = Then(w, ok, why)
<1>1. Gate \in Checks /\ Enter \in Checks /\ Inside \in Checks
  BY StepsAre DEF Checks, Gate, Enter, Inside
<1>2. \A ok : \A why \in Refusals : ok \in Flags => Check(ok, why) \in Checks
  BY StepsAre DEF Checks, Check, Refusals
<1>3. \A s, w : /\ Answer(s, Gate, w) = Then(w, ~Held(s), "skip")
                /\ Answer(s, Enter, w) = Then(w, s.depth < MaxDepth, "argument")
                /\ Answer(s, Inside, w) = Then(w, s.depth > 0, "argument")
  <2>1. Gate.do = "gate" /\ Enter.do = "enter" /\ Inside.do = "inside"
    BY DEF Gate, Enter, Inside
  <2> QED BY <2>1, Zenon DEF Answer
<1>4. \A s, w, why, ok : ok \in Flags => Answer(s, Check(ok, why), w) = Then(w, ok, why)
  <2> TAKE s, w, why, ok
  <2> HAVE ok \in Flags
  <2>1. PICK x : x = Check(ok, why)
    OBVIOUS
  <2>2. x.do = "check" /\ x.ok = ok /\ x.as = why
    BY <2>1 DEF Check
  <2>3. x.do # "gate" /\ x.do # "enter" /\ x.do # "inside"
    BY <2>2
  <2>4. Answer(s, x, w) = Then(w, x.ok, x.as)
    BY <2>3, Zenon DEF Answer
  <2> QED BY <2>1, <2>2, <2>4
<1> QED BY <1>1, <1>2, <1>3, <1>4

LEMMA CheckAnswer ==
  ASSUME NEW e, NEW s, IsEncoder(s), NEW w \in Stops, NEW ok \in Flags, NEW why \in Stops
  PROVE  Do(e, Halted(s, w), Check(ok, why)) = Halted(s, Answer(s, Check(ok, why), w))
         /\ Answer(s, Check(ok, why), w) \in Stops
<1>1. Do(e, Halted(s, w), Check(ok, why)) = Halted(s, Then(w, ok, why))
  BY DoCheck
<1>2. Answer(s, Check(ok, why), w) = Then(w, ok, why)
  BY ChecksAre
<1>3. Then(w, ok, why) \in Stops
  BY DEF Then
<1> QED BY <1>1, <1>2, <1>3

LEMMA DoAnswer ==
  ASSUME NEW e, NEW s, IsEncoder(s), NEW w \in Stops, NEW x \in Checks
  PROVE  Do(e, Halted(s, w), x) = Halted(s, Answer(s, x, w)) /\ Answer(s, x, w) \in Stops
<1>1. x = Gate \/ x = Enter \/ x = Inside \/ \E ok \in Flags, why \in Stops : x = Check(ok, why)
  BY DEF Checks, Steps, Gate, Enter, Inside, Check, Flags
<1>2. \A ok, why : why \in Stops => Then(w, ok, why) \in Stops
  BY DEF Then
<1>3. "skip" \in Stops /\ "argument" \in Stops
  BY DEF Stops
<1>4. CASE x = Gate
  BY <1>2, <1>3, <1>4, DoGate, ChecksAre
<1>5. CASE x = Enter
  BY <1>2, <1>3, <1>5, DoEnter, ChecksAre
<1>6. CASE x = Inside
  BY <1>2, <1>3, <1>6, DoInside, ChecksAre
<1>7. ASSUME NEW ok, ok \in Flags, NEW why \in Stops, x = Check(ok, why)
      PROVE  Do(e, Halted(s, w), x) = Halted(s, Answer(s, x, w)) /\ Answer(s, x, w) \in Stops
  BY <1>7, CheckAnswer
<1> QED BY <1>1, <1>4, <1>5, <1>6, <1>7

(* Steps that check, and steps that write once the checks were through.    *)
Leads(e, s, u, p, w) ==
  p \in Seq(Steps) /\ u \in Stops /\ w \in Stops /\ After(e, Halted(s, u), p) = Halted(s, w)
Reaches(e, s, u, p, w, b) ==
  /\ p \in Seq(Steps) /\ u \in Stops /\ w \in Stops /\ (w = "none" => b \in Seq(Nat))
  /\ After(e, Halted(s, u), p) = Written(s, w, b)

LEMMA LeadNone == \A e, s : \A u \in Stops : Leads(e, s, u, <<>>, u)
<1>1. <<>> \in Seq(Steps)
  OBVIOUS
<1> QED BY <1>1, AfterNone, Zenon DEF Leads

LEMMA LeadOne ==
  ASSUME NEW e, NEW s, IsEncoder(s)
  PROVE  \A u \in Stops : \A x \in Checks : Leads(e, s, u, <<x>>, Answer(s, x, u))
<1> TAKE u \in Stops
<1> TAKE x \in Checks
<1>1. x \in Steps
  BY DEF Checks
<1>2. <<x>> \in Seq(Steps)
  BY <1>1
<1>3. After(e, Halted(s, u), <<x>>) = Do(e, Halted(s, u), x)
  BY AfterOne
<1>4. Do(e, Halted(s, u), x) = Halted(s, Answer(s, x, u)) /\ Answer(s, x, u) \in Stops
  BY DoAnswer
<1> QED BY <1>2, <1>3, <1>4 DEF Leads

LEMMA LeadBoth ==
  \A e, s, u, v, w, p, q :
    Leads(e, s, u, p, v) /\ Leads(e, s, v, q, w) => Leads(e, s, u, p \o q, w)
BY StepsJoin DEF Leads

LEMMA ReachBoth ==
  \A e, s, u, v, w, p, q, b :
    Leads(e, s, u, p, v) /\ Reaches(e, s, v, q, w, b) => Reaches(e, s, u, p \o q, w, b)
BY StepsJoin DEF Leads, Reaches

LEMMA LeadTwo ==
  ASSUME NEW e, NEW s, IsEncoder(s)
  PROVE  \A u \in Stops : \A x, y \in Checks :
           Leads(e, s, u, <<x, y>>, Answer(s, y, Answer(s, x, u)))
<1> TAKE u \in Stops
<1> TAKE x, y \in Checks
<1>1. x \in Steps /\ y \in Steps
  BY DEF Checks
<1>2. <<x, y>> \in Seq(Steps)
  BY <1>1
<1>3. After(e, Halted(s, u), <<x, y>>) = Do(e, Do(e, Halted(s, u), x), y)
  BY AfterTwo
<1>4. PICK v : v = Answer(s, x, u)
  OBVIOUS
<1>5. Do(e, Halted(s, u), x) = Halted(s, v) /\ v \in Stops
  BY <1>4, DoAnswer
<1>6. Do(e, Halted(s, v), y) = Halted(s, Answer(s, y, v)) /\ Answer(s, y, v) \in Stops
  BY <1>5, DoAnswer
<1> QED BY <1>2, <1>3, <1>4, <1>5, <1>6 DEF Leads

LEMMA LeadThree ==
  ASSUME NEW e, NEW s, IsEncoder(s)
  PROVE  \A u \in Stops : \A x, y, z \in Checks :
           Leads(e, s, u, <<x, y, z>>, Answer(s, z, Answer(s, y, Answer(s, x, u))))
<1> TAKE u \in Stops
<1> TAKE x, y, z \in Checks
<1>1. x \in Steps /\ y \in Steps /\ z \in Steps
  BY DEF Checks
<1>2. <<x, y, z>> \in Seq(Steps)
  BY <1>1
<1>3. After(e, Halted(s, u), <<x, y, z>>) = Do(e, Do(e, Do(e, Halted(s, u), x), y), z)
  BY AfterThree
<1>4. PICK v, w : v = Answer(s, x, u) /\ w = Answer(s, y, v)
  OBVIOUS
<1>5. Do(e, Halted(s, u), x) = Halted(s, v) /\ v \in Stops
  BY <1>4, DoAnswer
<1>6. Do(e, Halted(s, v), y) = Halted(s, w) /\ w \in Stops
  BY <1>4, <1>5, DoAnswer
<1>7. Do(e, Halted(s, w), z) = Halted(s, Answer(s, z, w)) /\ Answer(s, z, w) \in Stops
  BY <1>6, DoAnswer
<1> QED BY <1>2, <1>3, <1>4, <1>5, <1>6, <1>7 DEF Leads

LEMMA LeadFour ==
  ASSUME NEW e, NEW s, IsEncoder(s)
  PROVE  \A u \in Stops : \A x, y, z, k \in Checks :
           Leads(e, s, u, <<x, y, z, k>>, Answer(s, k, Answer(s, z, Answer(s, y, Answer(s, x, u)))))
<1> TAKE u \in Stops
<1> TAKE x, y, z, k \in Checks
<1>1. x \in Steps /\ y \in Steps /\ z \in Steps /\ k \in Steps
  BY DEF Checks
<1>2. <<x, y, z, k>> \in Seq(Steps)
  BY <1>1
<1>3. After(e, Halted(s, u), <<x, y, z, k>>) = Do(e, Do(e, Do(e, Do(e, Halted(s, u), x), y), z), k)
  BY AfterFour
<1>4. PICK v, w, r : v = Answer(s, x, u) /\ w = Answer(s, y, v) /\ r = Answer(s, z, w)
  OBVIOUS
<1>5. Do(e, Halted(s, u), x) = Halted(s, v) /\ v \in Stops
  BY <1>4, DoAnswer
<1>6. Do(e, Halted(s, v), y) = Halted(s, w) /\ w \in Stops
  BY <1>4, <1>5, DoAnswer
<1>7. Do(e, Halted(s, w), z) = Halted(s, r) /\ r \in Stops
  BY <1>4, <1>6, DoAnswer
<1>8. Do(e, Halted(s, r), k) = Halted(s, Answer(s, k, r)) /\ Answer(s, k, r) \in Stops
  BY <1>7, DoAnswer
<1> QED BY <1>2, <1>3, <1>4, <1>5, <1>6, <1>7, <1>8 DEF Leads

LEMMA ReachHeader ==
  ASSUME NEW e \in Engines, NEW s, IsEncoder(s), NEW id \in Arg, NEW wt \in 0 .. 7
  PROVE  \A u \in Stops :
           /\ Reaches(e, s, u, Header(id, wt), Then(u, Named(id), "argument"), EncodeVarint[8 * id.n + wt])
           /\ Reaches(e, s, u, NativeHeader(id, wt), Then(u, Named(id), "argument"),
                      EncodeVarint[8 * id.n + wt])
<1> TAKE u \in Stops
<1>1. Then(u, Named(id), "argument") \in Stops
  BY DEF Then, Stops
<1>2. PICK x, b : x = Then(u, Named(id), "argument") /\ b = EncodeVarint[8 * id.n + wt]
  OBVIOUS
<1>3. /\ Header(id, wt) \in Seq(Steps) /\ NativeHeader(id, wt) \in Seq(Steps)
      /\ After(e, Halted(s, u), Header(id, wt)) = Written(s, Then(u, Named(id), "argument"), EncodeVarint[8 * id.n + wt])
      /\ After(e, Halted(s, u), NativeHeader(id, wt))
           = Written(s, Then(u, Named(id), "argument"), EncodeVarint[8 * id.n + wt])
      /\ Then(u, Named(id), "argument") = "none" => EncodeVarint[8 * id.n + wt] \in Seq(Nat)
  BY HeaderIs
<1>4. /\ Header(id, wt) \in Seq(Steps) /\ NativeHeader(id, wt) \in Seq(Steps) /\ x \in Stops
      /\ After(e, Halted(s, u), Header(id, wt)) = Written(s, x, b)
      /\ After(e, Halted(s, u), NativeHeader(id, wt)) = Written(s, x, b)
      /\ x = "none" => b \in Seq(Nat)
  BY <1>1, <1>2, <1>3, Zenon
<1>5. Reaches(e, s, u, Header(id, wt), x, b) /\ Reaches(e, s, u, NativeHeader(id, wt), x, b)
  BY <1>4 DEF Reaches
<1> QED BY <1>2, <1>5, Zenon

LEMMA ReachVarint ==
  ASSUME NEW e \in Engines, NEW s, IsEncoder(s)
  PROVE  \A u, p, w, b : \A v \in Int :
           Reaches(e, s, u, p, w, b) /\ (w = "none" => v \in 0 .. UnsignedMax)
             => Reaches(e, s, u, p \o <<Varint(v)>>, w, b \o EncodeVarint[v])
<1> TAKE u, p, w, b
<1> TAKE v \in Int
<1> HAVE Reaches(e, s, u, p, w, b) /\ (w = "none" => v \in 0 .. UnsignedMax)
<1>1. PICK q : q = <<Varint(v)>>
  OBVIOUS
<1>2. q \in Seq(Steps)
  <2>1. Varint(v) \in Steps
    BY StepsAre
  <2> QED BY <1>1, <2>1
<1>3. /\ p \in Seq(Steps) /\ u \in Stops /\ w \in Stops /\ (w = "none" => b \in Seq(Nat))
      /\ After(e, Halted(s, u), p) = Written(s, w, b)
  BY DEF Reaches
<1>4. p \o q \in Seq(Steps) /\ After(e, Halted(s, u), p \o q) = After(e, Written(s, w, b), q)
  BY <1>2, <1>3, StepsJoin
<1>5. After(e, Written(s, w, b), q) = Do(e, Written(s, w, b), Varint(v))
  BY <1>1, AfterOne
<1>6. /\ Do(e, Written(s, w, b), Varint(v)) = Written(s, w, b \o EncodeVarint[v])
      /\ w = "none" => b \o EncodeVarint[v] \in Seq(Nat)
  BY <1>3, DoVarint
<1> QED BY <1>1, <1>3, <1>4, <1>5, <1>6 DEF Reaches

LEMMA ReachBytes ==
  ASSUME NEW e, NEW s, IsEncoder(s)
  PROVE  \A u, p, w, b : \A x \in Seq(Nat) :
           Reaches(e, s, u, p, w, b) => Reaches(e, s, u, p \o <<Bytes(x)>>, w, b \o x)
<1> TAKE u, p, w, b
<1> TAKE x \in Seq(Nat)
<1> HAVE Reaches(e, s, u, p, w, b)
<1>1. PICK q : q = <<Bytes(x)>>
  OBVIOUS
<1>2. q \in Seq(Steps)
  <2>1. Bytes(x) \in Steps
    BY StepsAre
  <2> QED BY <1>1, <2>1
<1>3. /\ p \in Seq(Steps) /\ u \in Stops /\ w \in Stops /\ (w = "none" => b \in Seq(Nat))
      /\ After(e, Halted(s, u), p) = Written(s, w, b)
  BY DEF Reaches
<1>4. p \o q \in Seq(Steps) /\ After(e, Halted(s, u), p \o q) = After(e, Written(s, w, b), q)
  BY <1>2, <1>3, StepsJoin
<1>5. After(e, Written(s, w, b), q) = Do(e, Written(s, w, b), Bytes(x))
  BY <1>1, AfterOne
<1>6. Do(e, Written(s, w, b), Bytes(x)) = Written(s, w, b \o x) /\ (w = "none" => b \o x \in Seq(Nat))
  BY <1>3, DoBytes
<1> QED BY <1>1, <1>3, <1>4, <1>5, <1>6 DEF Reaches

LEMMA ReachPayload ==
  ASSUME NEW e \in Engines, NEW s, IsEncoder(s)
  PROVE  \A u, p, w, b : \A v \in Int : \A x \in Seq(Nat) :
           Reaches(e, s, u, p, w, b) /\ (w = "none" => v \in 0 .. UnsignedMax)
             => Reaches(e, s, u, p \o <<Varint(v), Bytes(x)>>, w, (b \o EncodeVarint[v]) \o x)
<1> TAKE u, p, w, b
<1> TAKE v \in Int
<1> TAKE x \in Seq(Nat)
<1> HAVE Reaches(e, s, u, p, w, b) /\ (w = "none" => v \in 0 .. UnsignedMax)
<1>1. PICK q : q = <<Varint(v), Bytes(x)>>
  OBVIOUS
<1>2. q \in Seq(Steps)
  <2>1. Varint(v) \in Steps /\ Bytes(x) \in Steps
    BY StepsAre
  <2> QED BY <1>1, <2>1
<1>3. /\ p \in Seq(Steps) /\ u \in Stops /\ w \in Stops /\ (w = "none" => b \in Seq(Nat))
      /\ After(e, Halted(s, u), p) = Written(s, w, b)
  BY DEF Reaches
<1>4. p \o q \in Seq(Steps) /\ After(e, Halted(s, u), p \o q) = After(e, Written(s, w, b), q)
  BY <1>2, <1>3, StepsJoin
<1>5. After(e, Written(s, w, b), q) = Do(e, Do(e, Written(s, w, b), Varint(v)), Bytes(x))
  BY <1>1, AfterTwo
<1>6. PICK d : d = b \o EncodeVarint[v]
  OBVIOUS
<1>7. Do(e, Written(s, w, b), Varint(v)) = Written(s, w, d) /\ (w = "none" => d \in Seq(Nat))
  <2>1. /\ Do(e, Written(s, w, b), Varint(v)) = Written(s, w, b \o EncodeVarint[v])
        /\ w = "none" => b \o EncodeVarint[v] \in Seq(Nat)
    BY <1>3, DoVarint
  <2> QED BY <1>6, <2>1
<1>8. Do(e, Written(s, w, d), Bytes(x)) = Written(s, w, d \o x) /\ (w = "none" => d \o x \in Seq(Nat))
  BY <1>3, <1>7, DoBytes
<1> QED BY <1>1, <1>3, <1>4, <1>5, <1>6, <1>7, <1>8 DEF Reaches

-----------------------------------------------------------------------------
(* The lists of checks there are.                                          *)
LEMMA GateLeads ==
  ASSUME NEW e, NEW s, IsEncoder(s), NEW u \in Stops
  PROVE  Leads(e, s, u, <<Gate>>, Then(u, ~Held(s), "skip"))
<1>1. Leads(e, s, u, <<Gate>>, Answer(s, Gate, u))
  BY LeadOne, ChecksAre
<1> QED BY <1>1, ChecksAre

LEMMA CheckLeads ==
  ASSUME NEW e, NEW s, IsEncoder(s), NEW u \in Stops, NEW a \in Flags, NEW x \in Refusals
  PROVE  Leads(e, s, u, <<Check(a, x)>>, Then(u, a, x))
<1>1. Check(a, x) \in Checks /\ Answer(s, Check(a, x), u) = Then(u, a, x)
  BY ChecksAre
<1>2. Leads(e, s, u, <<Check(a, x)>>, Answer(s, Check(a, x), u))
  BY <1>1, LeadOne
<1> QED BY <1>1, <1>2

LEMMA ChecksLead ==
  ASSUME NEW e, NEW s, IsEncoder(s), NEW u \in Stops, NEW a \in Flags, NEW x \in Refusals,
         NEW b \in Flags, NEW y \in Refusals
  PROVE  Leads(e, s, u, <<Check(a, x), Check(b, y)>>, Then(Then(u, a, x), b, y))
<1>1. PICK k, l : k = Check(a, x) /\ l = Check(b, y)
  OBVIOUS
<1>2. k \in Checks /\ l \in Checks /\ \A w : Answer(s, k, w) = Then(w, a, x) /\ Answer(s, l, w) = Then(w, b, y)
  BY <1>1, ChecksAre
<1>3. Leads(e, s, u, <<k, l>>, Answer(s, l, Answer(s, k, u)))
  BY <1>2, LeadTwo
<1> QED BY <1>1, <1>2, <1>3

LEMMA GateCheckLeads ==
  ASSUME NEW e, NEW s, IsEncoder(s), NEW u \in Stops, NEW a \in Flags, NEW x \in Refusals
  PROVE  Leads(e, s, u, <<Gate, Check(a, x)>>, Then(Then(u, ~Held(s), "skip"), a, x))
<1>1. PICK k, l : k = Gate /\ l = Check(a, x)
  OBVIOUS
<1>2. k \in Checks /\ l \in Checks
      /\ \A w : Answer(s, k, w) = Then(w, ~Held(s), "skip") /\ Answer(s, l, w) = Then(w, a, x)
  BY <1>1, ChecksAre
<1>3. Leads(e, s, u, <<k, l>>, Answer(s, l, Answer(s, k, u)))
  BY <1>2, LeadTwo
<1> QED BY <1>1, <1>2, <1>3

LEMMA GateTwoLead ==
  ASSUME NEW e, NEW s, IsEncoder(s), NEW u \in Stops, NEW a \in Flags, NEW x \in Refusals,
         NEW b \in Flags, NEW y \in Refusals
  PROVE  Leads(e, s, u, <<Gate, Check(a, x), Check(b, y)>>,
               Then(Then(Then(u, ~Held(s), "skip"), a, x), b, y))
<1>1. PICK k, l, m : k = Gate /\ l = Check(a, x) /\ m = Check(b, y)
  OBVIOUS
<1>2. k \in Checks /\ l \in Checks /\ m \in Checks
      /\ \A w : /\ Answer(s, k, w) = Then(w, ~Held(s), "skip") /\ Answer(s, l, w) = Then(w, a, x)
                /\ Answer(s, m, w) = Then(w, b, y)
  BY <1>1, ChecksAre
<1>3. Leads(e, s, u, <<k, l, m>>, Answer(s, m, Answer(s, l, Answer(s, k, u))))
  BY <1>2, LeadThree
<1> QED BY <1>1, <1>2, <1>3

LEMMA GateThreeLead ==
  ASSUME NEW e, NEW s, IsEncoder(s), NEW u \in Stops, NEW a \in Flags, NEW x \in Refusals,
         NEW b \in Flags, NEW y \in Refusals, NEW d \in Flags, NEW z \in Refusals
  PROVE  Leads(e, s, u, <<Gate, Check(a, x), Check(b, y), Check(d, z)>>,
               Then(Then(Then(Then(u, ~Held(s), "skip"), a, x), b, y), d, z))
<1>1. PICK k, l, m, n : k = Gate /\ l = Check(a, x) /\ m = Check(b, y) /\ n = Check(d, z)
  OBVIOUS
<1>2. k \in Checks /\ l \in Checks /\ m \in Checks /\ n \in Checks
      /\ \A w : /\ Answer(s, k, w) = Then(w, ~Held(s), "skip") /\ Answer(s, l, w) = Then(w, a, x)
                /\ Answer(s, m, w) = Then(w, b, y) /\ Answer(s, n, w) = Then(w, d, z)
  BY <1>1, ChecksAre
<1>3. Leads(e, s, u, <<k, l, m, n>>, Answer(s, n, Answer(s, m, Answer(s, l, Answer(s, k, u)))))
  BY <1>2, LeadFour
<1> QED BY <1>1, <1>2, <1>3

(* A bound, where there is one.                                            *)
IsBound(bound) == bound \in Seq(Arg) /\ Len(bound) <= 1
Bounded(w, bound, ok) ==
  IF bound = <<>> THEN w ELSE Then(Then(w, bound[1].int, "python"), ok, "argument")

LEMMA BoundIs ==
  ASSUME NEW bound, IsBound(bound), bound # <<>>
  PROVE  bound[1] \in Arg /\ bound[1].int \in Flags /\ bound[1].n \in Int
<1>1. bound \in Seq(Arg) /\ Len(bound) <= 1
  BY DEF IsBound
<1>2. Len(bound) # 0
  BY <1>1, EmptySeq
<1>3. bound[1] \in Arg
  BY <1>1, <1>2
<1> QED BY <1>3 DEF Arg, Flags

LEMMA BoundLeads ==
  ASSUME NEW e, NEW s, IsEncoder(s), NEW u \in Stops, NEW bound, IsBound(bound), NEW ok \in Flags
  PROVE  Leads(e, s, u, IF bound = <<>> THEN <<>>
                        ELSE <<Check(bound[1].int, "python"), Check(ok, "argument")>>,
               Bounded(u, bound, ok))
<1>1. CASE bound = <<>>
  <2>1. Leads(e, s, u, <<>>, u)
    BY LeadNone
  <2> QED BY <1>1, <2>1 DEF Bounded
<1>2. CASE bound # <<>>
  <2>1. PICK a : a = bound[1].int
    OBVIOUS
  <2>2. a \in Flags /\ "python" \in Refusals /\ "argument" \in Refusals
    BY <1>2, <2>1, BoundIs DEF Refusals
  <2>3. Leads(e, s, u, <<Check(a, "python"), Check(ok, "argument")>>, Then(Then(u, a, "python"), ok, "argument"))
    BY <2>2, ChecksLead
  <2> QED BY <1>2, <2>1, <2>3 DEF Bounded
<1> QED BY <1>1, <1>2

(* A value of its width has a format, and a word.                          *)
LEMMA WidthIs ==
  ASSUME NEW k \in {"unsigned", "signed"}, NEW w \in {"wide", "narrow"}, NEW n \in Int
  PROVE  /\ (n \in Format(k)) \in Flags /\ (n \in Width(k, w)) \in Flags
         /\ n \in Width(k, w) => n \in Format(k)
         /\ n \in Format(k) => Raw(k, n) \in 0 .. UnsignedMax
         /\ Raw(k, n) \in Int
<1>1. (n \in Format(k)) \in Flags /\ (n \in Width(k, w)) \in Flags
  BY DEF Flags
<1>2. PICK p : p = Power[9]
  OBVIOUS
<1>3. p \in Nat /\ p > 0 /\ UnsignedMax = 2 * p - 1 /\ SignedMax = p - 1 /\ SignedMin = -p
  BY <1>2, Powers DEF UnsignedMax, SignedMax, SignedMin
<1>4. Narrow \in Nat /\ Narrow <= 2 * p - 1
  BY <1>3, WordAssumption
<1>5. n \in Width(k, w) => n \in Format(k)
  <2>1. CASE w = "wide"
    BY <2>1 DEF Width
  <2>2. CASE w # "wide" /\ k = "unsigned"
    BY <1>3, <1>4, <2>2 DEF Width, Format
  <2>3. CASE w # "wide" /\ k = "signed"
    <3>1. (Narrow + 1) \div 2 <= p /\ Narrow \div 2 <= p - 1
      BY <1>3, <1>4
    <3>2. Width(k, w) = -((Narrow + 1) \div 2) .. Narrow \div 2 /\ Format(k) = SignedMin .. SignedMax
      BY <2>3 DEF Width, Format
    <3>3. (Narrow + 1) \div 2 \in Int /\ Narrow \div 2 \in Int
      BY <1>4
    <3> QED BY <1>3, <3>1, <3>2, <3>3
  <2> QED BY <2>1, <2>2, <2>3
<1>6. n \in Format(k) => Raw(k, n) \in 0 .. UnsignedMax
  BY ZigZagFits DEF Format, Raw
<1>7. Raw(k, n) \in Int
  BY DEF Raw, ZigZag
<1> QED BY <1>1, <1>5, <1>6, <1>7

-----------------------------------------------------------------------------
(* What a call comes to: why it stopped, and what it wrote.                *)
Told(s, c, w) ==
  /\ HeaderFits(c) => w = IF Held(s) THEN "skip" ELSE "none"
  /\ ~HeaderFits(c) => w # "none" /\ (w = "skip" => Held(s))
Agree(s, c, p, q) ==
  \E w \in Stops : /\ Told(s, c, w)
                   /\ \A e \in Engines : /\ Reaches(e, s, "none", p, w, FieldBytes(c))
                                          /\ Reaches(e, s, "none", q, w, FieldBytes(c))

LEMMA AgreeIs ==
  ASSUME NEW s, NEW c, NEW p, NEW q, NEW w \in Stops, NEW b, b = FieldBytes(c), Told(s, c, w),
         \A e \in Engines : Reaches(e, s, "none", p, w, b),
         \A e \in Engines : Reaches(e, s, "none", q, w, b)
  PROVE  Agree(s, c, p, q)
BY DEF Agree

LEMMA StopsAre == "none" \in Stops /\ \A w \in Stops : \A x \in Refusals \cup {"skip"} : \A ok : Then(w, ok, x) \in Stops
BY DEF Stops, Then, Refusals

LEMMA HeldFlag == ASSUME NEW s, IsEncoder(s) PROVE (~Held(s)) \in Flags /\ Held(s) \in Flags
BY DEF Flags, Held, IsEncoder

LEMMA NamedFlag == \A id \in Arg : Named(id) \in Flags
BY ArgIs DEF Flags

(* What most calls come to.                                                *)
GateThen(s, fits) == Then(Then("none", ~Held(s), "skip"), fits, "argument")

LEMMA GateThenTold ==
  ASSUME NEW s, IsEncoder(s), NEW c, NEW fits \in Flags, HeaderFits(c) = fits
  PROVE  Told(s, c, GateThen(s, fits)) /\ GateThen(s, fits) \in Stops
<1>1. GateThen(s, fits) \in Stops
  BY DEF GateThen, Then, Stops
<1>2. Held(s) \in BOOLEAN /\ fits \in BOOLEAN /\ (HeaderFits(c) <=> fits)
  BY HeldFlag DEF Flags
<1>3. Told(s, c, GateThen(s, fits))
  BY <1>2 DEF Told, GateThen, Then
<1> QED BY <1>1, <1>3

LEMMA ReachSame ==
  \A e, s, u, p, w, b, x : Reaches(e, s, u, p, w, b) /\ (w = "none" => x = b) => Reaches(e, s, u, p, w, x)
<1> SUFFICES ASSUME NEW e, NEW s, NEW u, NEW p, NEW w, NEW b, NEW x,
                    Reaches(e, s, u, p, w, b), w = "none" => x = b
             PROVE  Reaches(e, s, u, p, w, x)
  OBVIOUS
<1>1. Written(s, w, x) = Written(s, w, b)
  BY SMTT(40) DEF Written
<1> QED BY <1>1 DEF Reaches

LEMMA ScalarReaches ==
  ASSUME NEW s, IsEncoder(s), NEW c, c.kind \in {"unsigned", "signed"}, c.width \in {"wide", "narrow"},
         c.id \in Arg, c.v \in Arg, NEW fits, fits = (Named(c.id) /\ ValueFits(c.v, c))
  PROVE  /\ fits \in Flags
         /\ \A e \in Engines :
              /\ Reaches(e, s, "none", PureScalar(c), GateThen(s, fits),
                         EncodeVarint[8 * c.id.n + WireType[c.kind]] \o EncodeVarint[Raw(c.kind, c.v.n)])
              /\ Reaches(e, s, "none", NativeScalar(c), GateThen(s, fits),
                         EncodeVarint[8 * c.id.n + WireType[c.kind]] \o EncodeVarint[Raw(c.kind, c.v.n)])
<1>1. PICK a, f, d, i, af, r, wt :
        /\ a = c.v.int /\ f = (c.v.n \in Format(c.kind)) /\ d = (c.v.n \in Width(c.kind, c.width))
        /\ i = Named(c.id) /\ af = (a /\ f) /\ r = Raw(c.kind, c.v.n) /\ wt = WireType[c.kind]
  OBVIOUS
<1>2. /\ a \in Flags /\ f \in Flags /\ d \in Flags /\ i \in Flags /\ af \in Flags
      /\ (d => f) /\ r \in Int /\ (f => r \in 0 .. UnsignedMax) /\ wt \in 0 .. 7
  <2>1. a \in Flags /\ i \in Flags /\ c.v.n \in Int
    BY <1>1, ArgIs, NamedFlag DEF Flags
  <2>2. f \in Flags /\ d \in Flags /\ (d => f) /\ r \in Int /\ (f => r \in 0 .. UnsignedMax)
    BY <1>1, <2>1, WidthIs
  <2>3. af \in Flags
    BY <1>1, <2>1, <2>2 DEF Flags
  <2>4. wt \in 0 .. 7
    BY <1>1 DEF WireType
  <2> QED BY <2>1, <2>2, <2>3, <2>4
<1>20. wt \in 0 .. 7
  BY <1>2
<1>21. r \in Int
  BY <1>2
<1>3. PICK g, w0, w3, w : g = ~Held(s) /\ w0 = Then("none", ~Held(s), "skip")
        /\ w3 = Then(Then(Then(w0, a, "argument"), f, "argument"), d, "argument")
        /\ w = Then(w3, Named(c.id), "argument")
  OBVIOUS
<1>4. w0 \in Stops /\ w3 \in Stops /\ w \in Stops /\ "argument" \in Refusals /\ "none" \in Stops
  <2>1. "argument" \in Refusals \cup {"skip"} /\ "skip" \in Refusals \cup {"skip"} /\ "argument" \in Refusals
    BY DEF Refusals
  <2> QED BY <1>3, <2>1, StopsAre
<1>5. PICK b, x : b = EncodeVarint[8 * c.id.n + wt] /\ x = b \o EncodeVarint[r]
  OBVIOUS
<1>6. w = "none" => r \in 0 .. UnsignedMax
  BY <1>2, <1>3 DEF Then
<1>7. w = GateThen(s, fits)
  <2>1. fits <=> i /\ a /\ d
    BY <1>1 DEF ValueFits, Named
  <2>2. fits \in BOOLEAN /\ a \in BOOLEAN /\ f \in BOOLEAN /\ d \in BOOLEAN /\ i \in BOOLEAN
    BY <1>2 DEF Flags
  <2> QED BY <1>1, <1>2, <1>3, <2>1, <2>2 DEF GateThen, Then
<1>8. fits \in Flags
  BY DEF Flags
<1>9. ASSUME NEW e \in Engines PROVE Reaches(e, s, "none", PureScalar(c), w, x)
  <2>1. PICK p : p = <<Gate, Check(a, "argument"), Check(f, "argument"), Check(d, "argument")>>
    OBVIOUS
  <2>2. Leads(e, s, "none", p, w3)
    BY <1>2, <1>3, <1>4, <2>1, GateThreeLead
  <2>3. Reaches(e, s, w3, Header(c.id, wt), w, b)
    <3>1. \A u \in Stops : Reaches(e, s, u, Header(c.id, wt), Then(u, Named(c.id), "argument"),
                                    EncodeVarint[8 * c.id.n + wt])
      BY <1>20, ReachHeader
    <3> QED BY <1>3, <1>4, <1>5, <3>1
  <2>4. Reaches(e, s, "none", p \o Header(c.id, wt), w, b)
    BY <2>2, <2>3, ReachBoth
  <2>5. Reaches(e, s, "none", (p \o Header(c.id, wt)) \o <<Varint(r)>>, w, x)
    <3>1. \A u, p0, w1, b0 : \A v \in Int :
      Reaches(e, s, u, p0, w1, b0) /\ (w1 = "none" => v \in 0 .. UnsignedMax)
        => Reaches(e, s, u, p0 \o <<Varint(v)>>, w1, b0 \o EncodeVarint[v])
      BY ReachVarint
    <3> QED BY <1>21, <1>5, <1>6, <2>4, <3>1
  <2>6. PureScalar(c) = (p \o Header(c.id, wt)) \o <<Varint(r)>>
    BY <1>1, <2>1 DEF PureScalar
  <2> QED BY <2>5, <2>6
<1>10. ASSUME NEW e \in Engines PROVE Reaches(e, s, "none", NativeScalar(c), w, x)
  <2>1. PICK p : p = <<Gate, Check(af, "argument"), Check(d, "argument"), Check(i, "argument")>>
    OBVIOUS
  <2>2. Leads(e, s, "none", p, Then(Then(Then(Then("none", ~Held(s), "skip"), af, "argument"), d, "argument"), i, "argument"))
    BY <1>2, <1>4, <2>1, GateThreeLead
  <2>3. Then(Then(Then(w0, af, "argument"), d, "argument"), i, "argument") = w
    BY <1>1, <1>2, <1>3 DEF Then, Flags
  <2>4. Leads(e, s, "none", p, w)
    BY <1>3, <2>2, <2>3
  <2>5. Reaches(e, s, w, HeaderC(c.id, wt), w, b)
    <3>1. w = "none" => Named(c.id)
      BY <1>3 DEF Then
    <3>2. \A u \in Stops : (u = "none" => Named(c.id)) =>
            /\ HeaderC(c.id, wt) \in Seq(Steps)
            /\ After(e, Halted(s, u), HeaderC(c.id, wt)) = Written(s, u, EncodeVarint[8 * c.id.n + wt])
            /\ u = "none" => EncodeVarint[8 * c.id.n + wt] \in Seq(Nat)
      BY <1>20, HeaderCIs
    <3> QED BY <1>4, <1>5, <3>1, <3>2 DEF Reaches
  <2>6. Reaches(e, s, "none", p \o HeaderC(c.id, wt), w, b)
    BY <2>4, <2>5, ReachBoth
  <2>7. Reaches(e, s, "none", (p \o HeaderC(c.id, wt)) \o <<Varint(r)>>, w, x)
    <3>1. \A u, p0, w1, b0 : \A v \in Int :
      Reaches(e, s, u, p0, w1, b0) /\ (w1 = "none" => v \in 0 .. UnsignedMax)
        => Reaches(e, s, u, p0 \o <<Varint(v)>>, w1, b0 \o EncodeVarint[v])
      BY ReachVarint
    <3> QED BY <1>21, <1>5, <1>6, <2>6, <3>1
  <2>8. NativeScalar(c) = (p \o HeaderC(c.id, wt)) \o <<Varint(r)>>
    BY <1>1, <2>1 DEF NativeScalar, Converted, IdArg, Named
  <2> QED BY <2>7, <2>8
<1> QED BY <1>1, <1>5, <1>7, <1>8, <1>9, <1>10

(* The writers of numbers agree.                                           *)
LEMMA ScalarWrites ==
  ASSUME NEW s, IsEncoder(s), NEW c, c.kind \in {"unsigned", "signed"}, c.width \in {"wide", "narrow"},
         c.id \in Arg, c.v \in Arg, c.op = "scalar"
  PROVE  Agree(s, c, PureScalar(c), NativeScalar(c))
<1>1. PICK fits, b : /\ fits = (Named(c.id) /\ ValueFits(c.v, c))
                     /\ b = EncodeVarint[8 * c.id.n + WireType[c.kind]] \o EncodeVarint[Raw(c.kind, c.v.n)]
  OBVIOUS
<1>2. /\ fits \in Flags
      /\ \A e \in Engines : /\ Reaches(e, s, "none", PureScalar(c), GateThen(s, fits), b)
                             /\ Reaches(e, s, "none", NativeScalar(c), GateThen(s, fits), b)
  BY <1>1, ScalarReaches
<1>3. HeaderFits(c) = fits
  BY <1>1, SMTT(40) DEF HeaderFits, IdFits, Named
<1>4. b = FieldBytes(c)
  BY <1>1 DEF FieldBytes, Framed
<1>5. Told(s, c, GateThen(s, fits)) /\ GateThen(s, fits) \in Stops
  BY <1>2, <1>3, GateThenTold
<1> QED BY <1>2, <1>4, <1>5, AgreeIs

LEMMA BitIs ==
  /\ 0 \in 0 .. UnsignedMax /\ 1 \in 0 .. UnsignedMax /\ EncodeVarint[0] = <<0>> /\ EncodeVarint[1] = <<1>>
<1>1. Base \in Nat /\ Base >= 2 /\ UnsignedMax \in Nat
  BY WordIs, BaseAssumption
<1>2. UnsignedMax >= 1
  <2>1. PICK p : p = Power[9]
    OBVIOUS
  <2>2. p \in Nat /\ p > 0
    BY <2>1, Powers
  <2> QED BY <2>1, <2>2 DEF UnsignedMax
<1>3. EncodeVarint[0] = <<0>> /\ EncodeVarint[1] = <<1>>
  <2>1. \A v \in Nat : v < Base => EncodeVarint[v] = <<v>>
    BY EncodeVarintIs, Zenon
  <2>2. 0 \in Nat /\ 1 \in Nat /\ 0 < Base /\ 1 < Base
    BY <1>1
  <2> QED BY <2>1, <2>2, Zenon
<1> QED BY <1>1, <1>2, <1>3

(* The writers of booleans agree.                                          *)
LEMMA BoolWrites ==
  ASSUME NEW s, IsEncoder(s), NEW c, c.id \in Arg, c.v \in BOOLEAN, c.op = "bool"
  PROVE  Agree(s, c, PureBool(c), NativeBool(c))
<1>1. PICK n, d, i : /\ n = IF c.v THEN 1 ELSE 0
                     /\ d = [kind |-> "unsigned", id |-> c.id, width |-> "wide", v |-> [int |-> TRUE, n |-> n]]
                     /\ i = Named(c.id)
  OBVIOUS
<1>2. n \in 0 .. UnsignedMax /\ EncodeVarint[n] = <<n>> /\ n \in Nat
  BY <1>1, BitIs
<1>3. /\ d.kind = "unsigned" /\ d.width = "wide" /\ d.id = c.id /\ d.v \in Arg /\ d.v.int = TRUE /\ d.v.n = n
      /\ Raw(d.kind, d.v.n) = n /\ WireType[d.kind] = 0
  BY <1>1, <1>2 DEF Arg, Raw, WireType
<1>4. i \in Flags /\ i = (Named(d.id) /\ ValueFits(d.v, d))
  BY <1>1, <1>2, <1>3, NamedFlag DEF ValueFits, Width, Format, Flags
<1>5. PICK b, h : h = EncodeVarint[8 * c.id.n + 0] /\ b = h \o <<n>>
  OBVIOUS
<1>6. \A e \in Engines : Reaches(e, s, "none", PureScalar(d), GateThen(s, i), b)
  <2>1. \A e \in Engines :
          Reaches(e, s, "none", PureScalar(d), GateThen(s, i),
                  EncodeVarint[8 * d.id.n + WireType[d.kind]] \o EncodeVarint[Raw(d.kind, d.v.n)])
    BY <1>3, <1>4, ScalarReaches
  <2> QED BY <1>2, <1>3, <1>5, <2>1
<1>7. PureBool(c) = PureScalar(d)
  BY <1>1 DEF PureBool
<1>8. ASSUME NEW e \in Engines PROVE Reaches(e, s, "none", NativeBool(c), GateThen(s, i), b)
  <2>1. PICK w0, p : w0 = Then("none", ~Held(s), "skip") /\ p = <<Gate>>
    OBVIOUS
  <2>2. Leads(e, s, "none", p, w0) /\ w0 \in Stops
    BY <2>1, GateLeads, StopsAre DEF Leads
  <2>3. Reaches(e, s, w0, NativeHeader(c.id, 0), GateThen(s, i), h)
    <3>1. \A u \in Stops : Reaches(e, s, u, NativeHeader(c.id, 0), Then(u, Named(c.id), "argument"),
                                    EncodeVarint[8 * c.id.n + 0])
      BY ReachHeader
    <3> QED BY <1>1, <1>5, <2>1, <2>2, <3>1 DEF GateThen
  <2>4. Reaches(e, s, "none", p \o NativeHeader(c.id, 0), GateThen(s, i), h)
    BY <2>2, <2>3, ReachBoth
  <2>5. Reaches(e, s, "none", (p \o NativeHeader(c.id, 0)) \o <<Varint(n)>>, GateThen(s, i), h \o EncodeVarint[n])
    BY <1>2, <2>4, ReachVarint
  <2>6. NativeBool(c) = (p \o NativeHeader(c.id, 0)) \o <<Varint(n)>>
    BY <1>1, <2>1 DEF NativeBool, WireType
  <2> QED BY <1>2, <1>5, <2>5, <2>6
<1>9. HeaderFits(c) = i
  BY <1>1 DEF HeaderFits, IdFits, Named
<1>10. b = FieldBytes(c)
  BY <1>1, <1>5, SMTT(40) DEF FieldBytes, Framed, WireType
<1>11. Told(s, c, GateThen(s, i)) /\ GateThen(s, i) \in Stops
  BY <1>4, <1>9, GateThenTold
<1> QED BY <1>6, <1>7, <1>8, <1>10, <1>11, AgreeIs

-----------------------------------------------------------------------------
(* The payloads: a header, a length word and the bytes.                    *)
Fixlen(s, u, z, i) == Then(Then(Then(u, ~Held(s), "skip"), z, "argument"), i, "argument")

LEMMA FixlenReaches ==
  ASSUME NEW s, IsEncoder(s), NEW c, c.id \in Arg, c.payload \in Seq(Nat),
         c.op \in {"float", "bits", "text", "blob"}, NEW n \in Nat, n = Len(c.payload),
         NEW z, z = (n <= FixlenMax), NEW i, i = Named(c.id), NEW b,
         b = EncodeVarint[8 * c.id.n + WireType.fixlen] \o (EncodeVarint[8 * n + SubType[c.op]] \o c.payload)
  PROVE  /\ z \in Flags /\ i \in Flags
         /\ \A e \in Engines : \A u \in Stops :
              /\ Fixlen(s, u, z, i) \in Stops
              /\ Reaches(e, s, u, WriteFixlen(c, n), Fixlen(s, u, z, i), b)
              /\ Reaches(e, s, u, NativeFixlen(c, n), Fixlen(s, u, z, i), b)
<1>1. PICK v, x, h, wt, id :
        v = 8 * n + SubType[c.op] /\ x = c.payload /\ wt = WireType.fixlen /\ id = c.id
        /\ h = EncodeVarint[8 * id.n + wt]
  BY SMTT(40)
<1>2. v \in Int /\ (n <= FixlenMax => v \in 0 .. UnsignedMax) /\ x \in Seq(Nat) /\ wt \in 0 .. 7 /\ id \in Arg
  <2>1. SubType[c.op] \in 0 .. 3
    BY DEF SubType
  <2> QED BY <1>1, <2>1, WordAssumption, WordIs, SMTT(40) DEF WireType
<1>3. z \in Flags /\ i \in Flags /\ (z => n <= FixlenMax)
  <2>1. Named(id) \in Flags
    BY <1>2, NamedFlag
  <2>2. z \in BOOLEAN
    BY WordAssumption, SMTT(40)
  <2> QED BY <1>1, <2>1, <2>2 DEF Flags
<1>4. ASSUME NEW e \in Engines, NEW u \in Stops
      PROVE  /\ Fixlen(s, u, z, i) \in Stops
             /\ Reaches(e, s, u, WriteFixlen(c, n), Fixlen(s, u, z, i), b)
             /\ Reaches(e, s, u, NativeFixlen(c, n), Fixlen(s, u, z, i), b)
  <2>1. PICK w0, w, p : /\ p = <<Gate, Check(z, "argument")>>
                        /\ w0 = Then(Then(u, ~Held(s), "skip"), z, "argument") /\ w = Fixlen(s, u, z, i)
    OBVIOUS
  <2>2. w = Then(w0, Named(id), "argument") /\ w0 \in Stops /\ w \in Stops
    BY <1>1, <2>1 DEF Fixlen, Then, Stops
  <2>3. Leads(e, s, u, p, w0)
    <3>1. "argument" \in Refusals
      BY DEF Refusals
    <3> QED BY <1>3, <2>1, <3>1, GateCheckLeads
  <2>4. w = "none" => v \in 0 .. UnsignedMax
    BY <1>2, <1>3, <2>1 DEF Fixlen, Then
  <2>5. w = "none" => b = (h \o EncodeVarint[v]) \o x
    <3> SUFFICES ASSUME w = "none" PROVE b = (h \o EncodeVarint[v]) \o x
      OBVIOUS
    <3>1. PICK y : y = EncodeVarint[v]
      OBVIOUS
    <3>2. y \in Seq(Nat)
      BY <2>4, <3>1, EmitIs, SMTT(40)
    <3>3. h \in Seq(Nat)
      <4>1. Reaches(e, s, w0, Header(id, wt), Then(w0, Named(id), "argument"), EncodeVarint[8 * id.n + wt])
        BY <1>2, <2>2, ReachHeader
      <4> QED BY <1>1, <2>2, <4>1 DEF Reaches
    <3>4. b = h \o (y \o x)
      BY <1>1, <3>1, SMTT(40)
    <3> QED BY <1>2, <3>1, <3>2, <3>3, <3>4, Associative, ZenonT(40)
  <2>6. ASSUME NEW t, Reaches(e, s, w0, t, w, h)
        PROVE  Reaches(e, s, u, (p \o t) \o <<Varint(v), Bytes(x)>>, w, b)
    <3>1. Reaches(e, s, u, p \o t, w, h)
      BY <2>3, <2>6, ReachBoth, SMTT(40)
    <3>2. Reaches(e, s, u, (p \o t) \o <<Varint(v), Bytes(x)>>, w, (h \o EncodeVarint[v]) \o x)
      BY <1>2, <2>4, <3>1, ReachPayload, SMTT(40)
    <3> QED BY <2>5, <3>2, ReachSame, ZenonT(40)
  <2>7. Reaches(e, s, w0, Header(id, wt), w, h) /\ Reaches(e, s, w0, NativeHeader(id, wt), w, h)
    <3>1. \A r \in Stops :
           /\ Reaches(e, s, r, Header(id, wt), Then(r, Named(id), "argument"), EncodeVarint[8 * id.n + wt])
           /\ Reaches(e, s, r, NativeHeader(id, wt), Then(r, Named(id), "argument"),
                      EncodeVarint[8 * id.n + wt])
      BY <1>2, ReachHeader
    <3> QED BY <1>1, <2>2, <3>1
  <2>8. WriteFixlen(c, n) = (p \o Header(id, wt)) \o <<Varint(v), Bytes(x)>>
    BY <1>1, <2>1 DEF WriteFixlen
  <2>9. NativeFixlen(c, n) = (p \o NativeHeader(id, wt)) \o <<Varint(v), Bytes(x)>>
    BY <1>1, <2>1 DEF NativeFixlen
  <2> QED BY <2>1, <2>2, <2>6, <2>7, <2>8, <2>9, ZenonT(40)
<1> QED BY <1>3, <1>4

(* What comes before the payload decides whether there is one.             *)
LEMMA FixlenAgrees ==
  ASSUME NEW s, IsEncoder(s), NEW c, c.id \in Arg, c.payload \in Seq(Nat),
         c.op \in {"float", "bits", "text", "blob"}, NEW p, NEW q, NEW u \in Stops, NEW v \in Stops,
         \A e \in Engines : Leads(e, s, "none", p, u) /\ Leads(e, s, "none", q, v),
         NEW z, z = (Len(c.payload) <= FixlenMax),
         Fixlen(s, u, z, Named(c.id)) = Fixlen(s, v, z, Named(c.id)),
         Told(s, c, Fixlen(s, u, z, Named(c.id)))
  PROVE  Agree(s, c, p \o WriteFixlen(c, Len(c.payload)), q \o NativeFixlen(c, Len(c.payload)))
<1>1. PICK n, i, b : /\ n = Len(c.payload) /\ i = Named(c.id)
        /\ b = EncodeVarint[8 * c.id.n + WireType.fixlen] \o (EncodeVarint[8 * n + SubType[c.op]] \o c.payload)
  OBVIOUS
<1>2. n \in Nat /\ z = (n <= FixlenMax)
  BY <1>1
<1>3. \A e \in Engines : \A r \in Stops :
        /\ Fixlen(s, r, z, i) \in Stops
        /\ Reaches(e, s, r, WriteFixlen(c, n), Fixlen(s, r, z, i), b)
        /\ Reaches(e, s, r, NativeFixlen(c, n), Fixlen(s, r, z, i), b)
  BY <1>1, <1>2, FixlenReaches, ZenonT(40)
<1>4. PICK w : w = Fixlen(s, u, z, i)
  OBVIOUS
<1>5. w = Fixlen(s, v, z, i) /\ Told(s, c, w)
  BY <1>1, <1>4
<1>6. \A e \in Engines : Reaches(e, s, "none", p \o WriteFixlen(c, n), w, b)
  BY <1>3, <1>4, ReachBoth
<1>7. \A e \in Engines : Reaches(e, s, "none", q \o NativeFixlen(c, n), w, b)
  BY <1>3, <1>5, ReachBoth, SMTT(40)
<1>8. b = FieldBytes(c)
  BY <1>1 DEF FieldBytes, Framed, Payload
<1>9. w \in Stops
  <2>1. "pure" \in Engines
    BY DEF Engines
  <2> QED BY <1>3, <1>4, <2>1
<1> QED BY <1>1, <1>5, <1>6, <1>7, <1>8, <1>9, AgreeIs

LEMMA FixlenTold ==
  ASSUME NEW s, IsEncoder(s), NEW c, NEW w, NEW g, g = ~Held(s), NEW fits \in Flags, HeaderFits(c) = fits,
         fits => w = (IF g THEN "none" ELSE "skip"), ~fits => w # "none" /\ (w = "skip" => ~g)
  PROVE  Told(s, c, w)
<1>1. Held(s) \in BOOLEAN /\ fits \in BOOLEAN
  BY HeldFlag DEF Flags
<1> QED BY <1>1 DEF Told

(* The writers of floats agree.                                            *)
LEMMA FloatWrites ==
  ASSUME NEW s, IsEncoder(s), NEW c, c.id \in Arg, c.payload \in Seq(Nat), Len(c.payload) = FloatSize,
         c.ok \in BOOLEAN, c.op = "float"
  PROVE  Agree(s, c, PureFloat(c), NativeFloat(c))
<1>1. PICK a, i, z, p, u, w :
        /\ a = c.ok /\ i = Named(c.id) /\ z = (Len(c.payload) <= FixlenMax)
        /\ p = <<Check(a, "python")>> /\ u = Then("none", a, "python") /\ w = Fixlen(s, u, z, i)
  OBVIOUS
<1>2. a \in Flags /\ i \in Flags /\ z = TRUE
  BY <1>1, NamedFlag, FloatAssumption DEF Flags
<1>3. u \in Stops
  BY <1>1 DEF Then, Stops
<1>4. \A e \in Engines : Leads(e, s, "none", p, u)
  <2>1. "python" \in Refusals /\ "none" \in Stops
    BY DEF Refusals, Stops
  <2> QED BY <1>1, <1>2, <2>1, CheckLeads
<1>5. PICK fits, g : fits = (i /\ a) /\ g = ~Held(s)
  OBVIOUS
<1>6. HeaderFits(c) = fits /\ fits \in Flags
  BY <1>1, <1>5 DEF HeaderFits, IdFits, Named, Flags
<1>7. Told(s, c, w)
  <2>1. g \in BOOLEAN /\ a \in BOOLEAN /\ i \in BOOLEAN
    BY <1>2, <1>5, HeldFlag DEF Flags
  <2>2. w = Then(Then(Then(Then("none", a, "python"), g, "skip"), TRUE, "argument"), i, "argument")
    BY <1>1, <1>2, <1>5 DEF Fixlen
  <2>3. (fits => w = (IF g THEN "none" ELSE "skip")) /\ (~fits => w # "none" /\ (w = "skip" => ~g))
    BY <1>5, <2>1, <2>2 DEF Then
  <2> QED BY <1>5, <1>6, <2>3, FixlenTold
<1>8. Agree(s, c, p \o WriteFixlen(c, Len(c.payload)), p \o NativeFixlen(c, Len(c.payload)))
  BY <1>1, <1>3, <1>4, <1>7, FixlenAgrees
<1> QED BY <1>1, <1>8 DEF PureFloat, NativeFloat

(* The writers of floats given by their bits agree.                        *)
LEMMA BitsWrites ==
  ASSUME NEW s, IsEncoder(s), NEW c, c.id \in Arg, c.payload \in Seq(Nat), Len(c.payload) = FloatSize,
         c.ok \in BOOLEAN, c.inRange \in BOOLEAN, c.op = "bits"
  PROVE  Agree(s, c, PureFloatBits(c), NativeFloatBits(c))
<1>1. PICK a, r, i, z, p, u, w :
        /\ a = c.ok /\ r = c.inRange /\ i = Named(c.id) /\ z = (Len(c.payload) <= FixlenMax)
        /\ p = <<Gate, Check(a, "argument"), Check(r, "argument")>>
        /\ u = Then(Then(Then("none", ~Held(s), "skip"), a, "argument"), r, "argument") /\ w = Fixlen(s, u, z, i)
  OBVIOUS
<1>2. a \in Flags /\ r \in Flags /\ i \in Flags /\ z = TRUE
  BY <1>1, NamedFlag, FloatAssumption DEF Flags
<1>3. u \in Stops
  BY <1>1 DEF Then, Stops
<1>4. \A e \in Engines : Leads(e, s, "none", p, u)
  <2>1. "argument" \in Refusals /\ "none" \in Stops
    BY DEF Refusals, Stops
  <2> QED BY <1>1, <1>2, <2>1, GateTwoLead, ZenonT(40)
<1>5. PICK fits, g : fits = (i /\ a /\ r) /\ g = ~Held(s)
  OBVIOUS
<1>6. HeaderFits(c) = fits /\ fits \in Flags
  BY <1>1, <1>5 DEF HeaderFits, IdFits, Named, Flags
<1>7. Told(s, c, w)
  <2>1. g \in BOOLEAN /\ a \in BOOLEAN /\ i \in BOOLEAN /\ r \in BOOLEAN
    BY <1>2, <1>5, HeldFlag DEF Flags
  <2>2. w = Then(Then(Then(u, g, "skip"), TRUE, "argument"), i, "argument")
    BY <1>1, <1>2, <1>5 DEF Fixlen
  <2>3. u = Then(Then(Then("none", g, "skip"), a, "argument"), r, "argument")
    BY <1>1, <1>5
  <2>4. (fits => w = (IF g THEN "none" ELSE "skip")) /\ (~fits => w # "none" /\ (w = "skip" => ~g))
    BY <1>5, <2>1, <2>2, <2>3 DEF Then
  <2> QED BY <1>5, <1>6, <2>4, FixlenTold
<1>8. Agree(s, c, p \o WriteFixlen(c, Len(c.payload)), p \o NativeFixlen(c, Len(c.payload)))
  BY <1>1, <1>3, <1>4, <1>7, FixlenAgrees
<1> QED BY <1>1, <1>8 DEF PureFloatBits, NativeFloatBits

(* The writers of text agree.                                              *)
LEMMA TextWrites ==
  ASSUME NEW s, IsEncoder(s), NEW c, c.id \in Arg, c.payload \in Seq(Nat), c.ok \in BOOLEAN,
         IsBound(c.bound), c.op = "text"
  PROVE  Agree(s, c, PureText(c), NativeText(c))
<1>1. PICK n, m, a, i, z, o, v, x, k :
        /\ n = Len(c.payload) /\ m = c.bound /\ a = c.ok /\ i = Named(c.id) /\ z = (n <= FixlenMax)
        /\ o = (n <= m[1].n) /\ v = (~Over(n, m[1])) /\ x = m[1].int
        /\ k = <<Gate, Check(a, "argument")>>
  OBVIOUS
<1>2. n \in Nat /\ IsBound(m) /\ a \in Flags /\ i \in Flags /\ z \in Flags
  BY <1>1, NamedFlag, WordAssumption, SMTT(40) DEF Flags
<1>3. /\ o \in Flags /\ v \in Flags
      /\ m # <<>> => x \in Flags /\ (z => (v <=> o))
  <2>1. o \in Flags /\ v \in Flags
    BY <1>1 DEF Flags, Over
  <2>2. ASSUME m # <<>> PROVE x \in Flags /\ (z => (v <=> o))
    <3>1. m[1].n \in Int /\ x \in Flags
      BY <1>1, <1>2, <2>2, BoundIs
    <3>2. FixlenMax \in Nat /\ FixlenMax <= UnsignedMax /\ UnsignedMax \in Nat
      BY WordAssumption, WordIs
    <3> QED BY <1>1, <1>2, <3>1, <3>2 DEF Over
  <2> QED BY <2>1, <2>2
<1>4. PICK w0, u, t : /\ w0 = Then(Then("none", ~Held(s), "skip"), a, "argument")
                      /\ u = Bounded(w0, m, o) /\ t = Bounded(w0, m, v)
  OBVIOUS
<1>5. w0 \in Stops /\ u \in Stops /\ t \in Stops
  BY <1>4 DEF Bounded, Then, Stops
<1>6. \A e \in Engines : Leads(e, s, "none", k, w0)
  <2>1. "argument" \in Refusals /\ "none" \in Stops
    BY DEF Refusals, Stops
  <2> QED BY <1>1, <1>2, <1>4, <2>1, GateCheckLeads
<1>7. \A e \in Engines : Leads(e, s, "none", k \o Maxlen(n, m), u) /\ Leads(e, s, "none", k \o NativeMaxlen(n, m), t)
  <2> SUFFICES ASSUME NEW e \in Engines
               PROVE  Leads(e, s, w0, Maxlen(n, m), u) /\ Leads(e, s, w0, NativeMaxlen(n, m), t)
    BY <1>6, LeadBoth
  <2>1. \A ok \in Flags : Leads(e, s, w0, IF m = <<>> THEN <<>> ELSE <<Check(m[1].int, "python"), Check(ok, "argument")>>,
                                Bounded(w0, m, ok))
    BY <1>2, <1>5, BoundLeads
  <2> QED BY <1>1, <1>3, <1>4, <2>1 DEF Maxlen, NativeMaxlen
<1>8. PICK g, fits : g = ~Held(s) /\ fits = (i /\ a /\ z /\ (m # <<>> => x /\ o))
  OBVIOUS
<1>9. HeaderFits(c) = fits /\ fits \in Flags
  <2>1. HeaderFits(c) = (/\ IdFits(c) /\ c.ok /\ Len(c.payload) <= FixlenMax
                         /\ c.bound # <<>> => c.bound[1].int /\ Len(c.payload) <= c.bound[1].n)
    BY DEF HeaderFits
  <2> QED BY <1>1, <1>8, <2>1 DEF IdFits, Named, Flags
<1>10. /\ Fixlen(s, u, z, i) = Fixlen(s, t, z, i)
       /\ fits => Fixlen(s, u, z, i) = (IF g THEN "none" ELSE "skip")
       /\ ~fits => Fixlen(s, u, z, i) # "none" /\ (Fixlen(s, u, z, i) = "skip" => ~g)
  <2>1. /\ g \in BOOLEAN /\ a \in BOOLEAN /\ i \in BOOLEAN /\ z \in BOOLEAN /\ o \in BOOLEAN /\ v \in BOOLEAN
        /\ m # <<>> => x \in BOOLEAN /\ (z => (v <=> o))
    BY <1>2, <1>3, <1>8, HeldFlag DEF Flags
  <2>2. /\ Fixlen(s, u, z, i) = Then(Then(Then(u, g, "skip"), z, "argument"), i, "argument")
        /\ Fixlen(s, t, z, i) = Then(Then(Then(t, g, "skip"), z, "argument"), i, "argument")
        /\ w0 = Then(Then("none", g, "skip"), a, "argument")
    BY <1>4, <1>8 DEF Fixlen
  <2>3. CASE m = <<>>
    <3>1. u = w0 /\ t = w0
      BY <1>4, <2>3 DEF Bounded
    <3> QED BY <1>8, <2>1, <2>2, <2>3, <3>1 DEF Then
  <2>4. CASE m # <<>>
    <3>1. u = Then(Then(w0, x, "python"), o, "argument") /\ t = Then(Then(w0, x, "python"), v, "argument")
      BY <1>1, <1>4, <2>4 DEF Bounded
    <3> QED BY <1>8, <2>1, <2>2, <2>4, <3>1 DEF Then
  <2> QED BY <2>3, <2>4
<1>11. Told(s, c, Fixlen(s, u, z, i))
  BY <1>8, <1>9, <1>10, FixlenTold
<1>12. Agree(s, c, (k \o Maxlen(n, m)) \o WriteFixlen(c, Len(c.payload)),
                   (k \o NativeMaxlen(n, m)) \o NativeFixlen(c, Len(c.payload)))
  BY <1>1, <1>5, <1>7, <1>10, <1>11, FixlenAgrees
<1> QED BY <1>1, <1>12 DEF PureText, NativeText

(* The writers of bytes agree.                                             *)
LEMMA BlobWrites ==
  ASSUME NEW s, IsEncoder(s), NEW c, c.id \in Arg, c.payload \in Seq(Nat), c.ok \in BOOLEAN,
         IsBound(c.bound), c.op = "blob"
  PROVE  Agree(s, c, PureBlob(c), NativeBlob(c))
<1>1. PICK n, m, a, i, z, o, v, x, k :
        /\ n = Len(c.payload) /\ m = c.bound /\ a = c.ok /\ i = Named(c.id) /\ z = (n <= FixlenMax)
        /\ o = (n <= m[1].n) /\ v = (~Over(n, m[1])) /\ x = m[1].int
        /\ k = <<Gate, Check(a, "argument"), Check(z, "argument")>>
  OBVIOUS
<1>2. n \in Nat /\ IsBound(m) /\ a \in Flags /\ i \in Flags /\ z \in Flags
  BY <1>1, NamedFlag, WordAssumption DEF Flags
<1>3. /\ o \in Flags /\ v \in Flags
      /\ m # <<>> => x \in Flags /\ (z => (v <=> o))
  <2>1. o \in Flags /\ v \in Flags
    BY <1>1 DEF Flags, Over
  <2>2. ASSUME m # <<>> PROVE x \in Flags /\ (z => (v <=> o))
    <3>1. m[1].n \in Int /\ x \in Flags
      BY <1>1, <1>2, <2>2, BoundIs
    <3>2. FixlenMax \in Nat /\ FixlenMax <= UnsignedMax /\ UnsignedMax \in Nat
      BY WordAssumption, WordIs
    <3> QED BY <1>1, <1>2, <3>1, <3>2 DEF Over
  <2> QED BY <2>1, <2>2
<1>4. PICK w0, u, t : /\ w0 = Then(Then(Then("none", ~Held(s), "skip"), a, "argument"), z, "argument")
                      /\ u = Bounded(w0, m, o) /\ t = Bounded(w0, m, v)
  OBVIOUS
<1>5. w0 \in Stops /\ u \in Stops /\ t \in Stops
  BY <1>4 DEF Bounded, Then, Stops
<1>6. \A e \in Engines : Leads(e, s, "none", k, w0)
  <2>1. "argument" \in Refusals /\ "none" \in Stops
    BY DEF Refusals, Stops
  <2> QED BY <1>1, <1>2, <1>4, <2>1, GateTwoLead
<1>7. \A e \in Engines : Leads(e, s, "none", k \o Maxlen(n, m), u) /\ Leads(e, s, "none", k \o NativeMaxlen(n, m), t)
  <2> SUFFICES ASSUME NEW e \in Engines
               PROVE  Leads(e, s, w0, Maxlen(n, m), u) /\ Leads(e, s, w0, NativeMaxlen(n, m), t)
    BY <1>6, LeadBoth
  <2>1. \A ok \in Flags : Leads(e, s, w0, IF m = <<>> THEN <<>> ELSE <<Check(m[1].int, "python"), Check(ok, "argument")>>,
                                Bounded(w0, m, ok))
    BY <1>2, <1>5, BoundLeads
  <2> QED BY <1>1, <1>3, <1>4, <2>1 DEF Maxlen, NativeMaxlen
<1>8. PICK g, fits : g = ~Held(s) /\ fits = (i /\ a /\ z /\ (m # <<>> => x /\ o))
  OBVIOUS
<1>9. HeaderFits(c) = fits /\ fits \in Flags
  <2>1. HeaderFits(c) = (/\ IdFits(c) /\ c.ok /\ Len(c.payload) <= FixlenMax
                         /\ c.bound # <<>> => c.bound[1].int /\ Len(c.payload) <= c.bound[1].n)
    BY DEF HeaderFits
  <2> QED BY <1>1, <1>8, <2>1 DEF IdFits, Named, Flags
<1>10. /\ Fixlen(s, u, z, i) = Fixlen(s, t, z, i)
       /\ fits => Fixlen(s, u, z, i) = (IF g THEN "none" ELSE "skip")
       /\ ~fits => Fixlen(s, u, z, i) # "none" /\ (Fixlen(s, u, z, i) = "skip" => ~g)
  <2>1. /\ g \in BOOLEAN /\ a \in BOOLEAN /\ i \in BOOLEAN /\ z \in BOOLEAN /\ o \in BOOLEAN /\ v \in BOOLEAN
        /\ m # <<>> => x \in BOOLEAN /\ (z => (v <=> o))
    BY <1>2, <1>3, <1>8, HeldFlag DEF Flags
  <2>2. /\ Fixlen(s, u, z, i) = Then(Then(Then(u, g, "skip"), z, "argument"), i, "argument")
        /\ Fixlen(s, t, z, i) = Then(Then(Then(t, g, "skip"), z, "argument"), i, "argument")
        /\ w0 = Then(Then(Then("none", g, "skip"), a, "argument"), z, "argument")
    BY <1>4, <1>8 DEF Fixlen
  <2>3. CASE m = <<>>
    <3>1. u = w0 /\ t = w0
      BY <1>4, <2>3 DEF Bounded
    <3> QED BY <1>8, <2>1, <2>2, <2>3, <3>1 DEF Then
  <2>4. CASE m # <<>>
    <3>1. u = Then(Then(w0, x, "python"), o, "argument") /\ t = Then(Then(w0, x, "python"), v, "argument")
      BY <1>1, <1>4, <2>4 DEF Bounded
    <3> QED BY <1>8, <2>1, <2>2, <2>4, <3>1 DEF Then
  <2> QED BY <2>3, <2>4
<1>11. Told(s, c, Fixlen(s, u, z, i))
  BY <1>8, <1>9, <1>10, FixlenTold
<1>12. Agree(s, c, (k \o Maxlen(n, m)) \o WriteFixlen(c, Len(c.payload)),
                   (k \o NativeMaxlen(n, m)) \o NativeFixlen(c, Len(c.payload)))
  BY <1>1, <1>5, <1>7, <1>10, <1>11, FixlenAgrees
<1> QED BY <1>1, <1>12 DEF PureBlob, NativeBlob

-----------------------------------------------------------------------------
(* The arrays: a header, a count and the elements.                         *)
LEMMA ArrayHeaderReaches ==
  ASSUME NEW s, IsEncoder(s), NEW c, c.id \in Arg, NEW wt \in 0 .. 7, NEW n \in 0 .. UnsignedMax,
         NEW e \in Engines
  PROVE  \A u \in Stops :
           /\ Reaches(e, s, u, ArrayHeader(c, wt, n), Then(u, Named(c.id), "argument"),
                      EncodeVarint[8 * c.id.n + wt] \o EncodeVarint[n])
           /\ Reaches(e, s, u, NativeArrayHeader(c, wt, n), Then(u, Named(c.id), "argument"),
                      EncodeVarint[8 * c.id.n + wt] \o EncodeVarint[n])
<1>1. PICK id : id = c.id
  OBVIOUS
<1>2. id \in Arg /\ n \in Int
  BY <1>1, WordIs
<1>3. ASSUME NEW u \in Stops
      PROVE  /\ Reaches(e, s, u, Header(id, wt) \o <<Varint(n)>>, Then(u, Named(id), "argument"),
                        EncodeVarint[8 * id.n + wt] \o EncodeVarint[n])
             /\ Reaches(e, s, u, NativeHeader(id, wt) \o <<Varint(n)>>, Then(u, Named(id), "argument"),
                        EncodeVarint[8 * id.n + wt] \o EncodeVarint[n])
  <2>1. PICK w, h : w = Then(u, Named(id), "argument") /\ h = EncodeVarint[8 * id.n + wt]
    OBVIOUS
  <2>2. /\ Reaches(e, s, u, Header(id, wt), Then(u, Named(id), "argument"), EncodeVarint[8 * id.n + wt])
        /\ Reaches(e, s, u, NativeHeader(id, wt), Then(u, Named(id), "argument"),
                   EncodeVarint[8 * id.n + wt])
    BY <1>2, ReachHeader
  <2>3. Reaches(e, s, u, Header(id, wt), w, h) /\ Reaches(e, s, u, NativeHeader(id, wt), w, h)
    BY <2>1, <2>2
  <2>4. /\ Reaches(e, s, u, Header(id, wt) \o <<Varint(n)>>, w, h \o EncodeVarint[n])
        /\ Reaches(e, s, u, NativeHeader(id, wt) \o <<Varint(n)>>, w, h \o EncodeVarint[n])
    BY <1>2, <2>3, ReachVarint
  <2> QED BY <2>1, <2>4
<1>4. ArrayHeader(c, wt, n) = Header(id, wt) \o <<Varint(n)>>
      /\ NativeArrayHeader(c, wt, n) = NativeHeader(id, wt) \o <<Varint(n)>>
  BY <1>1 DEF ArrayHeader, NativeArrayHeader
<1> QED BY <1>1, <1>3, <1>4

(* A list is no longer than its bound says.                                *)
Capped(n, bound) == bound[1].n < 0 \/ n <= bound[1].n

LEMMA CapLeads ==
  ASSUME NEW s, IsEncoder(s), NEW e, NEW n \in 0 .. UnsignedMax, NEW bound, IsBound(bound)
  PROVE  \A u \in Stops : /\ Leads(e, s, u, Cap(n, bound), Bounded(u, bound, Capped(n, bound)))
                          /\ Leads(e, s, u, CheckCap(n, bound), Bounded(u, bound, Capped(n, bound)))
<1> TAKE u \in Stops
<1>1. PICK o, v : o = Capped(n, bound) /\ v = (bound[1].n < 0 \/ ~Over(n, bound[1]))
  OBVIOUS
<1>2. o \in Flags /\ v \in Flags
  BY <1>1 DEF Flags, Capped
<1>3. \A ok \in Flags : Leads(e, s, u, IF bound = <<>> THEN <<>> ELSE <<Check(bound[1].int, "python"), Check(ok, "argument")>>,
                              Bounded(u, bound, ok))
  BY BoundLeads
<1>4. Leads(e, s, u, Cap(n, bound), Bounded(u, bound, o))
  BY <1>1, <1>2, <1>3 DEF Cap, Capped
<1>5. Leads(e, s, u, CheckCap(n, bound), Bounded(u, bound, v))
  BY <1>1, <1>2, <1>3 DEF CheckCap
<1>6. Bounded(u, bound, v) = Bounded(u, bound, o)
  <2>1. ASSUME bound # <<>> PROVE v = o
    <3>1. bound[1].n \in Int
      BY <2>1, BoundIs
    <3>2. UnsignedMax \in Nat
      BY WordIs
    <3>3. v <=> o
      BY <1>1, <3>1, <3>2 DEF Over, Capped
    <3> QED BY <1>2, <3>3 DEF Flags
  <2> QED BY <2>1 DEF Bounded
<1> QED BY <1>1, <1>4, <1>5, <1>6

(* Steps that each write what belongs to them.                             *)
LEMMA TailReaches ==
  ASSUME NEW e, NEW s, IsEncoder(s), NEW n \in Nat, NEW parts \in Seq(Seq(Steps)), NEW bs \in Seq(Seq(Nat)),
         Len(parts) = n, Len(bs) = n,
         \A i \in 1 .. n : \A t : IsEncoder(t) => After(e, t, parts[i]) = Put(t, bs[i])
  PROVE  \A u, p, w, b : Reaches(e, s, u, p, w, b) =>
           Reaches(e, s, u, p \o FlattenSeq(parts), w, b \o FlattenSeq(bs))
<1>1. PICK q, x : q = FlattenSeq(parts) /\ x = FlattenSeq(bs)
  OBVIOUS
<1>2. q \in Seq(Steps)
  <2>1. Upto(parts, n) \in Seq(Steps) /\ Upto(parts, Len(parts)) = FlattenSeq(parts)
    <3>1. n \in 0 .. Len(parts)
      OBVIOUS
    <3>2. \A k \in 0 .. Len(parts) : Upto(parts, k) \in Seq(Steps)
      BY UptoIs
    <3>3. Upto(parts, Len(parts)) = FlattenSeq(parts)
      BY UptoIs
    <3> QED BY <3>1, <3>2, <3>3
  <2> QED BY <1>1, <2>1
<1>3. \A t : IsEncoder(t) => After(e, t, q) = Put(t, x) /\ x \in Seq(Nat)
  BY <1>1, AfterParts
<1>4. ASSUME NEW u, NEW p, NEW w, NEW b, Reaches(e, s, u, p, w, b)
      PROVE  Reaches(e, s, u, p \o q, w, b \o x)
  <2>1. /\ p \in Seq(Steps) /\ u \in Stops /\ w \in Stops /\ (w = "none" => b \in Seq(Nat))
        /\ After(e, Halted(s, u), p) = Written(s, w, b)
    BY <1>4 DEF Reaches
  <2>2. PICK t : t = Written(s, w, b)
    OBVIOUS
  <2>3. IsEncoder(t)
    BY <2>1, <2>2, WrittenIs
  <2>4. After(e, t, q) = Put(t, x) /\ x \in Seq(Nat)
    BY <1>3, <2>3
  <2>5. Put(t, x) = Written(s, w, b \o x) /\ (w = "none" => b \o x \in Seq(Nat))
    BY <2>1, <2>2, <2>4, WrittenMore
  <2>6. p \o q \in Seq(Steps) /\ After(e, Halted(s, u), p \o q) = After(e, After(e, Halted(s, u), p), q)
    BY <1>2, <2>1, StepsJoin
  <2> QED BY <2>1, <2>2, <2>4, <2>5, <2>6 DEF Reaches
<1> QED BY <1>1, <1>4

(* The same of single steps.                                               *)
LEMMA SinglesReach ==
  ASSUME NEW e, NEW s, IsEncoder(s), NEW n \in Nat, NEW tail \in Seq(Steps), NEW bs \in Seq(Seq(Nat)),
         Len(tail) = n, Len(bs) = n,
         \A i \in 1 .. n : \A t : IsEncoder(t) => Do(e, t, tail[i]) = Put(t, bs[i])
  PROVE  \A u, p, w, b : Reaches(e, s, u, p, w, b) =>
           Reaches(e, s, u, p \o tail, w, b \o FlattenSeq(bs))
<1>1. PICK parts : parts = [i \in 1 .. n |-> <<tail[i]>>]
  OBVIOUS
<1>2. parts \in Seq(Seq(Steps)) /\ Len(parts) = n /\ FlattenSeq(parts) = tail
  BY <1>1, FlatSingles, ZenonT(40)
<1>3. \A i \in 1 .. n : \A t : IsEncoder(t) => After(e, t, parts[i]) = Put(t, bs[i])
  <2> TAKE i \in 1 .. n
  <2>1. parts[i] = <<tail[i]>>
    BY <1>1
  <2> QED BY <2>1, AfterOne
<1> QED BY <1>2, <1>3, TailReaches

LEMMA StepWrites ==
  ASSUME NEW e \in Engines, NEW t, IsEncoder(t)
  PROVE  /\ \A x \in Seq(Nat) : Do(e, t, Bytes(x)) = Put(t, x)
         /\ \A v \in 0 .. UnsignedMax : Do(e, t, Varint(v)) = Put(t, EncodeVarint[v])
<1>1. ASSUME NEW x \in Seq(Nat) PROVE Do(e, t, Bytes(x)) = Put(t, x)
  <2>1. PICK c : c = Bytes(x)
    OBVIOUS
  <2>2. c.do = "bytes" /\ c.bytes = x
    BY <2>1, SMTT(40) DEF Bytes
  <2>3. Do(e, t, c) = IF t.stop # "none" THEN t ELSE Put(t, x)
    BY <2>2, Zenon DEF Do
  <2>4. t.stop # "none" => Put(t, x) = t
    BY Zenon DEF Put
  <2> QED BY <2>1, <2>3, <2>4
<1>2. ASSUME NEW v \in 0 .. UnsignedMax PROVE Do(e, t, Varint(v)) = Put(t, EncodeVarint[v])
  <2>1. PICK c : c = Varint(v)
    OBVIOUS
  <2>2. c.do = "varint" /\ c.v = v
    BY <2>1, SMTT(40) DEF Varint
  <2>3. Do(e, t, c) = IF t.stop # "none" THEN t ELSE EmitVarint(e, t, v)
    BY <2>2, Zenon DEF Do
  <2>4. t.stop # "none" => Put(t, EncodeVarint[v]) = t
    BY Zenon DEF Put
  <2>5. EmitVarint(e, t, v) = Put(t, EncodeVarint[v])
    BY EmitIs
  <2> QED BY <2>1, <2>3, <2>4, <2>5
<1> QED BY <1>1, <1>2

(* The writers of arrays of booleans agree.                                *)
LEMMA BoolsWrites ==
  ASSUME NEW s, IsEncoder(s), NEW c, c.id \in Arg, c.elems \in Seq(BOOLEAN), Len(c.elems) <= UnsignedMax,
         IsBound(c.bound), c.op = "bools"
  PROVE  Agree(s, c, PureBools(c), NativeBools(c))
<1>1. PICK n, m, x : n = Len(c.elems) /\ m = c.bound /\ x = [j \in 1 .. n |-> IF c.elems[j] THEN 1 ELSE 0]
  OBVIOUS
<1>2. n \in 0 .. UnsignedMax /\ n \in Nat /\ IsBound(m)
  BY <1>1, WordIs
<1>3. PICK w0, u, w, h, o, i :
        /\ w0 = Then("none", ~Held(s), "skip") /\ o = Capped(n, m) /\ u = Bounded(w0, m, o)
        /\ i = Named(c.id) /\ w = Then(u, i, "argument")
        /\ h = EncodeVarint[8 * c.id.n + 3] \o EncodeVarint[n]
  OBVIOUS
<1>4. w0 \in Stops /\ u \in Stops /\ w \in Stops
  BY <1>3 DEF Bounded, Then, Stops
<1>5. /\ x \in Seq(Nat) /\ Len(x) = n /\ \A j \in 1 .. n : x[j] \in {0, 1}
  BY <1>1, <1>2
<1>6. PICK bs : bs = [j \in 1 .. n |-> <<x[j]>>]
  OBVIOUS
<1>7. bs \in Seq(Seq(Nat)) /\ Len(bs) = n /\ FlattenSeq(bs) = x
  BY <1>2, <1>5, <1>6, FlatSingles
<1>8. ASSUME NEW e \in Engines
      PROVE  Reaches(e, s, "none", PureBools(c), w, h \o x) /\ Reaches(e, s, "none", NativeBools(c), w, h \o x)
  <2>1. PICK p, q, tp, tq :
          /\ p = (<<Gate>> \o Cap(n, m)) \o ArrayHeader(c, 3, n)
          /\ q = (<<Gate>> \o CheckCap(n, m)) \o NativeArrayHeader(c, 3, n)
          /\ tp = [j \in 1 .. n |-> Bytes(bs[j])] /\ tq = [j \in 1 .. n |-> Varint(x[j])]
    OBVIOUS
  <2>2. Leads(e, s, "none", <<Gate>> \o Cap(n, m), u) /\ Leads(e, s, "none", <<Gate>> \o CheckCap(n, m), u)
    <3>1. Leads(e, s, "none", <<Gate>>, w0)
      BY <1>3, GateLeads, StopsAre
    <3>2. Leads(e, s, w0, Cap(n, m), u) /\ Leads(e, s, w0, CheckCap(n, m), u)
      BY <1>2, <1>3, <1>4, CapLeads
    <3> QED BY <3>1, <3>2, LeadBoth
  <2>3. Reaches(e, s, u, ArrayHeader(c, 3, n), w, h) /\ Reaches(e, s, u, NativeArrayHeader(c, 3, n), w, h)
    BY <1>2, <1>3, <1>4, ArrayHeaderReaches
  <2>4. Reaches(e, s, "none", p, w, h) /\ Reaches(e, s, "none", q, w, h)
    BY <2>1, <2>2, <2>3, ReachBoth
  <2>5. /\ tp \in Seq(Steps) /\ Len(tp) = n
        /\ \A j \in 1 .. n : \A t : IsEncoder(t) => Do(e, t, tp[j]) = Put(t, bs[j])
    <3>1. \A j \in 1 .. n : bs[j] \in Seq(Nat)
      BY <1>7
    <3>2. \A j \in 1 .. n : tp[j] = Bytes(bs[j]) /\ tp[j] \in Steps /\ bs[j] \in Seq(Nat)
      BY <2>1, <3>1, StepsAre
    <3>3. tp \in Seq(Steps) /\ Len(tp) = n
      BY <1>2, <2>1, <3>2
    <3> QED BY <3>2, <3>3, StepWrites
  <2>6. /\ tq \in Seq(Steps) /\ Len(tq) = n
        /\ \A j \in 1 .. n : \A t : IsEncoder(t) => Do(e, t, tq[j]) = Put(t, bs[j])
    <3>1. ASSUME NEW j \in 1 .. n
          PROVE  x[j] \in 0 .. UnsignedMax /\ x[j] \in Int /\ bs[j] = EncodeVarint[x[j]]
      <4>1. bs[j] = <<x[j]>> /\ (x[j] = 0 \/ x[j] = 1)
        BY <1>5, <1>6
      <4> QED BY <4>1, BitIs
    <3>2. \A j \in 1 .. n : tq[j] = Varint(x[j]) /\ tq[j] \in Steps
      BY <2>1, <3>1, StepsAre
    <3>3. tq \in Seq(Steps) /\ Len(tq) = n
      BY <1>2, <2>1, <3>2
    <3> QED BY <3>1, <3>2, <3>3, StepWrites
  <2>7. Reaches(e, s, "none", p \o tp, w, h \o x)
    BY <1>2, <1>7, <2>4, <2>5, SinglesReach
  <2>8. Reaches(e, s, "none", q \o tq, w, h \o x)
    BY <1>2, <1>7, <2>4, <2>6, SinglesReach
  <2>9. PureBools(c) = p \o tp /\ NativeBools(c) = q \o tq
    <3>1. DOMAIN c.elems = 1 .. n
      BY <1>1
    <3>2. \A j \in 1 .. n : x[j] = IF c.elems[j] THEN 1 ELSE 0
      BY <1>1
    <3>3. tp = [j \in DOMAIN c.elems |-> Bytes(<<IF c.elems[j] THEN 1 ELSE 0>>)]
      BY <1>6, <2>1, <3>1, <3>2
    <3>4. tq = [j \in DOMAIN c.elems |-> Varint(IF c.elems[j] THEN 1 ELSE 0)]
      BY <2>1, <3>1, <3>2
    <3> QED BY <1>1, <2>1, <3>3, <3>4 DEF PureBools, NativeBools, ArrayType, WireType
  <2> QED BY <2>7, <2>8, <2>9
<1>9. h \o x = FieldBytes(c)
  <2>1. x = [j \in DOMAIN c.elems |-> IF c.elems[j] THEN 1 ELSE 0]
    BY <1>1
  <2>2. ArrayType.unsigned = 3
    BY DEF ArrayType
  <2>3. FieldBytes(c) = (Framed(c, 3) \o EncodeVarint[n]) \o x
    BY <1>1, <2>1, <2>2, Zenon DEF FieldBytes
  <2> QED BY <1>3, <2>3 DEF Framed
<1>10. Told(s, c, w)
  <2>1. PICK g, k, fits : g = ~Held(s) /\ k = m[1].int /\ fits = (i /\ (m # <<>> => k /\ o))
    BY SMTT(40)
  <2>2. HeaderFits(c) = fits /\ fits \in Flags
    BY <1>1, <1>3, <2>1 DEF HeaderFits, IdFits, CountFits, Capped, Named, Flags
  <2>3. g \in BOOLEAN /\ i \in BOOLEAN /\ o \in BOOLEAN /\ (m # <<>> => k \in BOOLEAN)
    BY <1>2, <1>3, <2>1, HeldFlag, NamedFlag, BoundIs DEF Flags, Capped
  <2>4. (fits => w = (IF g THEN "none" ELSE "skip")) /\ (~fits => w # "none" /\ (w = "skip" => ~g))
    <3>1. w0 = Then("none", g, "skip")
      BY <1>3, <2>1
    <3>2. u = IF m = <<>> THEN w0 ELSE Then(Then(w0, k, "python"), o, "argument")
      BY <1>3, <2>1 DEF Bounded
    <3> QED BY <1>3, <2>1, <2>3, <3>1, <3>2 DEF Then
  <2> QED BY <2>1, <2>2, <2>4, FixlenTold
<1> QED BY <1>4, <1>8, <1>9, <1>10, AgreeIs

LEMMA FloatWord == 8 * FloatSize + SubType.float = 16 /\ 8 * FloatSize = 16 /\ 16 \in 0 .. UnsignedMax /\ 16 \in Int
  BY FloatAssumption, WordAssumption, WordIs DEF FloatSize, SubType

LEMMA FlatIs == \A bs \in Seq(Seq(Nat)) : FlattenSeq(bs) \in Seq(Nat)
<1> TAKE bs \in Seq(Seq(Nat))
<1>1. <<>> \in Seq(Nat)
  OBVIOUS
<1> QED BY <1>1, FlatAppend

(* The writers of arrays of floats agree, of floats and of bits.           *)
LEMMA FloatsWrites ==
  ASSUME NEW s, IsEncoder(s), NEW c, c.id \in Arg, c.elems \in Seq(Seq(Nat)), Len(c.elems) <= UnsignedMax,
         c.ok \in BOOLEAN, IsBound(c.bound), c.op = "floats"
  PROVE  Agree(s, c, PureFloats(c), NativeFloats(c))
<1>1. PICK n, m, x, bs, a : /\ n = Len(c.elems) /\ m = c.bound /\ bs = c.elems /\ x = FlattenSeq(bs) /\ a = c.ok
  OBVIOUS
<1>2. n \in 0 .. UnsignedMax /\ n \in Nat /\ IsBound(m) /\ bs \in Seq(Seq(Nat)) /\ Len(bs) = n /\ x \in Seq(Nat)
      /\ a \in Flags
  BY <1>1, WordIs, FlatIs DEF Flags
<1>3. PICK w0, u, w, h, o, i, y :
        /\ w0 = Then(Then("none", ~Held(s), "skip"), a, "python") /\ o = Capped(n, m) /\ u = Bounded(w0, m, o)
        /\ i = Named(c.id) /\ w = Then(u, i, "argument")
        /\ h = EncodeVarint[8 * c.id.n + 5] \o EncodeVarint[n] /\ y = h \o EncodeVarint[16]
  OBVIOUS
<1>4. w0 \in Stops /\ u \in Stops /\ w \in Stops
  BY <1>3 DEF Bounded, Then, Stops
<1>5. ASSUME NEW e \in Engines
      PROVE  Reaches(e, s, "none", PureFloats(c), w, y \o x) /\ Reaches(e, s, "none", NativeFloats(c), w, y \o x)
  <2>1. PICK k, p, q, tq :
          /\ k = <<Gate, Check(a, "python")>>
          /\ p = (k \o Cap(n, m)) \o ArrayHeader(c, 5, n)
          /\ q = (k \o CheckCap(n, m)) \o NativeArrayHeader(c, 5, n)
          /\ tq = [j \in 1 .. n |-> Bytes(bs[j])]
    OBVIOUS
  <2>2. Leads(e, s, "none", k \o Cap(n, m), u) /\ Leads(e, s, "none", k \o CheckCap(n, m), u)
    <3>1. Leads(e, s, "none", k, w0)
      <4>1. "python" \in Refusals /\ "none" \in Stops
        BY DEF Refusals, Stops
      <4> QED BY <1>2, <1>3, <2>1, <4>1, GateCheckLeads
    <3>2. Leads(e, s, w0, Cap(n, m), u) /\ Leads(e, s, w0, CheckCap(n, m), u)
      BY <1>2, <1>3, <1>4, CapLeads
    <3> QED BY <3>1, <3>2, LeadBoth
  <2>3. Reaches(e, s, u, ArrayHeader(c, 5, n), w, h) /\ Reaches(e, s, u, NativeArrayHeader(c, 5, n), w, h)
    BY <1>2, <1>3, <1>4, ArrayHeaderReaches
  <2>4. Reaches(e, s, "none", p, w, h) /\ Reaches(e, s, "none", q, w, h)
    BY <2>1, <2>2, <2>3, ReachBoth
  <2>5. Reaches(e, s, "none", p \o <<Varint(16), Bytes(x)>>, w, y \o x)
    BY <1>2, <1>3, <2>4, FloatWord, ReachPayload
  <2>6. Reaches(e, s, "none", q \o <<Varint(16)>>, w, y)
    BY <1>3, <2>4, FloatWord, ReachVarint
  <2>7. /\ tq \in Seq(Steps) /\ Len(tq) = n
        /\ \A j \in 1 .. n : \A t : IsEncoder(t) => Do(e, t, tq[j]) = Put(t, bs[j])
    <3>1. \A j \in 1 .. n : bs[j] \in Seq(Nat)
      BY <1>2
    <3>2. \A j \in 1 .. n : tq[j] = Bytes(bs[j]) /\ tq[j] \in Steps
      BY <2>1, <3>1, StepsAre
    <3>3. tq \in Seq(Steps) /\ Len(tq) = n
      BY <1>2, <2>1, <3>2
    <3> QED BY <3>1, <3>2, <3>3, StepWrites
  <2>8. Reaches(e, s, "none", (q \o <<Varint(16)>>) \o tq, w, y \o x)
    BY <1>1, <1>2, <2>6, <2>7, SinglesReach
  <2>9. PureFloats(c) = p \o <<Varint(16), Bytes(x)>>
    BY <1>1, <2>1, FloatWord DEF PureFloats, ArrayType
  <2>10. NativeFloats(c) = (q \o <<Varint(16)>>) \o tq
    <3>1. tq = [j \in DOMAIN c.elems |-> Bytes(c.elems[j])]
      BY <1>1, <2>1, SMTT(40)
    <3> QED BY <1>1, <2>1, <3>1, FloatWord DEF NativeFloats, ArrayType
  <2> QED BY <2>5, <2>8, <2>9, <2>10
<1>6. y \o x = FieldBytes(c)
  <2>1. ArrayType.fixlen = 5
    BY DEF ArrayType
  <2>2. FieldBytes(c) = ((Framed(c, 5) \o EncodeVarint[n]) \o EncodeVarint[8 * FloatSize]) \o x
    BY <1>1, <2>1, Zenon DEF FieldBytes
  <2> QED BY <1>3, <2>2, FloatWord DEF Framed
<1>7. Told(s, c, w)
  <2>1. PICK g, k, fits : g = ~Held(s) /\ k = m[1].int /\ fits = (i /\ (m # <<>> => k /\ o) /\ a)
    BY SMTT(40)
  <2>2. HeaderFits(c) = fits /\ fits \in Flags
    BY <1>1, <1>3, <2>1, ZenonT(40) DEF HeaderFits, IdFits, CountFits, Capped, Named, Flags
  <2>3. g \in BOOLEAN /\ i \in BOOLEAN /\ o \in BOOLEAN /\ a \in BOOLEAN /\ (m # <<>> => k \in BOOLEAN)
    BY <1>2, <1>3, <2>1, HeldFlag, NamedFlag, BoundIs DEF Flags, Capped
  <2>4. (fits => w = (IF g THEN "none" ELSE "skip")) /\ (~fits => w # "none" /\ (w = "skip" => ~g))
    <3>1. w0 = Then(Then("none", g, "skip"), a, "python")
      BY <1>3, <2>1
    <3>2. u = IF m = <<>> THEN w0 ELSE Then(Then(w0, k, "python"), o, "argument")
      BY <1>3, <2>1 DEF Bounded
    <3> QED BY <1>3, <2>1, <2>3, <3>1, <3>2 DEF Then
  <2> QED BY <2>1, <2>2, <2>4, FixlenTold
<1> QED BY <1>4, <1>5, <1>6, <1>7, AgreeIs

(* A list of five steps is its first three followed by its last two.       *)
LEMMA FiveSplit ==
  ASSUME NEW S, NEW x1 \in S, NEW x2 \in S, NEW x3 \in S, NEW x4 \in S, NEW x5 \in S
  PROVE  <<x1, x2, x3>> \o <<x4, x5>> = <<x1, x2, x3, x4, x5>>
<1>1. PICK k, l, m : /\ k = <<x1, x2, x3>> /\ l = <<x4, x5>>
                     /\ m = <<x1, x2, x3, x4, x5>>
  OBVIOUS
<1>2. k \in Seq(S) /\ l \in Seq(S) /\ m \in Seq(S) /\ Len(k) = 3 /\ Len(l) = 2 /\ Len(m) = 5
  BY <1>1
<1>3. k \o l \in Seq(S) /\ Len(k \o l) = Len(k) + Len(l)
      /\ \A i \in 1 .. Len(k) + Len(l) : (k \o l)[i] = IF i <= Len(k) THEN k[i] ELSE l[i - Len(k)]
  BY <1>2, ConcatProperties
<1>4. \A i \in 1 .. 5 : (k \o l)[i] = m[i]
  <2>1. k[1] = x1 /\ k[2] = x2 /\ k[3] = x3
    BY <1>1
  <2>2. l[1] = x4 /\ l[2] = x5
    BY <1>1
  <2>3. m[1] = x1 /\ m[2] = x2 /\ m[3] = x3 /\ m[4] = x4 /\ m[5] = x5
    BY <1>1
  <2>4. \A i \in 1 .. 5 : (k \o l)[i] = IF i <= 3 THEN k[i] ELSE l[i - 3]
    <3>1. PICK f : f = k \o l
      OBVIOUS
    <3>2. PICK g, h : g = Len(k) /\ h = Len(l)
      OBVIOUS
    <3>3. \A i \in 1 .. g + h : f[i] = IF i <= g THEN k[i] ELSE l[i - g]
      BY <1>3, <3>1, <3>2
    <3>4. \A i \in 1 .. 5 : f[i] = IF i <= 3 THEN k[i] ELSE l[i - 3]
      BY <1>2, <3>2, <3>3
    <3> QED BY <3>1, <3>4
  <2>5. (k \o l)[1] = m[1] /\ (k \o l)[2] = m[2] /\ (k \o l)[3] = m[3]
        /\ (k \o l)[4] = m[4] /\ (k \o l)[5] = m[5]
    <3>1. PICK f : f = k \o l
      OBVIOUS
    <3>2. \A i \in 1 .. 5 : f[i] = IF i <= 3 THEN k[i] ELSE l[i - 3]
      BY <2>4, <3>1
    <3>3. f[1] = k[1] /\ f[2] = k[2] /\ f[3] = k[3] /\ f[4] = l[1] /\ f[5] = l[2]
      BY <3>2
    <3> QED BY <2>1, <2>2, <2>3, <3>1, <3>3
  <2>6. \A i \in 1 .. 5 : i \in {1, 2, 3, 4, 5}
    OBVIOUS
  <2> QED BY <2>5, <2>6, Zenon
<1>5. Len(k \o l) = Len(m) /\ \A i \in 1 .. Len(k \o l) : (k \o l)[i] = m[i]
  <2>1. Len(k \o l) = 5 /\ Len(m) = 5
    BY <1>2, <1>3
  <2> QED BY <1>4, <2>1
<1>6. k \o l = m
  BY <1>2, <1>3, <1>5, SeqEqual
<1> QED BY <1>1, <1>6

LEMMA FloatsBitsWrites ==
  ASSUME NEW s, IsEncoder(s), NEW c, c.id \in Arg, c.payload \in Seq(Nat), Len(c.payload) <= UnsignedMax,
         c.ok \in BOOLEAN, c.count \in Seq(Int), Len(c.count) <= 1, Converts(c.count),
         c.op = "floatsBits"
  PROVE  Agree(s, c, PureFloatsBits(c), NativeFloatsBits(c))
<1>1. PICK l, n, x, a, d, o : /\ l = Len(c.payload) /\ n = l \div FloatSize /\ x = c.payload /\ a = c.ok
        /\ d = (l % FloatSize = 0) /\ o = (c.count = <<>> \/ c.count = <<n>>)
  OBVIOUS
<1>2. /\ n \in 0 .. UnsignedMax /\ x \in Seq(Nat) /\ a \in Flags /\ d \in Flags /\ o \in Flags
      /\ d => (o <=> (c.count # <<>> => c.count[1] * FloatSize = l))
  <2>1. l \in Nat /\ l <= UnsignedMax /\ UnsignedMax \in Nat /\ n = l \div 2
    BY <1>1, WordIs DEF FloatSize
  <2>2. n \in 0 .. UnsignedMax /\ (d => 2 * n = l)
    <3>1. d => l % 2 = 0
      BY <1>1 DEF FloatSize
    <3>2. PICK m : m = UnsignedMax
      OBVIOUS
    <3>3. n \in 0 .. m
      BY <2>1, <3>2
    <3>4. l % 2 = 0 => 2 * n = l
      BY <2>1
    <3> QED BY <3>1, <3>2, <3>3, <3>4
  <2>3. d => (o <=> (c.count # <<>> => c.count[1] * FloatSize = l))
    <3>1. CASE c.count = <<>>
      BY <1>1, <3>1
    <3>2. CASE c.count # <<>>
      <4>1. PICK k, r : k = c.count /\ r = c.count[1]
        OBVIOUS
      <4>2. k \in Seq(Int) /\ Len(k) = 1 /\ r = k[1] /\ r \in Int
        <5>1. k \in Seq(Int) /\ Len(k) <= 1 /\ k # <<>> /\ r = k[1]
          BY <3>2, <4>1
        <5>2. PICK z : z = Len(k)
          OBVIOUS
        <5>4. z # 0 /\ z \in Nat /\ z <= 1
          BY <5>1, <5>2, EmptySeq
        <5>3. Len(k) = 1
          BY <5>2, <5>4
        <5> QED BY <5>1, <5>3
      <4>3. k = <<n>> <=> r = n
        BY <2>2, <4>2
      <4>4. r * FloatSize = 2 * r
        BY <4>2 DEF FloatSize
      <4>5. o <=> r = n
        BY <1>1, <3>2, <4>1, <4>3
      <4>6. d => (r = n <=> 2 * r = l)
        <5>1. n \in Nat /\ l \in Nat /\ r \in Int
          BY <2>1, <2>2, <4>2
        <5>2. 2 * n = l => (r = n <=> 2 * r = l)
          BY <5>1
        <5> QED BY <2>2, <5>2
      <4> QED BY <3>2, <4>1, <4>4, <4>5, <4>6
    <3> QED BY <3>1, <3>2
  <2> QED BY <1>1, <2>2, <2>3 DEF Flags
<1>3. PICK w3, w, h, i, y :
        /\ w3 = Then(Then(Then(Then("none", ~Held(s), "skip"), a, "python"), d, "argument"), o, "argument")
        /\ i = Named(c.id) /\ w = Then(w3, i, "argument")
        /\ h = EncodeVarint[8 * c.id.n + 5] \o EncodeVarint[n] /\ y = h \o EncodeVarint[16]
  OBVIOUS
<1>4. w3 \in Stops /\ w \in Stops
  BY <1>3 DEF Then, Stops
<1>5. ASSUME NEW e \in Engines
      PROVE  Reaches(e, s, "none", PureFloatsBits(c), w, y \o x) /\ Reaches(e, s, "none", NativeFloatsBits(c), w, y \o x)
  <2>1. PICK k, m, p, q :
          /\ k = <<Gate, Check(a, "python"), Check(d, "argument"), Check(o, "argument")>>
          /\ m = <<Gate, Check(a, "python"), Check(d, "argument"), Check(TRUE, "python"),
                   Check(o, "argument")>>
          /\ p = k \o ArrayHeader(c, 5, n) /\ q = m \o NativeArrayHeader(c, 5, n)
    OBVIOUS
  <2>2. Leads(e, s, "none", k, w3)
    <3>1. "python" \in Refusals /\ "argument" \in Refusals /\ "none" \in Stops
      BY DEF Refusals, Stops
    <3> QED BY <1>2, <1>3, <2>1, <3>1, GateThreeLead
  <2>10. Leads(e, s, "none", m, w3)
    <3>1. "python" \in Refusals /\ "argument" \in Refusals /\ "none" \in Stops /\ TRUE \in Flags
      BY DEF Refusals, Stops, Flags
    <3>2. PICK w2 : w2 = Then(Then(Then("none", ~Held(s), "skip"), a, "python"), d, "argument")
      OBVIOUS
    <3>3. PICK k1, k2 : /\ k1 = <<Gate, Check(a, "python"), Check(d, "argument")>>
                        /\ k2 = <<Check(TRUE, "python"), Check(o, "argument")>>
      OBVIOUS
    <3>4. Leads(e, s, "none", k1, w2)
      BY <1>2, <3>1, <3>2, <3>3, GateTwoLead
    <3>5. w2 \in Stops
      BY <3>4 DEF Leads
    <3>6. Leads(e, s, w2, k2, Then(Then(w2, TRUE, "python"), o, "argument"))
      BY <1>2, <3>1, <3>3, <3>5, ChecksLead
    <3>7. Then(Then(w2, TRUE, "python"), o, "argument") = w3
      BY <1>3, <3>2 DEF Then
    <3>8. k1 \o k2 = m
      <4>1. PICK x1, x2, x3, x4, x5 :
              /\ x1 = Gate /\ x2 = Check(a, "python") /\ x3 = Check(d, "argument")
              /\ x4 = Check(TRUE, "python") /\ x5 = Check(o, "argument")
        OBVIOUS
      <4>2. x1 \in Checks /\ x2 \in Checks /\ x3 \in Checks /\ x4 \in Checks /\ x5 \in Checks
        BY <1>2, <3>1, <4>1, ChecksAre
      <4>3. <<x1, x2, x3>> \o <<x4, x5>> = <<x1, x2, x3, x4, x5>>
        BY <4>2, FiveSplit
      <4>4. k1 = <<x1, x2, x3>> /\ k2 = <<x4, x5>> /\ m = <<x1, x2, x3, x4, x5>>
        BY <2>1, <3>3, <4>1, Zenon
      <4> QED BY <4>3, <4>4, Zenon
    <3> QED BY <3>4, <3>6, <3>7, <3>8, LeadBoth
  <2>3. Reaches(e, s, w3, ArrayHeader(c, 5, n), w, h) /\ Reaches(e, s, w3, NativeArrayHeader(c, 5, n), w, h)
    BY <1>2, <1>3, <1>4, ArrayHeaderReaches
  <2>4. Reaches(e, s, "none", p, w, h) /\ Reaches(e, s, "none", q, w, h)
    BY <2>1, <2>2, <2>3, <2>10, ReachBoth
  <2>5. Reaches(e, s, "none", p \o <<Varint(16), Bytes(x)>>, w, y \o x)
    BY <1>2, <1>3, <2>4, FloatWord, ReachPayload, ZenonT(40)
  <2>6. Reaches(e, s, "none", q \o <<Varint(16)>>, w, y)
    BY <1>3, <2>4, FloatWord, ReachVarint
  <2>7. Reaches(e, s, "none", (q \o <<Varint(16)>>) \o (IF x = <<>> THEN <<>> ELSE <<Bytes(x)>>), w, y \o x)
    <3>1. CASE x # <<>>
      BY <1>2, <2>6, <3>1, ReachBytes
    <3>2. CASE x = <<>>
      <4>1. PICK t : t = q \o <<Varint(16)>>
        OBVIOUS
      <4>2. t \in Seq(Steps) /\ (w = "none" => y \in Seq(Nat))
        BY <2>6, <4>1 DEF Reaches
      <4>3. t \o <<>> = t /\ (w = "none" => y \o <<>> = y)
        BY <4>2, ConcatEmptySeq
      <4>4. Reaches(e, s, "none", t, w, y \o x)
        BY <2>6, <3>2, <4>1, <4>3, ReachSame
      <4> QED BY <3>2, <4>1, <4>3, <4>4
    <3> QED BY <3>1, <3>2
  <2>8. PureFloatsBits(c) = p \o <<Varint(16), Bytes(x)>>
    BY <1>1, <2>1, FloatWord DEF PureFloatsBits, ArrayType
  <2>9. NativeFloatsBits(c) = (q \o <<Varint(16)>>) \o (IF x = <<>> THEN <<>> ELSE <<Bytes(x)>>)
    <3>1. Converts(c.count) = TRUE
      BY DEF Converts
    <3> QED BY <1>1, <2>1, <3>1, FloatWord DEF NativeFloatsBits, ArrayType
  <2> QED BY <2>5, <2>7, <2>8, <2>9
<1>6. y \o x = FieldBytes(c)
  <2>1. ArrayType.fixlen = 5
    BY DEF ArrayType
  <2>2. FieldBytes(c) = ((Framed(c, 5) \o EncodeVarint[n]) \o EncodeVarint[8 * FloatSize]) \o x
    BY <1>1, <2>1, Zenon DEF FieldBytes
  <2> QED BY <1>3, <2>2, FloatWord DEF Framed
<1>7. Told(s, c, w)
  <2>1. PICK g, fits : g = ~Held(s) /\ fits = (i /\ a /\ d /\ o)
    BY SMTT(40)
  <2>2. HeaderFits(c) <=> (i /\ a /\ d /\ (c.count # <<>> => c.count[1] * FloatSize = l))
    BY <1>1, <1>3, ZenonT(40) DEF HeaderFits, IdFits, Named
  <2>3. g \in BOOLEAN /\ i \in BOOLEAN /\ o \in BOOLEAN /\ a \in BOOLEAN /\ d \in BOOLEAN
    BY <1>2, <1>3, <2>1, HeldFlag, NamedFlag DEF Flags
  <2>4. (fits => w = (IF g THEN "none" ELSE "skip")) /\ (~fits => w # "none" /\ (w = "skip" => ~g))
    <3>1. w3 = Then(Then(Then(Then("none", g, "skip"), a, "python"), d, "argument"), o, "argument")
      BY <1>3, <2>1
    <3> QED BY <1>3, <2>1, <2>3, <3>1 DEF Then
  <2>5. HeaderFits(c) = fits /\ fits \in Flags
    <3>1. HeaderFits(c) <=> fits
      BY <1>2, <2>1, <2>2, <2>3
    <3>2. HeaderFits(c) \in BOOLEAN
      BY DEF HeaderFits, IdFits
    <3> QED BY <2>1, <2>3, <3>1, <3>2 DEF Flags
  <2> QED BY <2>1, <2>4, <2>5, FixlenTold
<1> QED BY <1>4, <1>5, <1>6, <1>7, AgreeIs

-----------------------------------------------------------------------------
(* One element of a typed array, in either engine.                         *)
Latchable == {"none", "argument", "buffer"}

LEMMA ElemIs ==
  ASSUME NEW e \in Engines, NEW t, IsEncoder(t), NEW a \in Flags, NEW f \in Flags, NEW r \in Int,
         a /\ f => r \in 0 .. UnsignedMax
  PROVE  LET q == <<Check(a, "argument"), Check(f, "argument"), Varint(r)>> IN
         /\ q \in Seq(Steps)
         /\ a /\ f => After(e, t, q) = Put(t, EncodeVarint[r]) /\ EncodeVarint[r] \in Seq(Nat)
         /\ ~(a /\ f) => After(e, t, q) = Halted(t, Then(t.stop, FALSE, "argument"))
<1>1. PICK q, w : q = <<Check(a, "argument"), Check(f, "argument"), Varint(r)>>
                  /\ w = Then(Then(t.stop, a, "argument"), f, "argument")
  OBVIOUS
<1>2. q \in Seq(Steps)
  <2>1. Check(a, "argument") \in Steps /\ Check(f, "argument") \in Steps /\ Varint(r) \in Steps
    BY StepsAre
  <2> QED BY <1>1, <2>1
<1>3. t.stop \in Stops /\ Halted(t, t.stop) = t /\ Then(t.stop, a, "argument") \in Stops /\ w \in Stops
  <2>1. t.stop \in Stops
    BY EncoderIs
  <2>2. Halted(t, t.stop) = t
    BY <2>1, HaltedIs
  <2>3. Then(t.stop, a, "argument") \in Stops /\ w \in Stops
    BY <1>1, <2>1 DEF Then, Stops
  <2> QED BY <2>1, <2>2, <2>3
<1>4. After(e, t, q) = Do(e, Halted(t, w), Varint(r))
  <2>1. After(e, t, q) = Do(e, Do(e, Do(e, t, Check(a, "argument")), Check(f, "argument")), Varint(r))
    BY <1>1, AfterThree
  <2>2. Do(e, t, Check(a, "argument")) = Halted(t, Then(t.stop, a, "argument"))
    <3>1. Do(e, Halted(t, t.stop), Check(a, "argument")) = Halted(t, Then(t.stop, a, "argument"))
      BY <1>3, DoCheck
    <3> QED BY <1>3, <3>1
  <2>3. Do(e, Halted(t, Then(t.stop, a, "argument")), Check(f, "argument")) = Halted(t, w)
    BY <1>1, <1>3, DoCheck
  <2> QED BY <2>1, <2>2, <2>3
<1>5. a \in BOOLEAN /\ f \in BOOLEAN
  BY DEF Flags
<1>6. ASSUME a, f PROVE After(e, t, q) = Put(t, EncodeVarint[r]) /\ EncodeVarint[r] \in Seq(Nat)
  <2>1. w = t.stop
    BY <1>1, <1>6 DEF Then
  <2>2. Do(e, t, Varint(r)) = Put(t, EncodeVarint[r])
    BY <1>6, StepWrites
  <2>3. EncodeVarint[r] \in Seq(Nat)
    BY <1>6, EmitIs
  <2> QED BY <1>3, <1>4, <2>1, <2>2, <2>3
<1>7. ASSUME ~(a /\ f) PROVE After(e, t, q) = Halted(t, Then(t.stop, FALSE, "argument"))
  <2>1. w = Then(t.stop, FALSE, "argument") /\ w # "none"
    BY <1>1, <1>5, <1>7 DEF Then
  <2>2. PICK y : y = Halted(t, w)
    OBVIOUS
  <2>3. y.stop # "none"
    BY <1>3, <2>1, <2>2, HaltedIs
  <2>4. Do(e, y, Varint(r)) = y
    BY <2>3, Zenon DEF Do
  <2> QED BY <1>4, <2>1, <2>2, <2>4
<1> QED BY <1>1, <1>2, <1>6, <1>7

(* Two lists of parts that do the same, one of which stops the call.       *)
LEMMA AfterAlike ==
  ASSUME NEW ps \in Seq(Seq(Steps)), NEW qs \in Seq(Seq(Steps)), NEW n \in Nat, Len(ps) = n, Len(qs) = n,
         NEW j \in 1 .. n,
         \A i \in 1 .. n : \A t : IsEncoder(t) =>
           /\ After("pure", t, ps[i]) = After("native", t, qs[i]) /\ IsEncoder(After("pure", t, ps[i]))
           /\ t.stop \in Latchable => After("pure", t, ps[i]).stop \in Latchable
           /\ t.stop # "none" \/ i = j => After("pure", t, ps[i]).stop # "none",
         NEW s, IsEncoder(s)
  PROVE  /\ After("pure", s, FlattenSeq(ps)) = After("native", s, FlattenSeq(qs))
         /\ IsEncoder(After("pure", s, FlattenSeq(ps)))
         /\ s.stop \in Latchable => After("pure", s, FlattenSeq(ps)).stop \in Latchable
         /\ After("pure", s, FlattenSeq(ps)).stop # "none"
<1> DEFINE Fine(k) == /\ After("pure", s, Upto(ps, k)) = After("native", s, Upto(qs, k))
                      /\ IsEncoder(After("pure", s, Upto(ps, k)))
                      /\ s.stop \in Latchable => After("pure", s, Upto(ps, k)).stop \in Latchable
                      /\ k >= j => After("pure", s, Upto(ps, k)).stop # "none"
           Wrong == {k \in 0 .. n : ~Fine(k)}
<1>1. Wrong = {}
  <2> SUFFICES ASSUME Wrong # {} PROVE FALSE
    OBVIOUS
  <2>1. PICK k \in Wrong : \A m \in Wrong : k <= m
    <3>1. Wrong \subseteq Nat
      OBVIOUS
    <3> HIDE DEF Wrong
    <3> QED BY <3>1, LeastOf
  <2>2. k \in 0 .. n /\ ~Fine(k)
    OBVIOUS
  <2>3. k # 0
    <3>1. Upto(ps, 0) = <<>> /\ Upto(qs, 0) = <<>>
      BY UptoIs
    <3>2. After("pure", s, <<>>) = s /\ After("native", s, <<>>) = s
      BY AfterNone
    <3>3. Fine(0)
      BY <3>1, <3>2
    <3> QED BY <2>2, <3>3
  <2>4. k - 1 \in 0 .. n /\ ~(k <= k - 1) /\ k \in 1 .. n
    BY <2>2, <2>3
  <2>5. Fine(k - 1)
    <3>1. k - 1 \notin Wrong
      BY <2>1, <2>4
    <3> QED BY <2>4, <3>1
  <2>6. PICK a, p, b, q : a = Upto(ps, k - 1) /\ p = ps[k] /\ b = Upto(qs, k - 1) /\ q = qs[k]
    OBVIOUS
  <2>7. a \in Seq(Steps) /\ p \in Seq(Steps) /\ Upto(ps, k) = a \o p
    <3>1. a \in Seq(Steps)
      BY <2>4, <2>6, UptoIs
    <3>2. Upto(ps, k) = a \o p
      BY <2>4, <2>6, UptoIs
    <3>3. p \in Seq(Steps)
      BY <2>4, <2>6
    <3> QED BY <3>1, <3>2, <3>3
  <2>8. b \in Seq(Steps) /\ q \in Seq(Steps) /\ Upto(qs, k) = b \o q
    <3>1. b \in Seq(Steps)
      BY <2>4, <2>6, UptoIs
    <3>2. Upto(qs, k) = b \o q
      BY <2>4, <2>6, UptoIs
    <3>3. q \in Seq(Steps)
      BY <2>4, <2>6
    <3> QED BY <3>1, <3>2, <3>3
  <2>9. PICK t : t = After("pure", s, a)
    OBVIOUS
  <2>10. t = After("native", s, b) /\ IsEncoder(t) /\ (s.stop \in Latchable => t.stop \in Latchable)
         /\ (k - 1 >= j => t.stop # "none")
    BY <2>5, <2>6, <2>9
  <2>11. After("pure", s, Upto(ps, k)) = After("pure", t, p) /\ After("native", s, Upto(qs, k)) = After("native", t, q)
    BY <2>7, <2>8, <2>9, <2>10, StepsJoin
  <2>12. /\ After("pure", t, p) = After("native", t, q) /\ IsEncoder(After("pure", t, p))
         /\ t.stop \in Latchable => After("pure", t, p).stop \in Latchable
         /\ t.stop # "none" \/ k = j => After("pure", t, p).stop # "none"
    BY <2>4, <2>6, <2>10
  <2>13. k >= j => k - 1 >= j \/ k = j
    BY <2>4
  <2> QED BY <2>2, <2>10, <2>11, <2>12, <2>13
<1>2. Fine(n)
  <2>1. n \in 0 .. n
    OBVIOUS
  <2> QED BY <1>1, <2>1
<1>3. Upto(ps, Len(ps)) = FlattenSeq(ps) /\ Upto(qs, Len(qs)) = FlattenSeq(qs)
  <2>1. Upto(ps, Len(ps)) = FlattenSeq(ps)
    BY UptoIs
  <2>2. Upto(qs, Len(qs)) = FlattenSeq(qs)
    BY UptoIs
  <2> QED BY <2>1, <2>2
<1>4. n >= j
  OBVIOUS
<1> QED BY <1>2, <1>3, <1>4

(* The calls of the typed array writers.                                   *)
IsArray(c) ==
  /\ c.op = "array" /\ c.id \in Arg /\ c.kind \in {"unsigned", "signed"} /\ c.width \in {"wide", "narrow"}
  /\ c.elems \in Seq(Arg) /\ Len(c.elems) <= UnsignedMax /\ IsBound(c.bound)

PureHead(c) ==
  LET bound == IF c.bound = <<>> THEN <<[int |-> TRUE, n |-> -1]>> ELSE c.bound
  IN CapOf(bound) \o <<Gate>> \o Cap(Len(c.elems), bound)
     \o ArrayHeader(c, ArrayType[c.kind], Len(c.elems))
NativeHead(c) ==
  (IF c.bound = <<>> THEN <<Gate>>
   ELSE CapOf(c.bound)
        \o <<Gate, Check(c.bound[1].n < 0 \/ Len(c.elems) <= c.bound[1].n, "argument")>>)
  \o NativeArrayHeader(c, ArrayType[c.kind], Len(c.elems))
(* What goes out before the elements.                                      *)
HeadBytes(c) == EncodeVarint[8 * c.id.n + ArrayType[c.kind]] \o EncodeVarint[Len(c.elems)]

LEMMA ArrayHead ==
  ASSUME NEW s, IsEncoder(s), NEW c, IsArray(c)
  PROVE  \E w \in Stops : /\ Told(s, c, w)
                          /\ \A e \in Engines : /\ Reaches(e, s, "none", PureHead(c), w, HeadBytes(c))
                                                /\ Reaches(e, s, "none", NativeHead(c), w, HeadBytes(c))
<1>1. PICK n, m, b, wt, i, h :
        /\ n = Len(c.elems) /\ m = c.bound /\ b = (IF m = <<>> THEN <<[int |-> TRUE, n |-> -1]>> ELSE m)
        /\ wt = ArrayType[c.kind] /\ i = Named(c.id) /\ h = HeadBytes(c)
  OBVIOUS
<1>2. /\ n \in 0 .. UnsignedMax /\ n \in Nat /\ IsBound(m) /\ wt \in 0 .. 7 /\ i \in Flags /\ c.id \in Arg
      /\ h = EncodeVarint[8 * c.id.n + wt] \o EncodeVarint[n]
  <2>1. /\ c.elems \in Seq(Arg) /\ n <= UnsignedMax /\ UnsignedMax \in Nat /\ IsBound(m) /\ c.id \in Arg
        /\ c.kind \in {"unsigned", "signed"}
    BY <1>1, WordIs DEF IsArray
  <2>2. n \in Nat
    BY <1>1, <2>1
  <2>3. wt \in 0 .. 7
    BY <1>1, <2>1 DEF ArrayType
  <2> QED BY <1>1, <2>1, <2>2, <2>3, NamedFlag DEF HeadBytes
<1>3. IsBound(b) /\ b # <<>> /\ (m # <<>> => b = m) /\ (m = <<>> => b[1].int = TRUE /\ b[1].n = -1)
  <2>1. CASE m = <<>>
    <3>1. PICK d : d = [int |-> TRUE, n |-> -1]
      OBVIOUS
    <3>2. d \in Arg /\ d.int = TRUE /\ d.n = -1
      BY <3>1 DEF Arg
    <3>3. b = <<d>>
      BY <1>1, <2>1, <3>1
    <3>4. b \in Seq(Arg) /\ Len(b) = 1 /\ b[1] = d
      BY <3>2, <3>3
    <3>5. b # <<>>
      BY <3>4, SMTT(40)
    <3> QED BY <2>1, <3>2, <3>4, <3>5 DEF IsBound
  <2>2. CASE m # <<>>
    BY <1>1, <1>2, <2>2
  <2> QED BY <2>1, <2>2
<1>4. PICK x, r, o : x = b[1].int /\ r = (b[1].n \in -SizeMax - 1 .. SizeMax) /\ o = Capped(n, b)
  OBVIOUS
<1>5. x \in Flags /\ r \in Flags /\ o \in Flags /\ (m = <<>> => x /\ r /\ o)
  <2>1. x \in Flags /\ b[1].n \in Int
    BY <1>3, <1>4, BoundIs
  <2>2. r \in Flags /\ o \in Flags
    BY <1>4 DEF Flags, Capped
  <2>3. ASSUME m = <<>> PROVE x /\ r /\ o
    <3>1. PICK y : y = b[1].n
      OBVIOUS
    <3>2. x = TRUE /\ y = -1 /\ r = (y \in -SizeMax - 1 .. SizeMax) /\ o = (y < 0 \/ n <= y)
      BY <1>3, <1>4, <2>3, <3>1 DEF Capped
    <3>3. SizeMax \in Nat
      BY WordAssumption
    <3>4. r
      <4>1. y \in -SizeMax - 1 .. SizeMax
        BY <3>2, <3>3
      <4> QED BY <3>2, <4>1
    <3>5. o
      <4>1. y < 0
        BY <3>2
      <4> QED BY <3>2, <4>1, Zenon
    <3> QED BY <3>2, <3>4, <3>5
  <2> QED BY <2>1, <2>2, <2>3
<1>6. PICK u1, u2, u3, w :
        /\ u1 = Then(Then("none", x, "python"), r, "python") /\ u2 = Then(u1, ~Held(s), "skip")
        /\ u3 = Bounded(u2, b, o) /\ w = Then(u3, i, "argument")
  OBVIOUS
<1>7. u1 \in Stops /\ u2 \in Stops /\ u3 \in Stops /\ w \in Stops
  BY <1>6 DEF Bounded, Then, Stops
<1>8. u3 = Then(Then(u2, x, "python"), o, "argument")
  BY <1>3, <1>4, <1>6 DEF Bounded
<1>9. PICK g : g = ~Held(s)
  OBVIOUS
<1>10. g \in BOOLEAN /\ i \in BOOLEAN /\ x \in BOOLEAN /\ r \in BOOLEAN /\ o \in BOOLEAN /\ g \in Flags
  BY <1>2, <1>5, <1>9, HeldFlag DEF Flags
<1>11. ASSUME NEW e \in Engines PROVE Reaches(e, s, "none", PureHead(c), w, h)
  <2>1. PICK p1, p3 : p1 = CapOf(b) /\ p3 = Cap(n, b)
    OBVIOUS
  <2>2. Leads(e, s, "none", p1, u1)
    <3>1. "python" \in Refusals /\ "none" \in Stops
      BY DEF Refusals, Stops
    <3>2. p1 = <<Check(x, "python"), Check(r, "python")>>
      BY <1>4, <2>1 DEF CapOf
    <3> QED BY <1>5, <1>6, <3>1, <3>2, ChecksLead
  <2>3. Leads(e, s, u1, <<Gate>>, u2)
    BY <1>6, <1>7, GateLeads
  <2>4. Leads(e, s, u2, p3, u3)
    BY <1>2, <1>3, <1>4, <1>6, <1>7, <2>1, CapLeads
  <2>5. Leads(e, s, "none", (p1 \o <<Gate>>) \o p3, u3)
    BY <2>2, <2>3, <2>4, LeadBoth
  <2>6. Reaches(e, s, u3, ArrayHeader(c, wt, n), w, h)
    <3>1. \A u \in Stops : Reaches(e, s, u, ArrayHeader(c, wt, n), Then(u, Named(c.id), "argument"), h)
      BY <1>2, ArrayHeaderReaches
    <3>2. Then(u3, Named(c.id), "argument") = w
      BY <1>1, <1>6
    <3> QED BY <1>7, <3>1, <3>2
  <2>7. Reaches(e, s, "none", ((p1 \o <<Gate>>) \o p3) \o ArrayHeader(c, wt, n), w, h)
    BY <2>5, <2>6, ReachBoth
  <2> QED BY <1>1, <2>1, <2>7 DEF PureHead
<1>12. ASSUME NEW e \in Engines PROVE Reaches(e, s, "none", NativeHead(c), w, h)
  <2>1. \A u \in Stops : Reaches(e, s, u, NativeArrayHeader(c, wt, n), Then(u, Named(c.id), "argument"), h)
    BY <1>2, ArrayHeaderReaches
  <2>2. CASE m = <<>>
    <3>1. PICK v : v = Then("none", ~Held(s), "skip")
      OBVIOUS
    <3>2. Leads(e, s, "none", <<Gate>>, v) /\ v \in Stops
      BY <3>1, GateLeads, StopsAre DEF Leads
    <3>3. Then(v, i, "argument") = w
      <4>1. v = Then("none", g, "skip") /\ u2 = Then(u1, g, "skip")
        BY <1>6, <1>9, <3>1
      <4> QED BY <1>5, <1>6, <1>8, <1>10, <2>2, <4>1 DEF Then
    <3>4. Reaches(e, s, "none", <<Gate>> \o NativeArrayHeader(c, wt, n), w, h)
      BY <1>1, <2>1, <3>2, <3>3, ReachBoth
    <3> QED BY <1>1, <2>2, <3>4 DEF NativeHead
  <2>3. CASE m # <<>>
    <3>1. PICK p1, p2, v : /\ p1 = CapOf(m) /\ p2 = <<Gate, Check(o, "argument")>>
                           /\ v = Then(Then(u1, ~Held(s), "skip"), o, "argument")
      OBVIOUS
    <3>2. Leads(e, s, "none", p1, u1)
      <4>1. "python" \in Refusals /\ "none" \in Stops
        BY DEF Refusals, Stops
      <4>2. p1 = <<Check(x, "python"), Check(r, "python")>>
        BY <1>3, <1>4, <2>3, <3>1 DEF CapOf
      <4> QED BY <1>5, <1>6, <4>1, <4>2, ChecksLead
    <3>3. Leads(e, s, u1, p2, v)
      <4>1. "argument" \in Refusals
        BY DEF Refusals
      <4> QED BY <1>5, <1>7, <3>1, <4>1, GateCheckLeads
    <3>4. Then(v, i, "argument") = w /\ v \in Stops
      <4>1. v = Then(Then(u1, g, "skip"), o, "argument") /\ u2 = Then(u1, g, "skip")
        BY <1>6, <1>9, <3>1
      <4>2. v = u3
        BY <1>6, <1>8, <1>10, <4>1 DEF Then
      <4> QED BY <1>6, <1>7, <4>2
    <3>5. Reaches(e, s, "none", (p1 \o p2) \o NativeArrayHeader(c, wt, n), w, h)
      <4>1. Leads(e, s, "none", p1 \o p2, v)
        BY <3>2, <3>3, LeadBoth
      <4> QED BY <1>1, <2>1, <3>4, <4>1, ReachBoth
    <3>6. o = (m[1].n < 0 \/ n <= m[1].n)
      BY <1>3, <1>4, <2>3 DEF Capped
    <3> QED BY <1>1, <2>3, <3>1, <3>5, <3>6 DEF NativeHead
  <2> QED BY <2>2, <2>3
<1>13. Told(s, c, w)
  <2>1. PICK fits : fits = (i /\ (m # <<>> => x /\ o /\ r))
    OBVIOUS
  <2>2. HeaderFits(c) = fits /\ fits \in Flags
    <3>1. HeaderFits(c) = (IdFits(c) /\ CountFits(c)) /\ c.op = "array"
      BY DEF HeaderFits, IsArray
    <3>2. IdFits(c) = i
      BY <1>1 DEF IdFits, Named
    <3>3. CASE m = <<>>
      BY <1>1, <1>10, <2>1, <3>1, <3>2, <3>3 DEF CountFits, Flags
    <3>4. CASE m # <<>>
      BY <1>1, <1>3, <1>4, <1>10, <2>1, <3>1, <3>2, <3>4 DEF CountFits, Flags, Capped
    <3> QED BY <3>3, <3>4
  <2>3. (fits => w = (IF g THEN "none" ELSE "skip")) /\ (~fits => w # "none" /\ (w = "skip" => ~g))
    <3>1. u2 = Then(u1, g, "skip")
      BY <1>6, <1>9
    <3> QED BY <1>5, <1>6, <1>8, <1>10, <2>1, <3>1 DEF Then
  <2> QED BY <1>9, <2>2, <2>3, FixlenTold
<1> QED BY <1>1, <1>7, <1>11, <1>12, <1>13

(* What either engine does for one element.                                *)
PurePart(v, c) ==
  <<Check(v.int, "argument"), Check(v.n \in Width(c.kind, c.width), "argument"), Varint(Raw(c.kind, v.n))>>
NativePart(v, c) ==
  <<Converted(v, c.kind), Check(v.n \in Width(c.kind, c.width), "argument"), Varint(Raw(c.kind, v.n))>>
Refused(t) == Halted(t, Then(t.stop, FALSE, "argument"))

LEMMA ElemSays ==
  ASSUME NEW e \in Engines, NEW t, IsEncoder(t)
  PROVE  \A a, f \in Flags : \A r \in Int : \A q :
           (a /\ f => r \in 0 .. UnsignedMax)
           /\ q = <<Check(a, "argument"), Check(f, "argument"), Varint(r)>>
             => /\ q \in Seq(Steps)
                /\ a /\ f => After(e, t, q) = Put(t, EncodeVarint[r]) /\ EncodeVarint[r] \in Seq(Nat)
                /\ ~(a /\ f) => After(e, t, q) = Refused(t)
<1>1. ASSUME NEW a \in Flags, NEW f \in Flags, NEW r \in Int, a /\ f => r \in 0 .. UnsignedMax,
             NEW q, q = <<Check(a, "argument"), Check(f, "argument"), Varint(r)>>
      PROVE  /\ q \in Seq(Steps)
             /\ a /\ f => After(e, t, q) = Put(t, EncodeVarint[r]) /\ EncodeVarint[r] \in Seq(Nat)
             /\ ~(a /\ f) => After(e, t, q) = Refused(t)
  <2>1. LET x == <<Check(a, "argument"), Check(f, "argument"), Varint(r)>> IN
        /\ x \in Seq(Steps)
        /\ a /\ f => After(e, t, x) = Put(t, EncodeVarint[r]) /\ EncodeVarint[r] \in Seq(Nat)
        /\ ~(a /\ f) => After(e, t, x) = Halted(t, Then(t.stop, FALSE, "argument"))
    BY <1>1, ElemIs
  <2> QED BY <1>1, <2>1 DEF Refused
<1> QED BY <1>1

LEMMA PartIs ==
  ASSUME NEW e \in Engines, NEW t, IsEncoder(t), NEW c, c.kind \in {"unsigned", "signed"},
         c.width \in {"wide", "narrow"}, NEW v \in Arg
  PROVE  /\ PurePart(v, c) \in Seq(Steps) /\ NativePart(v, c) \in Seq(Steps)
         /\ ValueFits(v, c) => /\ After(e, t, PurePart(v, c)) = Put(t, EncodeVarint[Raw(c.kind, v.n)])
                               /\ After(e, t, NativePart(v, c)) = Put(t, EncodeVarint[Raw(c.kind, v.n)])
                               /\ EncodeVarint[Raw(c.kind, v.n)] \in Seq(Nat)
         /\ ~ValueFits(v, c) => /\ After(e, t, PurePart(v, c)) = Refused(t)
                                /\ After(e, t, NativePart(v, c)) = Refused(t)
<1>1. PICK a, d, f, af, r : /\ a = v.int /\ d = (v.n \in Width(c.kind, c.width)) /\ f = (v.n \in Format(c.kind))
                            /\ af = (a /\ f) /\ r = Raw(c.kind, v.n)
  OBVIOUS
<1>2. /\ a \in Flags /\ d \in Flags /\ f \in Flags /\ af \in Flags /\ r \in Int
      /\ (d => f) /\ (f => r \in 0 .. UnsignedMax)
  <2>1. v.int \in BOOLEAN /\ v.n \in Int
    BY DEF Arg
  <2>2. d \in Flags /\ f \in Flags /\ r \in Int /\ (d => f) /\ (f => r \in 0 .. UnsignedMax)
    BY <1>1, <2>1, WidthIs
  <2>3. a \in Flags /\ af \in Flags
    BY <1>1, <2>1, <2>2 DEF Flags
  <2> QED BY <2>2, <2>3
<1>3. ValueFits(v, c) = (a /\ d) /\ (a /\ d <=> af /\ d) /\ a \in BOOLEAN /\ d \in BOOLEAN /\ af \in BOOLEAN
  BY <1>1, <1>2 DEF ValueFits, Flags
<1>30. \A a1, f1 \in Flags : \A r1 \in Int : \A x1 :
           (a1 /\ f1 => r1 \in 0 .. UnsignedMax)
           /\ x1 = <<Check(a1, "argument"), Check(f1, "argument"), Varint(r1)>>
             => /\ x1 \in Seq(Steps)
                /\ a1 /\ f1 => After(e, t, x1) = Put(t, EncodeVarint[r1]) /\ EncodeVarint[r1] \in Seq(Nat)
                /\ ~(a1 /\ f1) => After(e, t, x1) = Refused(t)
  BY ElemSays
<1>4. PICK p, q : /\ p = <<Check(a, "argument"), Check(d, "argument"), Varint(r)>>
                  /\ q = <<Check(af, "argument"), Check(d, "argument"), Varint(r)>>
  OBVIOUS
<1>5. p = PurePart(v, c)
  BY <1>1, <1>4 DEF PurePart
<1>6. q = NativePart(v, c)
  BY <1>1, <1>4 DEF NativePart, Converted
<1>7. /\ p \in Seq(Steps)
      /\ (a /\ d => After(e, t, p) = Put(t, EncodeVarint[r]) /\ EncodeVarint[r] \in Seq(Nat))
      /\ (~(a /\ d) => After(e, t, p) = Refused(t))
  <2>1. a /\ d => r \in 0 .. UnsignedMax
    BY <1>2
  <2>2. PICK x : x = <<Check(a, "argument"), Check(d, "argument"), Varint(r)>>
    OBVIOUS
  <2>3. /\ x \in Seq(Steps)
        /\ (a /\ d => After(e, t, x) = Put(t, EncodeVarint[r]) /\ EncodeVarint[r] \in Seq(Nat))
        /\ (~(a /\ d) => After(e, t, x) = Refused(t))
    <3>1. a \in Flags /\ d \in Flags
      BY <1>2
    <3>2. \A r1 \in Int : \A x1 :
           (a /\ d => r1 \in 0 .. UnsignedMax)
           /\ x1 = <<Check(a, "argument"), Check(d, "argument"), Varint(r1)>>
             => /\ x1 \in Seq(Steps)
                /\ a /\ d => After(e, t, x1) = Put(t, EncodeVarint[r1]) /\ EncodeVarint[r1] \in Seq(Nat)
                /\ ~(a /\ d) => After(e, t, x1) = Refused(t)
      BY <3>1, <1>30
    <3>3. r \in Int
      BY <1>2
    <3>4. \A x1 :
           (a /\ d => r \in 0 .. UnsignedMax)
           /\ x1 = <<Check(a, "argument"), Check(d, "argument"), Varint(r)>>
             => /\ x1 \in Seq(Steps)
                /\ a /\ d => After(e, t, x1) = Put(t, EncodeVarint[r]) /\ EncodeVarint[r] \in Seq(Nat)
                /\ ~(a /\ d) => After(e, t, x1) = Refused(t)
      BY <3>3, <3>2
    <3> QED BY <2>1, <2>2, <3>4
  <2>4. x = p
    BY <1>4, <2>2
  <2> QED BY <2>3, <2>4
<1>8. /\ q \in Seq(Steps)
      /\ (af /\ d => After(e, t, q) = Put(t, EncodeVarint[r]) /\ EncodeVarint[r] \in Seq(Nat))
      /\ (~(af /\ d) => After(e, t, q) = Refused(t))
  <2>1. af /\ d => r \in 0 .. UnsignedMax
    BY <1>2
  <2>2. PICK x : x = <<Check(af, "argument"), Check(d, "argument"), Varint(r)>>
    OBVIOUS
  <2>3. /\ x \in Seq(Steps)
        /\ (af /\ d => After(e, t, x) = Put(t, EncodeVarint[r]) /\ EncodeVarint[r] \in Seq(Nat))
        /\ (~(af /\ d) => After(e, t, x) = Refused(t))
    <3>1. af \in Flags /\ d \in Flags
      BY <1>2
    <3>2. \A r1 \in Int : \A x1 :
           (af /\ d => r1 \in 0 .. UnsignedMax)
           /\ x1 = <<Check(af, "argument"), Check(d, "argument"), Varint(r1)>>
             => /\ x1 \in Seq(Steps)
                /\ af /\ d => After(e, t, x1) = Put(t, EncodeVarint[r1]) /\ EncodeVarint[r1] \in Seq(Nat)
                /\ ~(af /\ d) => After(e, t, x1) = Refused(t)
      BY <3>1, <1>30
    <3>3. r \in Int
      BY <1>2
    <3>4. \A x1 :
           (af /\ d => r \in 0 .. UnsignedMax)
           /\ x1 = <<Check(af, "argument"), Check(d, "argument"), Varint(r)>>
             => /\ x1 \in Seq(Steps)
                /\ af /\ d => After(e, t, x1) = Put(t, EncodeVarint[r]) /\ EncodeVarint[r] \in Seq(Nat)
                /\ ~(af /\ d) => After(e, t, x1) = Refused(t)
      BY <3>3, <3>2
    <3> QED BY <2>1, <2>2, <3>4
  <2>4. x = q
    BY <1>4, <2>2
  <2> QED BY <2>3, <2>4
<1> QED BY <1>1, <1>3, <1>5, <1>6, <1>7, <1>8

(* The elements as lists of parts.                                         *)
LEMMA PartsAre ==
  ASSUME NEW c, IsArray(c)
  PROVE  \E n \in Nat : \E ps, qs \in Seq(Seq(Steps)) :
           /\ n = Len(c.elems) /\ Len(ps) = n /\ Len(qs) = n
           /\ \A i \in 1 .. n : /\ c.elems[i] \in Arg
                                /\ ps[i] = PurePart(c.elems[i], c) /\ qs[i] = NativePart(c.elems[i], c)
           /\ PureElems(c) = FlattenSeq(ps) /\ NativeElems(c) = FlattenSeq(qs)
           /\ PureArray(c) = PureHead(c) \o FlattenSeq(ps)
           /\ NativeArray(c) = NativeHead(c) \o FlattenSeq(qs)
<1>1. PICK n, ps, qs : /\ n = Len(c.elems) /\ ps = [i \in DOMAIN c.elems |-> PurePart(c.elems[i], c)]
                       /\ qs = [i \in DOMAIN c.elems |-> NativePart(c.elems[i], c)]
  OBVIOUS
<1>2. c.elems \in Seq(Arg) /\ n \in Nat /\ DOMAIN c.elems = 1 .. n
  BY <1>1 DEF IsArray
<1>3. PureElems(c) = FlattenSeq(ps) /\ NativeElems(c) = FlattenSeq(qs)
  BY <1>1 DEF PureElems, NativeElems, PurePart, NativePart
<1>4. \A i \in 1 .. n : c.elems[i] \in Arg
  BY <1>1, <1>2
<1>5. \A i \in 1 .. n : ps[i] = PurePart(c.elems[i], c) /\ qs[i] = NativePart(c.elems[i], c)
  BY <1>1, <1>2
<1>6. \A v \in Arg : PurePart(v, c) \in Seq(Steps) /\ NativePart(v, c) \in Seq(Steps)
  <2>1. \A v \in Arg : v.int \in BOOLEAN /\ v.n \in Int
    BY DEF Arg
  <2>2. \A b : b \in BOOLEAN => Check(b, "argument") \in Steps
    BY StepsAre DEF Flags
  <2>3. \A x \in Int : Raw(c.kind, x) \in Int /\ Varint(Raw(c.kind, x)) \in Steps
    BY StepsAre DEF Raw, ZigZag
  <2>4. ASSUME NEW v \in Arg
        PROVE  /\ Check(v.int, "argument") \in Steps
               /\ Check(v.n \in Width(c.kind, c.width), "argument") \in Steps
               /\ Converted(v, c.kind) \in Steps
    <3>1. PICK a, b, d : a = v.int /\ b = (v.n \in Width(c.kind, c.width)) /\ d = (v.int /\ v.n \in Format(c.kind))
      OBVIOUS
    <3>2. a \in BOOLEAN /\ b \in BOOLEAN /\ d \in BOOLEAN
      BY <2>1, <3>1
    <3> QED BY <2>2, <3>1, <3>2 DEF Converted
  <2> QED BY <2>1, <2>3, <2>4 DEF PurePart, NativePart
<1>7. ps \in Seq(Seq(Steps)) /\ qs \in Seq(Seq(Steps)) /\ Len(ps) = n /\ Len(qs) = n
  BY <1>1, <1>2, <1>4, <1>6
<1>8. PureArray(c) = PureHead(c) \o PureElems(c) /\ NativeArray(c) = NativeHead(c) \o NativeElems(c)
  BY DEF PureArray, PureHead, NativeArray, NativeHead
<1> QED BY <1>1, <1>2, <1>3, <1>4, <1>5, <1>7, <1>8

(* The writers of typed arrays agree when every element fits ...           *)
LEMMA ArrayWrites ==
  ASSUME NEW s, IsEncoder(s), NEW c, IsArray(c), \A i \in DOMAIN c.elems : ValueFits(c.elems[i], c)
  PROVE  Agree(s, c, PureArray(c), NativeArray(c))
<1>1. PICK w \in Stops : /\ Told(s, c, w)
                         /\ \A e \in Engines : /\ Reaches(e, s, "none", PureHead(c), w, HeadBytes(c))
                                               /\ Reaches(e, s, "none", NativeHead(c), w, HeadBytes(c))
  BY ArrayHead
<1>2. PICK n \in Nat, ps \in Seq(Seq(Steps)), qs \in Seq(Seq(Steps)) :
        /\ n = Len(c.elems) /\ Len(ps) = n /\ Len(qs) = n
        /\ \A i \in 1 .. n : /\ c.elems[i] \in Arg
                             /\ ps[i] = PurePart(c.elems[i], c) /\ qs[i] = NativePart(c.elems[i], c)
        /\ PureArray(c) = PureHead(c) \o FlattenSeq(ps)
        /\ NativeArray(c) = NativeHead(c) \o FlattenSeq(qs)
  BY PartsAre
<1>3. PICK rs, bs : /\ rs = [i \in 1 .. n |-> Raw(c.kind, c.elems[i].n)]
                    /\ bs = [i \in 1 .. n |-> EncodeVarint[Raw(c.kind, c.elems[i].n)]]
  OBVIOUS
<1>4. /\ c.elems \in Seq(Arg) /\ DOMAIN c.elems = 1 .. n /\ c.op = "array"
      /\ c.kind \in {"unsigned", "signed"} /\ c.width \in {"wide", "narrow"}
  BY <1>2 DEF IsArray
<1>5. ASSUME NEW e \in Engines, NEW i \in 1 .. n, NEW t, IsEncoder(t)
      PROVE  After(e, t, ps[i]) = Put(t, bs[i]) /\ After(e, t, qs[i]) = Put(t, bs[i])
  <2>1. PICK v : v = c.elems[i]
    OBVIOUS
  <2>2. v \in Arg /\ ValueFits(v, c)
    BY <1>2, <1>4, <2>1
  <2>3. /\ After(e, t, PurePart(v, c)) = Put(t, EncodeVarint[Raw(c.kind, v.n)])
        /\ After(e, t, NativePart(v, c)) = Put(t, EncodeVarint[Raw(c.kind, v.n)])
    BY <1>4, <1>5, <2>2, PartIs
  <2> QED BY <1>2, <1>3, <2>1, <2>3
<1>6. bs \in Seq(Seq(Nat)) /\ Len(bs) = n
  <2>1. ASSUME NEW i \in 1 .. n PROVE EncodeVarint[Raw(c.kind, c.elems[i].n)] \in Seq(Nat)
    <3>1. PICK v : v = c.elems[i]
      OBVIOUS
    <3>2. v \in Arg /\ ValueFits(v, c)
      BY <1>2, <1>4, <3>1
    <3>3. "pure" \in Engines
      BY DEF Engines
    <3>4. EncodeVarint[Raw(c.kind, v.n)] \in Seq(Nat)
      BY <1>4, <3>2, <3>3, PartIs
    <3> QED BY <3>1, <3>4
  <2> QED BY <1>3, <2>1
<1>7. ASSUME NEW e \in Engines
      PROVE  /\ Reaches(e, s, "none", PureArray(c), w, HeadBytes(c) \o FlattenSeq(bs))
             /\ Reaches(e, s, "none", NativeArray(c), w, HeadBytes(c) \o FlattenSeq(bs))
  <2>1. \A i \in 1 .. n : \A t : IsEncoder(t) => After(e, t, ps[i]) = Put(t, bs[i])
    BY <1>5
  <2>2. \A i \in 1 .. n : \A t : IsEncoder(t) => After(e, t, qs[i]) = Put(t, bs[i])
    BY <1>5
  <2>3. Reaches(e, s, "none", PureArray(c), w, HeadBytes(c) \o FlattenSeq(bs))
    BY <1>1, <1>2, <1>6, <2>1, TailReaches
  <2>4. Reaches(e, s, "none", NativeArray(c), w, HeadBytes(c) \o FlattenSeq(bs))
    BY <1>1, <1>2, <1>6, <2>2, TailReaches
  <2> QED BY <2>3, <2>4
<1>8. HeadBytes(c) \o FlattenSeq(bs) = FieldBytes(c)
  <2>1. FieldBytes(c) = (Framed(c, ArrayType[c.kind]) \o EncodeVarint[Len(c.elems)])
                          \o Varints([i \in DOMAIN c.elems |-> Raw(c.kind, c.elems[i].n)])
    BY <1>4, Zenon DEF FieldBytes
  <2>2. Varints([i \in DOMAIN c.elems |-> Raw(c.kind, c.elems[i].n)]) = Varints(rs)
    BY <1>3, <1>4
  <2>3. Varints(rs) = FlattenSeq([i \in DOMAIN rs |-> EncodeVarint[rs[i]]])
    BY DEF Varints
  <2>4. [i \in DOMAIN rs |-> EncodeVarint[rs[i]]] = bs
    <3>1. DOMAIN rs = 1 .. n /\ \A i \in 1 .. n : rs[i] = Raw(c.kind, c.elems[i].n)
      BY <1>3
    <3>2. [i \in DOMAIN rs |-> EncodeVarint[rs[i]]] = [i \in 1 .. n |-> EncodeVarint[Raw(c.kind, c.elems[i].n)]]
      BY <3>1, Zenon
    <3> QED BY <1>3, <3>2
  <2> QED BY <2>1, <2>2, <2>3, <2>4 DEF HeadBytes, Framed
<1> QED BY <1>1, <1>7, <1>8, AgreeIs

LEMMA PartStops ==
  ASSUME NEW t, IsEncoder(t), NEW c, c.kind \in {"unsigned", "signed"}, c.width \in {"wide", "narrow"},
         NEW v \in Arg
  PROVE  /\ After("pure", t, PurePart(v, c)) = After("native", t, NativePart(v, c))
         /\ IsEncoder(After("pure", t, PurePart(v, c)))
         /\ t.stop \in Latchable => After("pure", t, PurePart(v, c)).stop \in Latchable
         /\ t.stop # "none" \/ ~ValueFits(v, c) => After("pure", t, PurePart(v, c)).stop # "none"
<1>1. PICK x, y, b : /\ x = After("pure", t, PurePart(v, c)) /\ y = After("native", t, NativePart(v, c))
                     /\ b = EncodeVarint[Raw(c.kind, v.n)]
  OBVIOUS
<1>2. /\ ValueFits(v, c) => x = Put(t, b) /\ y = Put(t, b) /\ b \in Seq(Nat)
      /\ ~ValueFits(v, c) => x = Refused(t) /\ y = Refused(t)
  <2>1. "pure" \in Engines /\ "native" \in Engines
    BY DEF Engines
  <2>2. /\ ValueFits(v, c) => x = Put(t, b) /\ b \in Seq(Nat)
        /\ ~ValueFits(v, c) => x = Refused(t)
    BY <1>1, <2>1, PartIs
  <2>3. /\ ValueFits(v, c) => y = Put(t, b)
        /\ ~ValueFits(v, c) => y = Refused(t)
    BY <1>1, <2>1, PartIs
  <2> QED BY <2>2, <2>3
<1>3. CASE ValueFits(v, c)
  <2>1. x = y /\ x = Put(t, b) /\ b \in Seq(Nat)
    BY <1>2, <1>3
  <2>2. IsEncoder(x) /\ x.stop \in {t.stop, "buffer"} /\ (t.stop # "none" => x = t)
    BY <2>1, PutKeeps, PutIs
  <2> QED BY <1>1, <1>3, <2>1, <2>2 DEF Latchable
<1>4. CASE ~ValueFits(v, c)
  <2>1. x = y /\ x = Refused(t)
    BY <1>2, <1>4
  <2>2. PICK k, w : k = t.stop /\ w = Then(k, FALSE, "argument")
    OBVIOUS
  <2>3. k \in Stops /\ w \in Stops /\ w # "none" /\ (k \in Latchable => w \in Latchable)
    <3>1. k \in Stops
      BY <2>2, EncoderIs
    <3>2. w = IF k # "none" THEN k ELSE "argument"
      BY <2>2 DEF Then
    <3> QED BY <3>1, <3>2 DEF Stops, Latchable
  <2>4. x = Halted(t, w)
    BY <2>1, <2>2 DEF Refused
  <2>5. IsEncoder(x) /\ x.stop = w
    BY <2>3, <2>4, HaltedIs
  <2> QED BY <1>1, <2>1, <2>2, <2>3, <2>5
<1> QED BY <1>3, <1>4

LEMMA FlatSteps == \A ps \in Seq(Seq(Steps)) : FlattenSeq(ps) \in Seq(Steps)
<1>1. ASSUME NEW ps \in Seq(Seq(Steps)) PROVE FlattenSeq(ps) \in Seq(Steps)
  <2>1. \A k \in 0 .. Len(ps) : Upto(ps, k) \in Seq(Steps)
    BY UptoIs
  <2>2. Upto(ps, Len(ps)) = FlattenSeq(ps)
    BY UptoIs
  <2>3. Len(ps) \in 0 .. Len(ps)
    OBVIOUS
  <2> QED BY <2>1, <2>2, <2>3
<1> QED BY <1>1

(* A call that both engines end alike, in t.                               *)
Ends(s, p, q, t) ==
  /\ p \in Seq(Steps) /\ q \in Seq(Steps) /\ IsEncoder(t)
  /\ After("pure", Halted(s, "none"), p) = t /\ After("native", Halted(s, "none"), q) = t

(* ... and where one does not: what stands before it went out in both.     *)
LEMMA ArrayBreaks ==
  ASSUME NEW s, IsEncoder(s), NEW c, IsArray(c), ~\A i \in DOMAIN c.elems : ValueFits(c.elems[i], c)
  PROVE  \E w \in Stops : \E t :
           /\ Told(s, c, w) /\ Ends(s, PureArray(c), NativeArray(c), t)
           /\ w = "none" => t.stop \in {"argument", "buffer"}
           /\ w # "none" => t = Halted(s, w)
<1>1. PICK w \in Stops : /\ Told(s, c, w)
                         /\ \A e \in Engines : /\ Reaches(e, s, "none", PureHead(c), w, HeadBytes(c))
                                               /\ Reaches(e, s, "none", NativeHead(c), w, HeadBytes(c))
  BY ArrayHead
<1>2. PICK n \in Nat, ps \in Seq(Seq(Steps)), qs \in Seq(Seq(Steps)) :
        /\ n = Len(c.elems) /\ Len(ps) = n /\ Len(qs) = n
        /\ \A i \in 1 .. n : /\ c.elems[i] \in Arg
                             /\ ps[i] = PurePart(c.elems[i], c) /\ qs[i] = NativePart(c.elems[i], c)
        /\ PureArray(c) = PureHead(c) \o FlattenSeq(ps)
        /\ NativeArray(c) = NativeHead(c) \o FlattenSeq(qs)
  BY PartsAre
<1>3. PICK k, h, x, y : /\ k = Written(s, w, HeadBytes(c)) /\ h = Halted(s, "none")
                        /\ x = FlattenSeq(ps) /\ y = FlattenSeq(qs)
  OBVIOUS
<1>4. /\ PureHead(c) \in Seq(Steps) /\ NativeHead(c) \in Seq(Steps) /\ (w = "none" => HeadBytes(c) \in Seq(Nat))
      /\ After("pure", h, PureHead(c)) = k /\ After("native", h, NativeHead(c)) = k
  <2>1. "pure" \in Engines /\ "native" \in Engines
    BY DEF Engines
  <2>2. Reaches("pure", s, "none", PureHead(c), w, HeadBytes(c)) /\ Reaches("native", s, "none", NativeHead(c), w, HeadBytes(c))
    BY <1>1, <2>1
  <2> QED BY <1>3, <2>2 DEF Reaches
<1>5. /\ IsEncoder(k) /\ (w # "none" => k.stop = w) /\ (w = "none" => k.stop \in {"none", "buffer"})
  BY <1>3, <1>4, WrittenIs
<1>6. x \in Seq(Steps) /\ y \in Seq(Steps)
  BY <1>2, <1>3, FlatSteps
<1>7. /\ c.elems \in Seq(Arg) /\ DOMAIN c.elems = 1 .. n
      /\ c.kind \in {"unsigned", "signed"} /\ c.width \in {"wide", "narrow"}
  BY <1>2 DEF IsArray
<1>8. PICK j \in 1 .. n : ~ValueFits(c.elems[j], c)
  BY <1>7
<1>9. ASSUME NEW i \in 1 .. n, NEW t, IsEncoder(t)
      PROVE  /\ After("pure", t, ps[i]) = After("native", t, qs[i]) /\ IsEncoder(After("pure", t, ps[i]))
             /\ t.stop \in Latchable => After("pure", t, ps[i]).stop \in Latchable
             /\ t.stop # "none" \/ i = j => After("pure", t, ps[i]).stop # "none"
  <2>1. PICK v : v = c.elems[i]
    OBVIOUS
  <2>2. v \in Arg /\ ps[i] = PurePart(v, c) /\ qs[i] = NativePart(v, c) /\ (i = j => ~ValueFits(v, c))
    BY <1>2, <1>8, <2>1
  <2>3. /\ After("pure", t, PurePart(v, c)) = After("native", t, NativePart(v, c))
        /\ IsEncoder(After("pure", t, PurePart(v, c)))
        /\ t.stop \in Latchable => After("pure", t, PurePart(v, c)).stop \in Latchable
        /\ t.stop # "none" \/ ~ValueFits(v, c) => After("pure", t, PurePart(v, c)).stop # "none"
    BY <1>7, <1>9, <2>2, PartStops
  <2> QED BY <2>2, <2>3
<1>10. PICK t : t = After("pure", k, x)
  OBVIOUS
<1>11. /\ t = After("native", k, y) /\ IsEncoder(t) /\ t.stop # "none"
       /\ k.stop \in Latchable => t.stop \in Latchable
  BY <1>2, <1>3, <1>5, <1>9, <1>10, AfterAlike, ZenonT(40)
<1>12. /\ PureArray(c) \in Seq(Steps) /\ NativeArray(c) \in Seq(Steps)
       /\ After("pure", h, PureArray(c)) = t /\ After("native", h, NativeArray(c)) = t
  <2>1. PureHead(c) \o x \in Seq(Steps) /\ After("pure", h, PureHead(c) \o x) = After("pure", k, x)
    BY <1>4, <1>6, StepsJoin
  <2>2. NativeHead(c) \o y \in Seq(Steps) /\ After("native", h, NativeHead(c) \o y) = After("native", k, y)
    BY <1>4, <1>6, StepsJoin
  <2> QED BY <1>2, <1>3, <1>10, <1>11, <2>1, <2>2
<1>13. w = "none" => t.stop \in {"argument", "buffer"}
  BY <1>5, <1>11 DEF Latchable
<1>14. w # "none" => t = Halted(s, w)
  <2>1. ASSUME w # "none" PROVE t = Halted(s, w)
    <3>1. k = Halted(s, w) /\ k.stop = w
      BY <1>3, <1>5, <2>1 DEF Written
    <3>2. After("pure", k, x) = k
      BY <1>6, <2>1, <3>1, AfterStopped
    <3> QED BY <1>10, <3>1, <3>2
  <2> QED BY <2>1
<1>15. Ends(s, PureArray(c), NativeArray(c), t)
  BY <1>3, <1>11, <1>12 DEF Ends
<1> QED BY <1>1, <1>13, <1>14, <1>15

-----------------------------------------------------------------------------
(* A sequence opened, and closed.                                          *)
Shrunk(s) == [s EXCEPT !.pending = Front(@), !.depth = @ - 1]
Risen(s)  == [s EXCEPT !.depth = @ - 1]

LEMMA PushIs ==
  ASSUME NEW s, IsEncoder(s), NEW n \in 0 .. IdMax
  PROVE  /\ IsEncoder(Push(s, n)) /\ Push(s, n).pending = Append(s.pending, n) /\ Push(s, n).depth = s.depth + 1
         /\ Push(s, n).out = s.out /\ Push(s, n).error = s.error /\ Push(s, n).stop = s.stop
         /\ Push(s, n).sticky = s.sticky /\ Push(s, n).room = s.room
<1>1. PICK u : u = Push(s, n)
  OBVIOUS
<1>2. PICK x, d : x = Append(s.pending, n) /\ d = s.depth + 1
  OBVIOUS
<1>3. x \in Seq(0 .. IdMax) /\ d \in Nat
  BY <1>2, EncoderIs
<1>4. u = [s EXCEPT !.pending = x, !.depth = d]
  BY <1>1, <1>2 DEF Push
<1>5. /\ u \in [out : Seq(Nat), pending : Seq(0 .. IdMax), depth : Nat, error : Errors, stop : Stops,
                sticky : BOOLEAN, room : Nat]
      /\ u.pending = x /\ u.depth = d /\ u.out = s.out
      /\ u.error = s.error /\ u.stop = s.stop /\ u.sticky = s.sticky /\ u.room = s.room
  BY <1>3, <1>4 DEF IsEncoder
<1>6. IsEncoder(u)
  BY <1>5 DEF IsEncoder
<1> QED BY <1>1, <1>2, <1>5, <1>6

LEMMA ShrunkIs ==
  ASSUME NEW s, IsEncoder(s), s.pending # <<>>, s.depth > 0
  PROVE  /\ IsEncoder(Shrunk(s)) /\ Shrunk(s).pending = Front(s.pending) /\ Shrunk(s).depth = s.depth - 1
         /\ Shrunk(s).out = s.out /\ Shrunk(s).error = s.error /\ Shrunk(s).stop = s.stop
         /\ Shrunk(s).sticky = s.sticky /\ Shrunk(s).room = s.room
<1>1. PICK u : u = Shrunk(s)
  OBVIOUS
<1>2. PICK x, d : x = Front(s.pending) /\ d = s.depth - 1
  OBVIOUS
<1>3. x \in Seq(0 .. IdMax) /\ d \in Nat
  <2>1. PICK p : p = s.pending
    OBVIOUS
  <2>2. p \in Seq(0 .. IdMax) /\ p # <<>>
    BY <2>1, EncoderIs
  <2>3. Len(p) > 0 /\ Len(p) \in Nat
    BY <2>2, EmptySeq
  <2>4. SubSeq(p, 1, Len(p) - 1) \in Seq(0 .. IdMax)
    <3>1. PICK T, m : T = 0 .. IdMax /\ m = Len(p) - 1
      OBVIOUS
    <3>2. p \in Seq(T) /\ m \in 0 .. Len(p)
      BY <2>2, <2>3, <3>1
    <3>3. SubSeq(p, 1, m) \in Seq(T)
      BY <2>3, <3>2
    <3> QED BY <3>1, <3>3
  <2> QED BY <1>2, <2>1, <2>4, EncoderIs DEF Front
<1>4. u = [s EXCEPT !.pending = x, !.depth = d]
  BY <1>1, <1>2 DEF Shrunk
<1>5. /\ u \in [out : Seq(Nat), pending : Seq(0 .. IdMax), depth : Nat, error : Errors, stop : Stops,
                sticky : BOOLEAN, room : Nat]
      /\ u.pending = x /\ u.depth = d /\ u.out = s.out
      /\ u.error = s.error /\ u.stop = s.stop /\ u.sticky = s.sticky /\ u.room = s.room
  BY <1>3, <1>4 DEF IsEncoder
<1>6. IsEncoder(u)
  BY <1>5 DEF IsEncoder
<1> QED BY <1>1, <1>2, <1>5, <1>6

LEMMA RisenIs ==
  ASSUME NEW s, IsEncoder(s), s.depth > 0
  PROVE  /\ IsEncoder(Risen(s)) /\ Risen(s).pending = s.pending /\ Risen(s).depth = s.depth - 1
         /\ Risen(s).out = s.out /\ Risen(s).error = s.error /\ Risen(s).stop = s.stop
         /\ Risen(s).sticky = s.sticky /\ Risen(s).room = s.room
<1>1. PICK u : u = Risen(s)
  OBVIOUS
<1>2. PICK d : d = s.depth - 1
  OBVIOUS
<1>3. d \in Nat
  BY <1>2, EncoderIs
<1>4. u = [s EXCEPT !.depth = d]
  BY <1>1, <1>2 DEF Risen
<1>5. /\ u \in [out : Seq(Nat), pending : Seq(0 .. IdMax), depth : Nat, error : Errors, stop : Stops,
                sticky : BOOLEAN, room : Nat]
      /\ u.pending = s.pending /\ u.depth = d /\ u.out = s.out
      /\ u.error = s.error /\ u.stop = s.stop /\ u.sticky = s.sticky /\ u.room = s.room
  BY <1>3, <1>4 DEF IsEncoder
<1>6. IsEncoder(u)
  BY <1>5 DEF IsEncoder
<1> QED BY <1>1, <1>2, <1>5, <1>6

(* Why a call stopped, whatever order it checked in.                       *)
Tells(s, fits, w) ==
  /\ fits => w = IF Held(s) THEN "skip" ELSE "none"
  /\ ~fits => w # "none" /\ (w = "skip" => Held(s))

Began(s, w, n) == IF w = "none" THEN Push(Halted(s, "none"), n) ELSE Halted(s, w)

LEMMA DoPush ==
  ASSUME NEW e, NEW s, IsEncoder(s), NEW w \in Stops, NEW n \in Int
  PROVE  Do(e, Halted(s, w), Pushed(n)) = Began(s, w, n)
<1>1. PICK x, t : x = Pushed(n) /\ t = Halted(s, w)
  OBVIOUS
<1>2. x.do = "push" /\ x.id = n /\ t.stop = w
  BY <1>1, HaltedIs, SMTT(40) DEF Pushed
<1>3. Do(e, t, x) = IF t.stop # "none" THEN t ELSE Push(t, x.id)
  BY <1>2, Zenon DEF Do
<1> QED BY <1>1, <1>2, <1>3 DEF Began

(* A sequence is opened alike in both engines.                             *)
LEMMA BeginEnds ==
  ASSUME NEW s, IsEncoder(s), NEW c, c.id \in Arg
  PROVE  \E w \in Stops :
           /\ Tells(s, Named(c.id) /\ s.depth < MaxDepth, w)
           /\ Ends(s, PureBegin(c), NativeBegin(c), Began(s, w, c.id.n))
<1>1. PICK a, b, g, d, n, i : /\ a = c.id.int /\ b = (c.id.n \in 0 .. IdMax) /\ g = ~Held(s)
                              /\ d = (s.depth < MaxDepth) /\ n = c.id.n /\ i = Named(c.id)
  OBVIOUS
<1>2. a \in Flags /\ b \in Flags /\ g \in Flags /\ d \in Flags /\ i \in Flags /\ n \in Int
  BY <1>1, ArgIs, HeldFlag DEF Flags
<1>3. PICK w1, w2, w : /\ w1 = Then("none", g, "skip") /\ w2 = Then(w1, d, "argument")
                       /\ w = Then(Then(w2, a, "argument"), b, "argument")
  OBVIOUS
<1>4. w1 \in Stops /\ w2 \in Stops /\ w \in Stops /\ "none" \in Stops
  BY <1>3 DEF Then, Stops
<1>5. w = Then(w2, i, "argument")
  <2>1. a \in BOOLEAN /\ b \in BOOLEAN
    BY <1>2 DEF Flags
  <2>2. i = (a /\ b)
    BY <1>1 DEF Named
  <2> QED BY <1>3, <2>1, <2>2 DEF Then
<1>6. PICK p, q, k : /\ p = <<Gate, Enter, Check(a, "argument"), Check(b, "argument")>>
                     /\ q = <<Gate, Enter, Check(i, "argument")>> /\ k = <<Pushed(n)>>
  OBVIOUS
<1>7. /\ Check(a, "argument") \in Checks /\ Check(b, "argument") \in Checks /\ Check(i, "argument") \in Checks
      /\ Gate \in Checks /\ Enter \in Checks
      /\ \A v : Answer(s, Check(a, "argument"), v) = Then(v, a, "argument")
      /\ \A v : Answer(s, Check(b, "argument"), v) = Then(v, b, "argument")
      /\ \A v : Answer(s, Check(i, "argument"), v) = Then(v, i, "argument")
      /\ \A v : Answer(s, Gate, v) = Then(v, g, "skip") /\ Answer(s, Enter, v) = Then(v, d, "argument")
  <2>1. "argument" \in Refusals
    BY DEF Refusals
  <2>2. /\ \A v : Answer(s, Gate, v) = Then(v, ~Held(s), "skip")
        /\ \A v : Answer(s, Enter, v) = Then(v, s.depth < MaxDepth, "argument")
    BY ChecksAre
  <2>3. \A v : Answer(s, Gate, v) = Then(v, g, "skip") /\ Answer(s, Enter, v) = Then(v, d, "argument")
    BY <1>1, <2>2
  <2> QED BY <1>2, <2>1, <2>3, ChecksAre
<1>8. ASSUME NEW e PROVE Leads(e, s, "none", p, w) /\ Leads(e, s, "none", q, w)
  <2>1. PICK x, y, z, l : x = Check(a, "argument") /\ y = Check(b, "argument") /\ z = Gate /\ l = Enter
    OBVIOUS
  <2>2. Leads(e, s, "none", <<z, l, x, y>>, Answer(s, y, Answer(s, x, Answer(s, l, Answer(s, z, "none")))))
    BY <1>4, <1>7, <2>1, LeadFour
  <2>3. PICK m : m = Check(i, "argument")
    OBVIOUS
  <2>4. Leads(e, s, "none", <<z, l, m>>, Answer(s, m, Answer(s, l, Answer(s, z, "none"))))
    BY <1>4, <1>7, <2>1, <2>3, LeadThree
  <2>5. /\ Answer(s, z, "none") = w1 /\ Answer(s, l, w1) = w2 /\ Answer(s, x, w2) = Then(w2, a, "argument")
        /\ Answer(s, y, Then(w2, a, "argument")) = w /\ Answer(s, m, w2) = w
    BY <1>3, <1>5, <1>7, <2>1, <2>3
  <2> QED BY <1>6, <2>1, <2>2, <2>3, <2>4, <2>5
<1>9. ASSUME NEW e
      PROVE  /\ After(e, Halted(s, "none"), p \o k) = Began(s, w, n)
             /\ After(e, Halted(s, "none"), q \o k) = Began(s, w, n)
             /\ p \o k \in Seq(Steps) /\ q \o k \in Seq(Steps)
  <2>1. /\ p \in Seq(Steps) /\ q \in Seq(Steps) /\ After(e, Halted(s, "none"), p) = Halted(s, w)
        /\ After(e, Halted(s, "none"), q) = Halted(s, w)
    BY <1>8 DEF Leads
  <2>2. k \in Seq(Steps)
    BY <1>2, <1>6, StepsAre
  <2>3. After(e, Halted(s, w), k) = Began(s, w, n)
    <3>1. After(e, Halted(s, w), k) = Do(e, Halted(s, w), Pushed(n))
      BY <1>6, AfterOne
    <3> QED BY <1>2, <1>4, <3>1, DoPush
  <2> QED BY <2>1, <2>2, <2>3, StepsJoin
<1>10. PureBegin(c) = p \o k /\ NativeBegin(c) = q \o k
  <2>1. PICK x, y, z, l, m, h : /\ x = Check(a, "argument") /\ y = Check(b, "argument") /\ z = Gate /\ l = Enter
                                /\ m = Check(i, "argument") /\ h = Pushed(n)
    OBVIOUS
  <2>2. PureBegin(c) = <<z, l, x, y, h>>
    BY <1>1, <2>1 DEF PureBegin
  <2>3. NativeBegin(c) = <<z, l, m, h>>
    BY <1>1, <2>1 DEF NativeBegin, IdArg, Named
  <2>4. p = <<z, l, x, y>> /\ q = <<z, l, m>> /\ k = <<h>>
    BY <1>6, <2>1
  <2>5. <<z, l, x, y, h>> = <<z, l, x, y>> \o <<h>> /\ <<z, l, m, h>> = <<z, l, m>> \o <<h>>
    OBVIOUS
  <2> QED BY <2>2, <2>3, <2>4, <2>5
<1>11. Tells(s, Named(c.id) /\ s.depth < MaxDepth, w)
  <2>1. a \in BOOLEAN /\ b \in BOOLEAN /\ g \in BOOLEAN /\ d \in BOOLEAN /\ i \in BOOLEAN
    BY <1>2 DEF Flags
  <2>2. PICK f : f = (Named(c.id) /\ s.depth < MaxDepth)
    OBVIOUS
  <2>3. f = (i /\ d)
    BY <1>1, <2>1, <2>2
  <2>4. (f => w = (IF g THEN "none" ELSE "skip")) /\ (~f => w # "none" /\ (w = "skip" => ~g))
    BY <1>3, <1>5, <2>1, <2>3 DEF Then
  <2>5. Tells(s, f, w)
    BY <1>1, <2>4 DEF Tells
  <2> QED BY <2>2, <2>5
<1>12. IsEncoder(Began(s, w, n))
  <2>1. CASE w = "none"
    <3>1. b
      <4>1. b \in BOOLEAN
        BY <1>2 DEF Flags
      <4> QED BY <1>3, <2>1, <4>1 DEF Then
    <3>2. n \in 0 .. IdMax /\ IsEncoder(Halted(s, "none"))
      BY <1>1, <1>4, <3>1, HaltedIs
    <3> QED BY <2>1, <3>2, PushIs DEF Began
  <2>2. CASE w # "none"
    BY <1>4, <2>2, HaltedIs DEF Began
  <2> QED BY <2>1, <2>2
<1>13. Ends(s, PureBegin(c), NativeBegin(c), Began(s, w, n))
  BY <1>9, <1>10, <1>12 DEF Ends
<1> QED BY <1>1, <1>4, <1>11, <1>13

(* What the end of a sequence comes to.                                    *)
Closes(s, w, keep) ==
  IF w # "none" THEN Halted(s, w)
  ELSE IF s.pending # <<>> /\ ~keep THEN Shrunk(Halted(s, "none"))
  ELSE LET t == Written(s, "none", EncodeVarint[7]) IN IF t.stop = "none" THEN Risen(t) ELSE t

LEMMA SevenFits == 7 \in 0 .. UnsignedMax /\ WireType.end = 7 /\ EncodeVarint[7] \in Seq(Nat)
<1>1. 7 \in 0 .. UnsignedMax
  BY WordIs, WordAssumption
<1>2. EncodeVarint[7] \in Seq(Nat)
  <2>1. 7 \in Nat
    OBVIOUS
  <2> QED BY <2>1, EncodeVarintIs
<1> QED BY <1>1, <1>2 DEF WireType

LEMMA DoClose ==
  ASSUME NEW e \in Engines, NEW s, IsEncoder(s), NEW w \in Stops, NEW keep \in BOOLEAN
  PROVE  Do(e, Halted(s, w), Closed(keep)) = Closes(s, w, keep)
<1>1. PICK x, t, y : x = Closed(keep) /\ t = Halted(s, w) /\ y = Written(s, "none", EncodeVarint[7])
  OBVIOUS
<1>2. x.do = "close" /\ x.keep = keep /\ t.stop = w /\ t.pending = s.pending /\ IsEncoder(t)
  BY <1>1, HaltedIs, SMTT(40) DEF Closed
<1>3. Do(e, t, x) = IF t.stop # "none" THEN t ELSE Close(e, t, x.keep)
  BY <1>2, Zenon DEF Do
<1>4. CASE w # "none"
  BY <1>1, <1>2, <1>3, <1>4 DEF Closes
<1>5. CASE w = "none"
  <2>1. CASE s.pending # <<>> /\ ~keep
    BY <1>1, <1>2, <1>3, <1>5, <2>1 DEF Close, Closes, Shrunk
  <2>2. CASE ~(s.pending # <<>> /\ ~keep)
    <3>1. PICK z, k : z = CommitPending(e, t) /\ k = EmitVarint(e, z, 7)
      OBVIOUS
    <3>2. Close(e, t, keep) = IF k.stop = "none" THEN Risen(k) ELSE k
      BY <1>2, <2>2, <3>1, SevenFits DEF Close, Risen
    <3>3. z = Written(s, "none", <<>>)
      <4>1. PICK m : m = Commit
        OBVIOUS
      <4>2. Do(e, t, m) = Written(s, "none", <<>>)
        BY <1>1, <1>5, <4>1, DoCommit
      <4>3. m.do = "commit"
        BY <4>1, SMTT(40) DEF Commit
      <4>4. Do(e, t, m) = IF t.stop # "none" THEN t ELSE CommitPending(e, t)
        BY <4>3, Zenon DEF Do
      <4> QED BY <1>2, <1>5, <3>1, <4>2, <4>4
    <3>4. k = y
      <4>1. "none" \in Stops /\ <<>> \in Seq(Nat)
        BY DEF Stops
      <4>2. IsEncoder(z)
        BY <3>3, <4>1, WrittenIs
      <4>3. k = Put(z, EncodeVarint[7])
        BY <3>1, <4>2, SevenFits, EmitIs
      <4>4. Put(z, EncodeVarint[7]) = Written(s, "none", <<>> \o EncodeVarint[7])
        <5>1. PICK v, a, b : v = "none" /\ a = <<>> /\ b = EncodeVarint[7]
          OBVIOUS
        <5>2. v \in Stops /\ a \in Seq(Nat) /\ b \in Seq(Nat)
          BY <4>1, <5>1, SevenFits
        <5>3. Put(Written(s, v, a), b) = Written(s, v, a \o b)
          BY <5>2, WrittenMore
        <5> QED BY <3>3, <5>1, <5>3
      <4>5. <<>> \o EncodeVarint[7] = EncodeVarint[7]
        BY SevenFits
      <4> QED BY <1>1, <4>3, <4>4, <4>5
    <3> QED BY <1>1, <1>2, <1>3, <1>5, <2>2, <3>2, <3>4 DEF Closes
  <2> QED BY <2>1, <2>2
<1> QED BY <1>4, <1>5

(* What writing leaves alone.                                              *)
LEMMA WrittenFields ==
  ASSUME NEW s, IsEncoder(s), NEW b \in Seq(Nat)
  PROVE  /\ Written(s, "none", b).depth = s.depth /\ Written(s, "none", b).error = s.error
         /\ Written(s, "none", b).sticky = s.sticky /\ Written(s, "none", b).room = s.room
         /\ Written(s, "none", b).pending = <<>>
<1>1. PICK t, x, u : /\ t = Emptied(Halted(s, "none")) /\ x = FlattenSeq(Opens(s.pending)) \o b
                     /\ u = Written(s, "none", b)
  OBVIOUS
<1>2. "none" \in Stops
  BY DEF Stops
<1>3. /\ IsEncoder(t) /\ t.depth = s.depth /\ t.error = s.error /\ t.sticky = s.sticky /\ t.room = s.room
      /\ t.pending = <<>>
  <2>1. PICK h : h = Halted(s, "none")
    OBVIOUS
  <2>2. IsEncoder(h) /\ h.depth = s.depth /\ h.error = s.error /\ h.sticky = s.sticky /\ h.room = s.room
    BY <1>2, <2>1, HaltedIs
  <2> QED BY <1>1, <2>1, <2>2, EmptiedIs
<1>4. x \in Seq(Nat)
  BY <1>1, RunIs
<1>5. u = Put(t, x)
  BY <1>1 DEF Written
<1>6. u.depth = t.depth /\ u.error = t.error /\ u.sticky = t.sticky /\ u.room = t.room /\ u.pending = t.pending
  BY <1>3, <1>4, <1>5, PutKeeps
<1> QED BY <1>1, <1>3, <1>6

LEMMA ClosesIs ==
  ASSUME NEW s, IsEncoder(s), NEW w \in Stops, NEW keep \in BOOLEAN, w = "none" => s.depth > 0
  PROVE  IsEncoder(Closes(s, w, keep))
<1>1. CASE w # "none"
  BY <1>1, HaltedIs DEF Closes
<1>2. CASE w = "none" /\ s.pending # <<>> /\ ~keep
  <2>1. PICK t : t = Halted(s, "none")
    OBVIOUS
  <2>2. IsEncoder(t) /\ t.pending # <<>> /\ t.depth > 0
    BY <1>2, <2>1, HaltedIs
  <2> QED BY <1>2, <2>1, <2>2, ShrunkIs DEF Closes
<1>3. CASE w = "none" /\ ~(s.pending # <<>> /\ ~keep)
  <2>1. PICK t : t = Written(s, "none", EncodeVarint[7])
    OBVIOUS
  <2>2. IsEncoder(t)
    BY <1>3, <2>1, SevenFits, WrittenIs
  <2>3. t.depth = s.depth
    BY <1>3, <2>1, SevenFits, WrittenFields
  <2>4. t.stop = "none" => IsEncoder(Risen(t))
    BY <1>3, <2>2, <2>3, RisenIs
  <2> QED BY <1>3, <2>1, <2>2, <2>4 DEF Closes
<1> QED BY <1>1, <1>2, <1>3

(* A sequence is closed alike in both engines.                             *)
LEMMA EndEnds ==
  ASSUME NEW s, IsEncoder(s), NEW c, c.keep \in BOOLEAN
  PROVE  \E w \in Stops :
           /\ Tells(s, s.depth > 0, w) /\ Ends(s, End(c), End(c), Closes(s, w, c.keep))
<1>1. PICK g, d, k : g = ~Held(s) /\ d = (s.depth > 0) /\ k = c.keep
  OBVIOUS
<1>2. g \in Flags /\ d \in Flags /\ k \in BOOLEAN
  BY <1>1, HeldFlag, EncoderIs DEF Flags
<1>3. PICK w1, w : /\ w1 = Then("none", g, "skip") /\ w = Then(w1, d, "argument")
  OBVIOUS
<1>4. w1 \in Stops /\ w \in Stops /\ "none" \in Stops
  BY <1>3 DEF Then, Stops
<1>5. Tells(s, d, w)
  <2>1. g \in BOOLEAN /\ d \in BOOLEAN
    BY <1>2 DEF Flags
  <2>2. (d => w = (IF g THEN "none" ELSE "skip")) /\ (~d => w # "none" /\ (w = "skip" => ~g))
    BY <1>3, <2>1 DEF Then
  <2> QED BY <1>1, <2>2 DEF Tells
<1>6. PICK x, y, z : x = Gate /\ y = Inside /\ z = Closed(k)
  OBVIOUS
<1>7. /\ x \in Checks /\ y \in Checks /\ z \in Steps /\ x \in Steps /\ y \in Steps
      /\ \A v : Answer(s, x, v) = Then(v, g, "skip") /\ Answer(s, y, v) = Then(v, d, "argument")
  <2>1. /\ \A v : Answer(s, Gate, v) = Then(v, ~Held(s), "skip")
        /\ \A v : Answer(s, Inside, v) = Then(v, s.depth > 0, "argument")
    BY ChecksAre
  <2>2. \A v : Answer(s, x, v) = Then(v, g, "skip") /\ Answer(s, y, v) = Then(v, d, "argument")
    BY <1>1, <1>6, <2>1
  <2> QED BY <1>2, <1>6, <2>2, ChecksAre, StepsAre
<1>8. ASSUME NEW e \in Engines
      PROVE  After(e, Halted(s, "none"), End(c)) = Closes(s, w, k) /\ End(c) \in Seq(Steps)
  <2>1. Leads(e, s, "none", <<x, y>>, Answer(s, y, Answer(s, x, "none")))
    BY <1>4, <1>7, LeadTwo
  <2>2. Answer(s, y, Answer(s, x, "none")) = w
    BY <1>3, <1>7
  <2>3. <<x, y>> \in Seq(Steps) /\ After(e, Halted(s, "none"), <<x, y>>) = Halted(s, w)
    BY <2>1, <2>2 DEF Leads
  <2>4. <<z>> \in Seq(Steps) /\ After(e, Halted(s, w), <<z>>) = Do(e, Halted(s, w), z)
    BY <1>7, AfterOne
  <2>5. Do(e, Halted(s, w), z) = Closes(s, w, k)
    BY <1>2, <1>4, <1>6, DoClose
  <2>6. End(c) = <<x, y>> \o <<z>>
    <3>1. End(c) = <<x, y, z>>
      BY <1>1, <1>6 DEF End
    <3> QED BY <3>1
  <2>7. PICK a, b : a = <<x, y>> /\ b = <<z>>
    OBVIOUS
  <2>9. a \in Seq(Steps) /\ b \in Seq(Steps)
    BY <2>3, <2>4, <2>7
  <2>8. a \o b \in Seq(Steps)
        /\ After(e, Halted(s, "none"), a \o b) = After(e, After(e, Halted(s, "none"), a), b)
    BY <2>9, StepsJoin
  <2> QED BY <1>1, <2>3, <2>4, <2>5, <2>6, <2>7, <2>8
<1>9. w = "none" => s.depth > 0
  <2>1. d \in BOOLEAN
    BY <1>2 DEF Flags
  <2>2. w = "none" => d
    BY <1>3, <2>1 DEF Then
  <2> QED BY <1>1, <2>2
<1>10. IsEncoder(Closes(s, w, k))
  BY <1>2, <1>4, <1>9, ClosesIs
<1>11. Ends(s, End(c), End(c), Closes(s, w, k))
  <2>1. "pure" \in Engines /\ "native" \in Engines
    BY DEF Engines
  <2> QED BY <1>8, <1>10, <2>1 DEF Ends
<1> QED BY <1>1, <1>4, <1>5, <1>11

-----------------------------------------------------------------------------
(* Every call.                                                             *)
LEMMA AgreeEnds ==
  ASSUME NEW s, IsEncoder(s), NEW c, NEW p, NEW q, Agree(s, c, p, q)
  PROVE  \E w \in Stops :
           /\ Tells(s, HeaderFits(c), w) /\ (w = "none" => FieldBytes(c) \in Seq(Nat))
           /\ Ends(s, p, q, Written(s, w, FieldBytes(c)))
<1>1. PICK w \in Stops : /\ Told(s, c, w)
                         /\ \A e \in Engines : /\ Reaches(e, s, "none", p, w, FieldBytes(c))
                                               /\ Reaches(e, s, "none", q, w, FieldBytes(c))
  BY DEF Agree
<1>2. Tells(s, HeaderFits(c), w)
  BY <1>1 DEF Tells, Told
<1>3. Reaches("pure", s, "none", p, w, FieldBytes(c)) /\ Reaches("native", s, "none", q, w, FieldBytes(c))
  BY <1>1 DEF Engines
<1>4. /\ p \in Seq(Steps) /\ q \in Seq(Steps) /\ (w = "none" => FieldBytes(c) \in Seq(Nat))
      /\ After("pure", Halted(s, "none"), p) = Written(s, w, FieldBytes(c))
      /\ After("native", Halted(s, "none"), q) = Written(s, w, FieldBytes(c))
  BY <1>3 DEF Reaches
<1>5. IsEncoder(Written(s, w, FieldBytes(c)))
  BY <1>4, WrittenIs
<1> QED BY <1>2, <1>4, <1>5 DEF Ends

LEMMA CallScalar ==
  ASSUME NEW s, IsEncoder(s), NEW c, IsCall(c), c.op = "scalar"
  PROVE  Agree(s, c, PureWrite(c), NativeWrite(c))
<1>1. c.id \in Arg /\ c.kind \in {"unsigned", "signed"} /\ c.width \in {"wide", "narrow"} /\ c.v \in Arg
  BY DEF IsCall, IsBound
<1>2. PureWrite(c) = PureScalar(c) /\ NativeWrite(c) = NativeScalar(c)
  BY Zenon DEF PureWrite, NativeWrite
<1> QED BY <1>1, <1>2, ScalarWrites

LEMMA CallBool ==
  ASSUME NEW s, IsEncoder(s), NEW c, IsCall(c), c.op = "bool"
  PROVE  Agree(s, c, PureWrite(c), NativeWrite(c))
<1>1. c.id \in Arg /\ c.v \in BOOLEAN
  BY DEF IsCall, IsBound
<1>2. PureWrite(c) = PureBool(c) /\ NativeWrite(c) = NativeBool(c)
  BY Zenon DEF PureWrite, NativeWrite
<1> QED BY <1>1, <1>2, BoolWrites

LEMMA CallFloat ==
  ASSUME NEW s, IsEncoder(s), NEW c, IsCall(c), c.op = "float"
  PROVE  Agree(s, c, PureWrite(c), NativeWrite(c))
<1>1. c.id \in Arg /\ c.payload \in Seq(Nat) /\ Len(c.payload) = FloatSize /\ c.ok \in BOOLEAN
  BY DEF IsCall, IsBound
<1>2. PureWrite(c) = PureFloat(c) /\ NativeWrite(c) = NativeFloat(c)
  BY Zenon DEF PureWrite, NativeWrite
<1> QED BY <1>1, <1>2, FloatWrites

LEMMA CallFloatBits ==
  ASSUME NEW s, IsEncoder(s), NEW c, IsCall(c), c.op = "bits"
  PROVE  Agree(s, c, PureWrite(c), NativeWrite(c))
<1>1. c.id \in Arg /\ c.payload \in Seq(Nat) /\ Len(c.payload) = FloatSize /\ c.ok \in BOOLEAN /\ c.inRange \in BOOLEAN
  BY DEF IsCall, IsBound
<1>2. PureWrite(c) = PureFloatBits(c) /\ NativeWrite(c) = NativeFloatBits(c)
  BY Zenon DEF PureWrite, NativeWrite
<1> QED BY <1>1, <1>2, BitsWrites

LEMMA CallText ==
  ASSUME NEW s, IsEncoder(s), NEW c, IsCall(c), c.op = "text"
  PROVE  Agree(s, c, PureWrite(c), NativeWrite(c))
<1>1. c.id \in Arg /\ c.payload \in Seq(Nat) /\ c.ok \in BOOLEAN /\ IsBound(c.bound)
  BY DEF IsCall, IsBound
<1>2. PureWrite(c) = PureText(c) /\ NativeWrite(c) = NativeText(c)
  BY Zenon DEF PureWrite, NativeWrite
<1> QED BY <1>1, <1>2, TextWrites

LEMMA CallBlob ==
  ASSUME NEW s, IsEncoder(s), NEW c, IsCall(c), c.op = "blob"
  PROVE  Agree(s, c, PureWrite(c), NativeWrite(c))
<1>1. c.id \in Arg /\ c.payload \in Seq(Nat) /\ c.ok \in BOOLEAN /\ IsBound(c.bound)
  BY DEF IsCall, IsBound
<1>2. PureWrite(c) = PureBlob(c) /\ NativeWrite(c) = NativeBlob(c)
  BY Zenon DEF PureWrite, NativeWrite
<1> QED BY <1>1, <1>2, BlobWrites

LEMMA CallBools ==
  ASSUME NEW s, IsEncoder(s), NEW c, IsCall(c), c.op = "bools"
  PROVE  Agree(s, c, PureWrite(c), NativeWrite(c))
<1>1. c.id \in Arg /\ c.elems \in Seq(BOOLEAN) /\ Len(c.elems) <= UnsignedMax /\ IsBound(c.bound)
  BY DEF IsCall, IsBound
<1>2. PureWrite(c) = PureBools(c) /\ NativeWrite(c) = NativeBools(c)
  BY Zenon DEF PureWrite, NativeWrite
<1> QED BY <1>1, <1>2, BoolsWrites

LEMMA CallFloats ==
  ASSUME NEW s, IsEncoder(s), NEW c, IsCall(c), c.op = "floats"
  PROVE  Agree(s, c, PureWrite(c), NativeWrite(c))
<1>1. c.id \in Arg /\ c.elems \in Seq(Seq(Nat)) /\ Len(c.elems) <= UnsignedMax /\ c.ok \in BOOLEAN /\ IsBound(c.bound)
  BY DEF IsCall, IsBound
<1>2. PureWrite(c) = PureFloats(c) /\ NativeWrite(c) = NativeFloats(c)
  BY Zenon DEF PureWrite, NativeWrite
<1> QED BY <1>1, <1>2, FloatsWrites

LEMMA CallFloatsBits ==
  ASSUME NEW s, IsEncoder(s), NEW c, IsCall(c), c.op = "floatsBits", Converts(c.count)
  PROVE  Agree(s, c, PureWrite(c), NativeWrite(c))
<1>1. c.id \in Arg /\ c.payload \in Seq(Nat) /\ Len(c.payload) <= UnsignedMax /\ c.ok \in BOOLEAN /\ c.count \in Seq(Int) /\ Len(c.count) <= 1
  BY DEF IsCall, IsBound
<1>2. PureWrite(c) = PureFloatsBits(c) /\ NativeWrite(c) = NativeFloatsBits(c)
  BY Zenon DEF PureWrite, NativeWrite
<1> QED BY <1>1, <1>2, FloatsBitsWrites

(* The calls that write whole or not at all, and those that may stop       *)
(* between.                                                                *)
AllFit(c) == \A i \in DOMAIN c.elems : ValueFits(c.elems[i], c)
Plain(c)  == c.op \notin {"begin", "end"} /\ (c.op = "array" => AllFit(c))
Partial(c) == c.op = "array" /\ ~AllFit(c)

LEMMA PlainAgrees ==
  ASSUME NEW s, IsEncoder(s), NEW c, IsCall(c), Plain(c), c.op = "floatsBits" => Converts(c.count)
  PROVE  Agree(s, c, PureWrite(c), NativeWrite(c))
<1>1. c.op \in {"scalar", "bool", "float", "bits", "text", "blob", "array", "bools", "floats", "floatsBits"}
  BY DEF IsCall, Plain
<1>2. CASE c.op = "array"
  <2>1. PureWrite(c) = PureArray(c) /\ NativeWrite(c) = NativeArray(c)
    BY <1>2, Zenon DEF PureWrite, NativeWrite
  <2>2. IsArray(c) /\ AllFit(c)
    BY <1>2 DEF IsCall, IsArray, IsBound, Plain
  <2> QED BY <2>1, <2>2, ArrayWrites DEF AllFit
<1> QED BY <1>1, <1>2, CallScalar, CallBool, CallFloat, CallFloatBits, CallText, CallBlob, CallBools,
           CallFloats, CallFloatsBits

(* Whatever is called, both engines end alike.                             *)
LEMMA CallEnds ==
  ASSUME NEW s, IsEncoder(s), NEW c, IsCall(c), c.op = "floatsBits" => Converts(c.count)
  PROVE  \E w \in Stops : \E t :
    /\ Ends(s, PureWrite(c), NativeWrite(c), t)
    /\ Plain(c) => /\ Tells(s, HeaderFits(c), w) /\ (w = "none" => FieldBytes(c) \in Seq(Nat))
                   /\ t = Written(s, w, FieldBytes(c))
    /\ Partial(c) => /\ Tells(s, HeaderFits(c), w)
                     /\ w = "none" => t.stop \in {"argument", "buffer"}
                     /\ w # "none" => t = Halted(s, w)
    /\ c.op = "begin" => /\ Tells(s, Named(c.id) /\ s.depth < MaxDepth, w)
                         /\ t = Began(s, w, c.id.n)
    /\ c.op = "end" => /\ Tells(s, s.depth > 0, w) /\ t = Closes(s, w, c.keep)
<1>1. CASE Plain(c)
  <2>1. ~Partial(c) /\ c.op # "begin" /\ c.op # "end"
    BY <1>1 DEF Plain, Partial
  <2> QED BY <1>1, <2>1, PlainAgrees, AgreeEnds
<1>2. CASE Partial(c)
  <2>1. ~Plain(c) /\ c.op # "begin" /\ c.op # "end" /\ c.op = "array"
    BY <1>2 DEF Plain, Partial
  <2>2. PureWrite(c) = PureArray(c) /\ NativeWrite(c) = NativeArray(c)
    BY <2>1, Zenon DEF PureWrite, NativeWrite
  <2>3. IsArray(c) /\ ~AllFit(c)
    BY <1>2 DEF IsCall, IsArray, IsBound, Partial
  <2>4. \E w \in Stops : \E t :
           /\ Told(s, c, w) /\ Ends(s, PureArray(c), NativeArray(c), t)
           /\ w = "none" => t.stop \in {"argument", "buffer"}
           /\ w # "none" => t = Halted(s, w)
    BY <2>3, ArrayBreaks DEF AllFit
  <2>5. \A w : Told(s, c, w) => Tells(s, HeaderFits(c), w)
    BY DEF Told, Tells
  <2> QED BY <2>1, <2>2, <2>4, <2>5
<1>3. CASE c.op = "begin"
  <2>1. ~Plain(c) /\ ~Partial(c) /\ c.op # "end"
    BY <1>3 DEF Plain, Partial
  <2>2. PureWrite(c) = PureBegin(c) /\ NativeWrite(c) = NativeBegin(c)
    BY <1>3, Zenon DEF PureWrite, NativeWrite
  <2>3. c.id \in Arg
    BY <1>3 DEF IsCall
  <2> QED BY <2>1, <2>2, <2>3, BeginEnds
<1>4. CASE c.op = "end"
  <2>1. ~Plain(c) /\ ~Partial(c) /\ c.op # "begin"
    BY <1>4 DEF Plain, Partial
  <2>2. PureWrite(c) = End(c) /\ NativeWrite(c) = End(c)
    BY <1>4, Zenon DEF PureWrite, NativeWrite
  <2>3. c.keep \in BOOLEAN
    BY <1>4 DEF IsCall
  <2> QED BY <2>1, <2>2, <2>3, EndEnds
<1>5. Plain(c) \/ Partial(c) \/ c.op = "begin" \/ c.op = "end"
  BY DEF Plain, Partial
<1> QED BY <1>1, <1>2, <1>3, <1>4, <1>5

-----------------------------------------------------------------------------
(* What a sticky encoder latches.                                          *)
LEMMA FailIs ==
  ASSUME NEW t, IsEncoder(t)
  PROVE  /\ IsEncoder(Fail(t)) /\ Fail(t).out = t.out /\ Fail(t).pending = t.pending /\ Fail(t).depth = t.depth
         /\ Fail(t).sticky = t.sticky /\ Fail(t).room = t.room
         /\ ~(t.sticky /\ t.stop \in {"argument", "buffer"}) => Fail(t) = t
         /\ t.sticky /\ t.stop \in {"argument", "buffer"} =>
              Fail(t).error # "none" /\ Fail(t).stop = "none" /\ (t.error # "none" => Fail(t).error = t.error)
<1>1. CASE ~(t.sticky /\ t.stop \in {"argument", "buffer"})
  BY <1>1 DEF Fail
<1>2. CASE t.sticky /\ t.stop \in {"argument", "buffer"}
  <2>1. PICK x, u : x = (IF t.error = "none" THEN t.stop ELSE t.error) /\ u = [t EXCEPT !.error = x, !.stop = "none"]
    OBVIOUS
  <2>2. x \in Errors /\ x # "none" /\ (t.error # "none" => x = t.error)
    BY <1>2, <2>1, EncoderIs DEF Errors
  <2>3. Fail(t) = u
    BY <1>2, <2>1 DEF Fail
  <2>4. "none" \in Stops
    BY DEF Stops
  <2>5. /\ u \in [out : Seq(Nat), pending : Seq(0 .. IdMax), depth : Nat, error : Errors, stop : Stops,
                  sticky : BOOLEAN, room : Nat]
        /\ u.pending = t.pending /\ u.depth = t.depth /\ u.out = t.out
        /\ u.error = x /\ u.stop = "none" /\ u.sticky = t.sticky /\ u.room = t.room
    BY <2>1, <2>2, <2>4 DEF IsEncoder
  <2>6. IsEncoder(u)
    BY <1>2, <2>5 DEF IsEncoder
  <2> QED BY <1>2, <2>2, <2>3, <2>5, <2>6
<1> QED BY <1>1, <1>2

(* A call is its steps, and what is latched of the reason.                 *)
LEMMA RunEnds ==
  ASSUME NEW s, IsEncoder(s), NEW p, NEW q, NEW t, Ends(s, p, q, t)
  PROVE  Run("pure", s, p) = Fail(t) /\ Run("native", s, q) = Fail(t)
BY DEF Ends, Run, Halted
=============================================================================
