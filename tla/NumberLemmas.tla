----------------------------- MODULE NumberLemmas -----------------------------
(***************************************************************************)
(* Natural numbers: least and greatest elements, induction up to a bound,  *)
(* and the existence of the run of a loop.  They are stated of sets and    *)
(* functions rather than of formulas, so that they can be cited.           *)
(***************************************************************************)
EXTENDS Integers, WellFoundedInduction, TLAPS

Below == {p \in Nat \X Nat : p[1] < p[2]}

(* A set of numbers has a least element. *)
LEMMA Least ==
  ASSUME NEW S \in SUBSET Nat, S # {}
  PROVE  \E x \in S : \A y \in S : x <= y
<1>1. Below = OpToRel(<, Nat)
  BY Zenon DEF OpToRel, Below
<1>2. IsWellFoundedOn(Below, Nat)
  BY Zenon, <1>1, NatLessThanWellFounded
<1>3. PICK x \in S : \A y \in S : ~ (<<y, x>> \in Below)
  BY <1>2, WFMin
<1>4. ASSUME NEW y \in S PROVE x <= y
  <2>1. ~(y < x)
    BY <1>3 DEF Below
  <2>. QED  BY <2>1
<1>. QED  BY <1>4

(* A bounded set of numbers has a greatest element. *)
LEMMA Greatest ==
  ASSUME NEW n \in Nat, NEW S \in SUBSET (1 .. n), S # {}
  PROVE  \E x \in S : \A y \in S : y <= x
<1> DEFINE T == {n - x : x \in S}
<1>1. T \in SUBSET Nat /\ T # {}
  <2>1. \A x \in S : n - x \in Nat
    OBVIOUS
  <2>. QED  BY <2>1
<1>2. PICK t \in T : \A u \in T : t <= u
  BY <1>1, Least
<1>3. PICK x \in S : t = n - x
  OBVIOUS
<1>4. \A y \in S : n - x <= n - y
  BY <1>2, <1>3
<1>. QED  BY <1>4

(* Induction over a set. *)
LEMMA ReachesAll ==
  ASSUME NEW n \in Nat, NEW S, 0 \in S,
         \A i \in 1 .. n : i - 1 \in S => i \in S
  PROVE  0 .. n \subseteq S
<1> DEFINE T == {i \in 0 .. n : i \notin S}
<1>1. SUFFICES ASSUME T # {} PROVE FALSE
  OBVIOUS
<1>2. PICK t \in T : \A u \in T : t <= u
  <2>1. T \in SUBSET Nat
    OBVIOUS
  <2>. QED BY <2>1, <1>1, Least
<1>3. t \in 1 .. n
  OBVIOUS
<1>4. t - 1 \notin T
  BY <1>2, <1>3
<1>. QED  BY <1>3, <1>4

(* The runs of the first k steps of a loop that starts with a and does     *)
(* step i with F.                                                          *)
Runs(k, A, a, F) ==
  {g \in [0 .. k -> A] :
     \A i \in 0 .. k : g[i] = IF i = 0 THEN a ELSE F[<<i, g[i - 1]>>]}

(* Another step can always be done. *)
LEMMA LoopStep ==
  ASSUME NEW n \in Nat, NEW A, NEW a \in A, NEW F \in [(1 .. n) \X A -> A],
         NEW k \in 1 .. n, NEW g \in Runs(k - 1, A, a, F)
  PROVE  \E h : h \in Runs(k, A, a, F)
<1> DEFINE h == [i \in 0 .. k |-> IF i = k THEN F[<<k, g[k - 1]>>] ELSE g[i]]
<1>1. /\ g \in [0 .. k - 1 -> A]
      /\ \A i \in 0 .. k - 1 : g[i] = IF i = 0 THEN a ELSE F[<<i, g[i - 1]>>]
  BY DEF Runs
<1>2. g[k - 1] \in A /\ F[<<k, g[k - 1]>>] \in A
  BY <1>1
<1>3. h \in [0 .. k -> A]
  BY <1>1, <1>2
<1>4. ASSUME NEW i \in 0 .. k
      PROVE h[i] = IF i = 0 THEN a ELSE F[<<i, h[i - 1]>>]
  <2>1. CASE i = k
    <3>1. h[i] = F[<<k, g[k - 1]>>] /\ i # 0 /\ k - 1 \in 0 .. k /\ k - 1 # k
      BY <2>1
    <3>2. h[k - 1] = g[k - 1]
      BY <3>1
    <3>. QED  BY <2>1, <3>1, <3>2
  <2>2. CASE i # k
    <3>1. i \in 0 .. k - 1 /\ h[i] = g[i]
      BY <2>2
    <3>2. ASSUME i # 0 PROVE h[i - 1] = g[i - 1]
      <4>1. i - 1 \in 0 .. k /\ i - 1 # k
        BY <3>1, <3>2
      <4>. QED  BY <4>1
    <3>3. CASE i = 0
      BY <3>1, <3>3, <1>1
    <3>4. CASE i # 0
      BY <3>1, <3>2, <3>4, <1>1
    <3>. QED  BY <3>3, <3>4
  <2>. QED  BY <2>1, <2>2
<1> HIDE DEF h
<1>5. h \in Runs(k, A, a, F)
  BY <1>3, <1>4 DEF Runs
<1>. QED  BY <1>5

(* So the whole loop can be done. *)
LEMMA LoopRuns ==
  ASSUME NEW n \in Nat, NEW A, NEW a \in A, NEW F \in [(1 .. n) \X A -> A]
  PROVE  \E g : g \in Runs(n, A, a, F)
<1> DEFINE S == {k \in 0 .. n : \E g : g \in Runs(k, A, a, F)}
<1>1. 0 \in S
  <2> DEFINE g == [i \in 0 .. 0 |-> a]
  <2>1. g \in Runs(0, A, a, F)
    BY DEF Runs
  <2>. QED  BY <2>1
<1>2. ASSUME NEW k \in 1 .. n, k - 1 \in S PROVE k \in S
  <2>1. PICK g : g \in Runs(k - 1, A, a, F)
    BY <1>2
  <2>2. \E h : h \in Runs(k, A, a, F)
    BY <2>1, LoopStep
  <2>. QED  BY <2>2
<1>3. n \in S
  <2> HIDE DEF S
  <2>1. 0 .. n \subseteq S
    BY <1>1, <1>2, ReachesAll
  <2>. QED  BY <2>1
<1>. QED  BY <1>3

===============================================================================
