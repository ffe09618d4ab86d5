------------------------------ MODULE Induction ------------------------------
(***************************************************************************)
(* Induction and recursion over the natural numbers, with sets and         *)
(* functions in place of predicates and operators: whatever is proved by   *)
(* induction in the other modules is the claim that some set is Nat, and   *)
(* whatever is defined by recursion follows some step function.            *)
(***************************************************************************)
EXTENDS Integers, WellFoundedInduction, TLAPS

Less == {ss \in Nat \X Nat : ss[1] < ss[2]}

LEMMA LessIsWellFounded == IsWellFoundedOn(Less, Nat)
<1>1. OpToRel(<, Nat) = Less
  BY DEF OpToRel, Less
<1> QED
  BY <1>1, NatLessThanWellFounded

(* A set of natural numbers has a least element, *)
LEMMA Least ==
  ASSUME NEW T, T \subseteq Nat, T # {}
  PROVE  \E m \in T : \A k \in T : m <= k
<1>1. PICK m \in T : \A k \in T : ~(<<k, m>> \in Less)
  BY WFMin, LessIsWellFounded
<1>2. ASSUME NEW k \in T
      PROVE  m <= k
  <2>1. <<k, m>> \notin Less
    BY <1>1
  <2> QED
    BY <2>1 DEF Less
<1> QED
  BY <1>1, <1>2

(* and a greatest one if it is bounded. *)
LEMMA Greatest ==
  ASSUME NEW T, T \subseteq Nat, T # {}, NEW b \in Nat, \A k \in T : k <= b
  PROVE  \E m \in T : \A k \in T : k <= m
<1> DEFINE U == {j \in Nat : b - j \in T}
<1>1. U # {}
  <2>1. PICK k \in T : TRUE
    OBVIOUS
  <2>2. b - k \in U
    BY <2>1
  <2> QED
    BY <2>2
<1>2. PICK j \in U : \A i \in U : j <= i
  BY <1>1, Least
<1>3. ASSUME NEW k \in T
      PROVE  k <= b - j
  <2>1. b - k \in U
    BY <1>3
  <2> QED
    BY <1>2, <2>1
<1> QED
  BY <1>2, <1>3

(* What holds of 0 and is inherited by the next number holds of all. *)
LEMMA Induct ==
  ASSUME NEW S, S \subseteq Nat, 0 \in S, \A k \in S : k + 1 \in S
  PROVE  S = Nat
<1> SUFFICES ASSUME Nat \ S # {} PROVE FALSE
  OBVIOUS
<1>1. PICK m \in Nat \ S : \A k \in Nat \ S : m <= k
  BY Least
<1>2. m - 1 \in S
  BY <1>1
<1> QED
  BY <1>1, <1>2

(* A function can be defined step by step. *)
Follows(f, start, move, n) ==
  /\ f[0] = start
  /\ \A i \in 1 .. n : f[i] = move[i][f[i - 1]]

LEMMA RecursionExists ==
  ASSUME NEW S, NEW start \in S, NEW n \in Nat,
         NEW move \in [1 .. n -> [S -> S]]
  PROVE  \E f \in [0 .. n -> S] : Follows(f, start, move, n)
<1> DEFINE T == {k \in Nat : k <= n =>
                   \E f \in [0 .. k -> S] : Follows(f, start, move, k)}
<1>1. 0 \in T
  <2>1. [i \in 0 .. 0 |-> start] \in [0 .. 0 -> S]
    OBVIOUS
  <2>2. Follows([i \in 0 .. 0 |-> start], start, move, 0)
    BY DEF Follows
  <2> QED
    BY <2>1, <2>2
<1>2. ASSUME NEW k \in T
      PROVE  k + 1 \in T
  <2> SUFFICES ASSUME k + 1 <= n
               PROVE  \E f \in [0 .. k + 1 -> S] :
                        Follows(f, start, move, k + 1)
    OBVIOUS
  <2>1. PICK f \in [0 .. k -> S] : Follows(f, start, move, k)
    OBVIOUS
  <2> DEFINE g == [i \in 0 .. k + 1 |->
                     IF i <= k THEN f[i] ELSE move[k + 1][f[k]]]
  <2>2. f[k] \in S /\ k + 1 \in 1 .. n
    BY <2>1
  <2>3. move[k + 1][f[k]] \in S
    BY <2>2
  <2>4. g \in [0 .. k + 1 -> S]
    BY <2>1, <2>3
  <2>5. Follows(g, start, move, k + 1)
    <3>1. g[0] = start
      BY <2>1 DEF Follows
    <3>2. ASSUME NEW i \in 1 .. k + 1
          PROVE  g[i] = move[i][g[i - 1]]
      <4>1. CASE i = k + 1
        BY <4>1
      <4>2. CASE i # k + 1
        <5>1. i \in 1 .. k /\ i - 1 \in 0 .. k + 1 /\ i \in 0 .. k + 1
          BY <4>2
        <5> QED
          BY <2>1, <5>1 DEF Follows
      <4> QED
        BY <4>1, <4>2
    <3> QED
      BY <3>1, <3>2 DEF Follows
  <2> QED
    BY <2>4, <2>5
<1>3. T = Nat
  <2> HIDE DEF T
  <2>1. T \subseteq Nat
    BY DEF T
  <2> QED
    BY <1>1, <1>2, <2>1, Induct
<1> QED
  BY <1>3
=============================================================================
