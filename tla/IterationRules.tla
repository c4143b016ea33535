--------------------------- MODULE IterationRules ---------------------------
(***************************************************************************)
(* Induction over numbers, in a form that takes a set and no predicate,    *)
(* and what it gives for a function that is defined by recursion.  The     *)
(* library states induction for an operator, which the provers cannot      *)
(* instantiate; these lemmas derive it from the well-foundedness of the    *)
(* natural numbers, for the proofs about lists and searches.               *)
(***************************************************************************)
EXTENDS Integers, WellFoundedInduction, TLAPS

LEMMA LeastNumber ==
  ASSUME NEW T, T \subseteq Nat, T # {}
  PROVE  \E x \in T : \A y \in T : x <= y
<1> DEFINE R == {ss \in Nat \X Nat : ss[1] < ss[2]}
<1>1. IsWellFoundedOn(R, Nat)
  BY NatLessThanWellFounded DEF OpToRel
<1>2. \E x \in T : \A y \in T : ~ (<<y, x>> \in R)
  <2> HIDE DEF R
  <2> QED
    BY <1>1, WFMin
<1>3. PICK x \in T : \A y \in T : ~ (<<y, x>> \in R)
  BY <1>2
<1>4. \A y \in T : ~ (y < x)
  BY <1>3
<1> QED
  BY <1>4

LEMMA Induction ==
  ASSUME NEW S, 0 \in S, \A n \in Nat : n \in S => n + 1 \in S
  PROVE  \A n \in Nat : n \in S
<1> SUFFICES ASSUME Nat \ S # {} PROVE FALSE
  OBVIOUS
<1>1. PICK x \in Nat \ S : \A y \in Nat \ S : x <= y
  BY LeastNumber
<1>2. x # 0 /\ x - 1 \in Nat /\ x - 1 \in S
  BY <1>1
<1> QED
  BY <1>1, <1>2

(* The steps of a recursion over 1..n whose values are in S, and the       *)
(* function that takes them, from a start.                                 *)
StepsOf(n, S) == [1..n -> [S -> S]]

Iterates(f, start, step, n, S) ==
  /\ f \in [0..n -> S] /\ f[0] = start
  /\ \A i \in 1..n : f[i] = step[i][f[i - 1]]

LEMMA Iteration ==
  ASSUME NEW S, NEW start \in S, NEW n \in Nat, NEW step \in StepsOf(n, S)
  PROVE  \E f : Iterates(f, start, step, n, S)
<1> DEFINE Good == {m \in Nat : m <= n => \E f : Iterates(f, start, step, m, S)}
<1>1. 0 \in Good
  <2>1. Iterates([i \in 0..0 |-> start], start, step, 0, S)
    BY DEF Iterates
  <2> QED
    BY <2>1
<1>2. ASSUME NEW m \in Nat, m \in Good, m + 1 <= n
      PROVE  \E f : Iterates(f, start, step, m + 1, S)
  <2>1. PICK f : Iterates(f, start, step, m, S)
    BY <1>2
  <2> DEFINE g == [i \in 0..(m + 1) |-> IF i <= m THEN f[i] ELSE step[m + 1][f[m]]]
  <2>2. /\ f \in [0..m -> S] /\ f[0] = start
        /\ \A i \in 1..m : f[i] = step[i][f[i - 1]]
    BY <2>1 DEF Iterates
  <2>3. step[m + 1][f[m]] \in S
    BY <1>2, <2>2 DEF StepsOf
  <2>4. g \in [0..(m + 1) -> S]
    BY <2>2, <2>3
  <2>5. g[0] = start
    BY <2>2
  <2>6. ASSUME NEW i \in 1..(m + 1) PROVE g[i] = step[i][g[i - 1]]
    <3>1. CASE i <= m
      BY <2>2, <3>1
    <3>2. CASE i = m + 1
      BY <3>2
    <3> QED
      BY <3>1, <3>2
  <2>7. Iterates(g, start, step, m + 1, S)
    BY <2>4, <2>5, <2>6 DEF Iterates
  <2> QED
    BY <2>7
<1>3. \A m \in Nat : m \in Good
  <2>1. \A m \in Nat : m \in Good => m + 1 \in Good
    BY <1>2
  <2> HIDE DEF Good
  <2> QED
    BY <1>1, <2>1, Induction
<1> QED
  BY <1>3
=============================================================================
