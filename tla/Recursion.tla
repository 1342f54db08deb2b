------------------------------- MODULE Recursion -------------------------------
(***************************************************************************)
(* Numbers: least and greatest elements, induction, and recursive          *)
(* functions, which are what a LET f[n \in 0..N] == ... of a model is.     *)
(* Induction is over a set of numbers, not a predicate.                    *)
(***************************************************************************)
EXTENDS Integers, FiniteSetsExt, WellFoundedInduction, TLAPS

---------------------------------------------------------------------------
(* Least and greatest elements *)

LEMMA LeastExists ==
    ASSUME NEW S \in SUBSET Nat, S # {}
    PROVE  \E m \in S : \A x \in S : m <= x
  <1> DEFINE R == OpToRel(<, Nat)
  <1>1. IsWellFoundedOn(R, Nat)
    BY NatLessThanWellFounded
  <1>2. R = {r \in Nat \X Nat : r[1] < r[2]}
    BY DEF OpToRel
  <1> HIDE DEF R
  <1>3. PICK m \in S : \A y \in S : <<y, m>> \notin R
    BY <1>1, WFMin
  <1>4. \A y \in S : ~(y < m)
    BY <1>2, <1>3
  <1> QED BY <1>4

LEMMA MinIsLeast ==
    ASSUME NEW S \in SUBSET Nat, S # {}
    PROVE  Min(S) \in S /\ \A x \in S : Min(S) <= x
  BY LeastExists DEF Min

\* A set of numbers has a greatest one when some number bounds it.
LEMMA MaxIsGreatest ==
    ASSUME NEW S \in SUBSET Nat, S # {}, NEW b \in Nat, \A x \in S : x <= b
    PROVE  Max(S) \in S /\ \A x \in S : Max(S) >= x
  <1> DEFINE T == {b - x : x \in S}
  <1>1. T \in SUBSET Nat /\ T # {}
    <2>1. \A x \in S : b - x \in Nat
      OBVIOUS
    <2> QED BY <2>1
  <1>2. PICK m \in T : \A y \in T : m <= y
    BY <1>1, LeastExists
  <1>3. PICK x \in S : m = b - x
    BY <1>2
  <1>4. \A y \in S : x >= y
    <2> TAKE y \in S
    <2>1. b - x <= b - y
      BY <1>2, <1>3
    <2> QED BY <2>1
  <1> QED BY <1>4 DEF Max

---------------------------------------------------------------------------
(* Recursive functions of a number *)

\* Induction, for the numbers up to N: P is the set of those it holds for.
LEMMA UpTo ==
    ASSUME NEW N \in Nat, NEW P, 0 \in P, \A n \in 1..N : n - 1 \in P => n \in P
    PROVE  \A n \in 0..N : n \in P
  <1> DEFINE Fails == {n \in 0..N : n \notin P}
  <1>1. SUFFICES ASSUME Fails # {} PROVE FALSE
    OBVIOUS
  <1>2. Fails \in SUBSET Nat
    OBVIOUS
  <1>3. PICK m \in Fails : \A x \in Fails : m <= x
    BY <1>1, <1>2, LeastExists
  <1>4. m \in 1..N
    BY <1>3
  <1>5. m - 1 \in 0..N /\ m - 1 \notin Fails
    BY <1>3, <1>4
  <1> QED BY <1>3, <1>4, <1>5

\* f goes on from base by a step at each number up to N.
GoesOn(f, N, base, step) ==
    \A n \in 0..N : f[n] = IF n = 0 THEN base ELSE step[n][f[n - 1]]

LEMMA RecursionExists ==
    ASSUME NEW N \in Nat, NEW S, NEW base \in S, NEW step \in [1..N -> [S -> S]]
    PROVE  \E f \in [0..N -> S] : GoesOn(f, N, base, step)
  <1> DEFINE P == {m \in 0..N : \E f \in [0..m -> S] : GoesOn(f, m, base, step)}
  <1>1. 0 \in P
    <2> DEFINE h == [n \in 0..0 |-> base]
    <2>1. h \in [0..0 -> S] /\ GoesOn(h, 0, base, step)
      BY DEF GoesOn
    <2> HIDE DEF h
    <2> QED BY <2>1
  <1>2. ASSUME NEW m \in 1..N, m - 1 \in P PROVE m \in P
    <2>1. PICK g \in [0..(m - 1) -> S] : GoesOn(g, m - 1, base, step)
      BY <1>2
    <2> DEFINE h == [n \in 0..m |-> IF n = m THEN step[m][g[m - 1]] ELSE g[n]]
    <2>2. g[m - 1] \in S /\ m - 1 \in 0..(m - 1)
      OBVIOUS
    <2>3. step[m][g[m - 1]] \in S
      BY <2>2
    <2>4. h \in [0..m -> S]
      <3>1. \A n \in 0..m : n # m => n \in 0..(m - 1)
        OBVIOUS
      <3> QED BY <2>3, <3>1
    <2>5. h[m] = step[m][h[m - 1]]
      <3>1. h[m] = step[m][g[m - 1]]
        OBVIOUS
      <3>2. m - 1 \in 0..m /\ m - 1 # m
        OBVIOUS
      <3>3. h[m - 1] = g[m - 1]
        BY <3>2
      <3> QED BY <3>1, <3>3
    <2>6. \A n \in 0..(m - 1) : h[n] = g[n] /\ (n # 0 => h[n - 1] = g[n - 1])
      OBVIOUS
    <2> HIDE DEF h
    <2>7. GoesOn(h, m, base, step)
      <3> SUFFICES ASSUME NEW n \in 0..m
                   PROVE  h[n] = IF n = 0 THEN base ELSE step[n][h[n - 1]]
        BY DEF GoesOn
      <3>1. CASE n = m
        BY <2>5, <3>1
      <3>2. CASE n # m
        <4>1. n \in 0..(m - 1)
          BY <3>2
        <4> QED BY <2>1, <2>6, <4>1 DEF GoesOn
      <3> QED BY <3>1, <3>2
    <2> QED BY <2>4, <2>7
  <1> HIDE DEF P
  <1>3. \A n \in 0..N : n \in P
    BY <1>1, <1>2, UpTo, Zenon
  <1>4. N \in 0..N
    OBVIOUS
  <1> QED BY <1>3, <1>4 DEF P
================================================================================
