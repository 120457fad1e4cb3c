------------------------------ MODULE Induction ------------------------------
(* Induction over the naturals for sets, not for predicates: the library's    *)
(* theorems on induction take an operator as a parameter, and a backend       *)
(* cannot instantiate one. A predicate P is used as {k \in 0 .. n : P(k)}.    *)
EXTENDS Integers, WellFoundedInduction, TLAPS

\* A set of naturals that is not empty has a least element.
LEMMA Least ==
    ASSUME NEW set \in SUBSET Nat, set # {}
    PROVE  \E x \in set : \A y \in set : x <= y
<1> DEFINE R == {pair \in Nat \X Nat : pair[1] < pair[2]}
<1>1. IsWellFoundedOn(R, Nat)
  BY NatLessThanWellFounded DEF OpToRel
<1>2. PICK x \in set : \A y \in set : ~(<<y, x>> \in R)
  <2> HIDE DEF R
  <2> QED BY <1>1, WFMin
<1>3. ASSUME NEW y \in set PROVE x <= y
  <2>1. x \in Nat /\ y \in Nat
    OBVIOUS
  <2>2. ~(y < x)
    BY <1>2, <2>1
  <2> QED BY <2>1, <2>2
<1> QED BY <1>3

\* Induction up to n.
LEMMA UpTo ==
    ASSUME NEW n \in Nat, NEW P, 0 \in P,
           \A k \in 1 .. n : k - 1 \in P => k \in P
    PROVE  0 .. n \subseteq P
<1> SUFFICES ASSUME (0 .. n) \ P # {} PROVE FALSE
  OBVIOUS
<1>1. PICK x \in (0 .. n) \ P : \A y \in (0 .. n) \ P : x <= y
  <2> (0 .. n) \ P \in SUBSET Nat
    OBVIOUS
  <2> QED BY Least
<1>2. x \in 1 .. n /\ x - 1 \in 0 .. n
  BY <1>1
<1>3. x - 1 \in P
  BY <1>1, <1>2
<1> QED BY <1>1, <1>2, <1>3

\* f starts with start, and step says what f[k - 1] becomes at k.
Follows(f, n, start, step) ==
    \A k \in 0 .. n : f[k] = IF k = 0 THEN start ELSE step[k][f[k - 1]]

\* A function that is defined by recursion exists. (A backend finds the
\* instance of this only if Follows is not expanded.)
LEMMA Recursion ==
    ASSUME NEW n \in Nat, NEW S, NEW start \in S, NEW step \in [1 .. n -> [S -> S]]
    PROVE  \E f \in [0 .. n -> S] : Follows(f, n, start, step)
<1> DEFINE Defined(m, f) ==
               \A k \in 0 .. m : f[k] = IF k = 0 THEN start ELSE step[k][f[k - 1]]
           P == {m \in 0 .. n : \E f \in [0 .. m -> S] : Defined(m, f)}
<1>1. 0 \in P
  <2>1. Defined(0, [k \in 0 .. 0 |-> start])
    OBVIOUS
  <2>2. [k \in 0 .. 0 |-> start] \in [0 .. 0 -> S]
    OBVIOUS
  <2> HIDE DEF Defined
  <2> QED BY <2>1, <2>2
<1>2. ASSUME NEW m \in 1 .. n, m - 1 \in P
      PROVE  m \in P
  <2>1. PICK f \in [0 .. m - 1 -> S] : Defined(m - 1, f)
    BY <1>2
  <2> DEFINE g == [k \in 0 .. m |-> IF k < m THEN f[k] ELSE step[m][f[m - 1]]]
  <2>2. g \in [0 .. m -> S]
    <3>1. ASSUME NEW k \in 0 .. m PROVE g[k] \in S
      <4>1. CASE k < m
        <5>1. k \in 0 .. m - 1
          BY <4>1
        <5> QED BY <4>1, <5>1
      <4>2. CASE k = m
        BY <4>2
      <4> QED BY <4>1, <4>2
    <3> QED BY <3>1
  <2>3. \A k \in 0 .. m : g[k] = IF k = 0 THEN start ELSE step[k][g[k - 1]]
    <3> SUFFICES ASSUME NEW k \in 0 .. m
                 PROVE  g[k] = IF k = 0 THEN start ELSE step[k][g[k - 1]]
      OBVIOUS
    <3>1. CASE k < m
      <4>1. k \in 0 .. m - 1 /\ g[k] = f[k]
        BY <3>1
      <4>2. f[k] = IF k = 0 THEN start ELSE step[k][f[k - 1]]
        BY <2>1, <4>1
      <4>3. k # 0 => k - 1 \in 0 .. m /\ k - 1 < m /\ g[k - 1] = f[k - 1]
        BY <4>1
      <4> QED BY <4>1, <4>2, <4>3
    <3>2. CASE k = m
      <4>1. m - 1 \in 0 .. m /\ m - 1 < m /\ k # 0
        BY <3>2
      <4>2. g[m - 1] = f[m - 1] /\ g[m] = step[m][f[m - 1]]
        BY <4>1
      <4> QED BY <3>2, <4>1, <4>2
    <3> QED BY <3>1, <3>2
  <2>4. Defined(m, g)
    <3> HIDE DEF g
    <3> QED BY <2>2, <2>3
  <2> HIDE DEF Defined
  <2> QED BY <2>2, <2>4
<1>3. 0 .. n \subseteq P
  <2> HIDE DEF P
  <2> QED BY <1>1, <1>2, UpTo
<1> QED BY <1>3 DEF Follows
=============================================================================
