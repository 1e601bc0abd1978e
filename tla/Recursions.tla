------------------------------ MODULE Recursions ------------------------------
(***************************************************************************)
(* Induction along a measure, and the existence of recursive functions.    *)
(***************************************************************************)
EXTENDS Integers, WellFoundedInduction, TLAPS

\* A set of naturals that is not empty has a least element.
LEMMA Least ==
  ASSUME NEW T \in SUBSET Nat, T # {}
  PROVE  \E m \in T : \A n \in T : m <= n
<1> DEFINE R == OpToRel(<, Nat)
<1>1. IsWellFoundedOn(R, Nat)
  BY NatLessThanWellFounded
<1>2. \A x, y \in Nat : x < y => <<x, y>> \in R
  BY DEF OpToRel
<1>3. \A x, y \in T : x < y => <<x, y>> \in R
  BY <1>2
<1> HIDE DEF R
<1>4. PICK m \in T : \A n \in T : ~(<<n, m>> \in R)
  BY <1>1, WFMin
<1>5. \A n \in T : ~(n < m)
  BY <1>3, <1>4
<1>6. \A n \in T : n \in Int /\ m \in Int
  OBVIOUS
<1>7. \A n \in T : m <= n
  BY <1>5, <1>6
<1> QED BY <1>7

\* Induction along a measure, for a set of arguments.
LEMMA MeasureInduction ==
  ASSUME NEW T, NEW m \in [T -> Nat], NEW P,
         \A t \in T : (\A s \in T : m[s] < m[t] => s \in P) => t \in P
  PROVE  T \subseteq P
<1> SUFFICES ASSUME NEW t0 \in T, t0 \notin P
             PROVE  FALSE
  OBVIOUS
<1> DEFINE Bad == {n \in Nat : \E t \in T : t \notin P /\ m[t] = n}
<1>1. m[t0] \in Bad
  OBVIOUS
<1>2. PICK n \in Bad : \A k \in Bad : n <= k
  BY <1>1, Least
<1>3. PICK t \in T : t \notin P /\ m[t] = n
  BY <1>2
<1>4. ASSUME NEW s \in T, m[s] < m[t]
      PROVE  s \in P
  <2>1. CASE s \notin P
    <3>1. m[s] \in Bad
      BY <2>1
    <3>2. n <= m[s] /\ m[s] \in Nat /\ n \in Nat
      BY <3>1, <1>2
    <3> QED BY <3>2, <1>3, <1>4
  <2> QED BY <2>1
<1> QED BY <1>3, <1>4

\* A recursive definition whose calls go down a measure has a solution.
Calls(T, S) == [T \X [T -> S] -> S]
GoDown(T, S, m, G) ==
  \A t \in T : \A f, g \in [T -> S] :
    (\A s \in T : m[s] < m[t] => f[s] = g[s]) => G[<<t, f>>] = G[<<t, g>>]
Solvable(T, S, G) == \E f \in [T -> S] : \A t \in T : f[t] = G[<<t, f>>]

\* What a definition computes from smaller arguments exists.
LEMMA Recursion ==
  ASSUME NEW T, NEW S, S # {}, NEW m \in [T -> Nat], NEW G \in Calls(T, S),
         GoDown(T, S, m, G)
  PROVE  Solvable(T, S, G)
<1> USE DEF Calls, GoDown, Solvable
<1> DEFINE Upto(n, f) == f \in [T -> S] /\ \A t \in T : m[t] < n => f[t] = G[<<t, f>>]
           Good == {n \in Nat : \E f : Upto(n, f)}
<1>1. 0 \in Good
  <2>1. PICK s \in S : TRUE
    OBVIOUS
  <2>2. Upto(0, [t \in T |-> s])
    OBVIOUS
  <2> QED BY <2>2
<1>2. ASSUME NEW n \in Good
      PROVE  n + 1 \in Good
  <2>1. PICK f : Upto(n, f)
    OBVIOUS
  <2> DEFINE g == [t \in T |-> G[<<t, f>>]]
  <2>2. g \in [T -> S]
    BY <2>1
  <2>3. ASSUME NEW t \in T, m[t] < n + 1
        PROVE  g[t] = G[<<t, g>>]
    <3>1. ASSUME NEW s \in T, m[s] < m[t]
          PROVE  f[s] = g[s]
      <4>1. m[s] < n
        BY <2>3, <3>1
      <4> QED BY <4>1, <2>1
    <3>2. G[<<t, f>>] = G[<<t, g>>]
      BY <3>1, <2>1, <2>2
    <3> QED BY <3>2
  <2>4. Upto(n + 1, g)
    BY <2>2, <2>3
  <2>5. n + 1 \in Nat
    OBVIOUS
  <2> HIDE DEF Upto, g
  <2> QED BY <2>4, <2>5
<1>3. Nat \subseteq Good
  <2> DEFINE id == [n \in Nat |-> n]
  <2> HIDE DEF Good
  <2>1. ASSUME NEW n \in Nat, \A k \in Nat : id[k] < id[n] => k \in Good
        PROVE  n \in Good
    <3>1. CASE n = 0
      BY <3>1, <1>1
    <3>2. CASE n # 0
      <4>1. n - 1 \in Nat /\ id[n - 1] < id[n] /\ (n - 1) + 1 = n
        BY <3>2
      <4>2. n - 1 \in Good
        BY <4>1, <2>1
      <4>3. (n - 1) + 1 \in Good
        BY <4>2, <1>2
      <4> QED BY <4>1, <4>3
    <3> QED BY <3>1, <3>2
  <2>2. id \in [Nat -> Nat]
    OBVIOUS
  <2> HIDE DEF id
  <2> QED BY <2>1, <2>2, MeasureInduction
<1>4. ASSUME NEW f, NEW n \in Nat, Upto(n, f), NEW g, NEW k \in Nat, Upto(k, g)
      PROVE  \A t \in T : m[t] < n /\ m[t] < k => f[t] = g[t]
  <2> DEFINE P == {t \in T : m[t] < n /\ m[t] < k => f[t] = g[t]}
  <2>1. ASSUME NEW t \in T, \A s \in T : m[s] < m[t] => s \in P
        PROVE  t \in P
    <3> SUFFICES ASSUME m[t] < n, m[t] < k
                 PROVE  f[t] = g[t]
      OBVIOUS
    <3>1. ASSUME NEW s \in T, m[s] < m[t]
          PROVE  f[s] = g[s]
      <4>1. m[s] < n /\ m[s] < k
        BY <3>1
      <4> QED BY <4>1, <3>1, <2>1
    <3>2. G[<<t, f>>] = G[<<t, g>>]
      BY <3>1, <1>4
    <3> QED BY <3>2, <1>4
  <2> HIDE DEF P
  <2>2. T \subseteq P
    BY <2>1, MeasureInduction
  <2> QED BY <2>2 DEF P
<1> DEFINE c(n) == CHOOSE f : Upto(n, f)
<1>5. ASSUME NEW n \in Nat
      PROVE  Upto(n, c(n))
  <2>1. \E f : Upto(n, f)
    BY <1>3
  <2> HIDE DEF Upto
  <2> QED BY <2>1
<1> DEFINE F == [t \in T |-> c(m[t] + 1)[t]]
<1> HIDE DEF c
<1>6. F \in [T -> S]
  BY <1>5
<1>7. ASSUME NEW t \in T
      PROVE  F[t] = G[<<t, F>>]
  <2>1. m[t] + 1 \in Nat /\ m[t] < m[t] + 1
    OBVIOUS
  <2>2. c(m[t] + 1)[t] = G[<<t, c(m[t] + 1)>>] /\ c(m[t] + 1) \in [T -> S]
    BY <2>1, <1>5
  <2>3. ASSUME NEW s \in T, m[s] < m[t]
        PROVE  F[s] = c(m[t] + 1)[s]
    <3>1. m[s] + 1 \in Nat /\ m[s] < m[s] + 1 /\ m[s] < m[t] + 1
      BY <2>3
    <3>2. Upto(m[s] + 1, c(m[s] + 1)) /\ Upto(m[t] + 1, c(m[t] + 1))
      BY <3>1, <2>1, <1>5
    <3> HIDE DEF Upto
    <3>3. c(m[s] + 1)[s] = c(m[t] + 1)[s]
      BY <3>1, <3>2, <2>1, <1>4
    <3> QED BY <3>3
  <2>4. G[<<t, F>>] = G[<<t, c(m[t] + 1)>>]
    BY <2>2, <2>3, <1>6
  <2> QED BY <2>2, <2>4
<1> QED BY <1>6, <1>7

=============================================================================
