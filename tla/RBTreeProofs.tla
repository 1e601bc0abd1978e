---------------------------- MODULE RBTreeProofs ----------------------------
(***************************************************************************)
(* The search tree is the map that the calls have built, and balanced, for *)
(* any finite set of integer keys and any data.                            *)
(*                                                                         *)
(* The operations are recursive functions on trees.  That they do what     *)
(* their definitions say, and what they do to every tree, is proved by a   *)
(* least counterexample: the naturals are well founded under <, and the    *)
(* size or the levels of a tree are naturals.                              *)
(***************************************************************************)
EXTENDS RBTree, Recursions, FiniteSetTheorems, SequenceTheorems, TLAPS

-----------------------------------------------------------------------------
(***************************************************************************)
(* The trees themselves.                                                   *)
(***************************************************************************)
\* The levels of a tree exist: their range is not a set we can name.
LEMMA LevelsDef ==
  /\ TreesTo[0] = {Nil}
  /\ \A n \in Nat : TreesTo[n + 1] = {Nil} \cup NodesOver(TreesTo[n])
<1> DEFINE Body(f, n) == IF n = 0 THEN {Nil} ELSE {Nil} \cup NodesOver(f[n - 1])
           Upto(n, f) == f = [i \in 0..n |-> Body(f, i)]
           Good == {n \in Nat : \E f : Upto(n, f)}
<1>1. 0 \in Good
  <2>1. Upto(0, [i \in 0..0 |-> {Nil}])
    OBVIOUS
  <2> QED BY <2>1
<1>2. ASSUME NEW n \in Good
      PROVE  n + 1 \in Good
  <2>1. PICK f : Upto(n, f)
    OBVIOUS
  <2> DEFINE g == [i \in 0..n+1 |-> IF i = n + 1 THEN {Nil} \cup NodesOver(f[n]) ELSE f[i]]
  <2>2. n \in Nat /\ DOMAIN g = 0..n+1 /\ g = [i \in 0..n+1 |-> g[i]]
    OBVIOUS
  <2>3. ASSUME NEW i \in 0..n+1
        PROVE  g[i] = Body(g, i)
    <3>1. CASE i = n + 1
      <4>1. n + 1 # 0 /\ (n + 1) - 1 = n /\ n \in 0..n+1 /\ n # n + 1
        BY <2>2
      <4>2. g[n] = f[n]
        BY <4>1
      <4>3. g[i] = {Nil} \cup NodesOver(f[n])
        BY <3>1
      <4> QED BY <4>1, <4>2, <4>3, <3>1
    <3>2. CASE i # n + 1 /\ i = 0
      BY <3>2, <2>1, <2>2
    <3>3. CASE i # n + 1 /\ i # 0
      <4>1. i \in 0..n /\ i - 1 \in 0..n /\ i - 1 # n + 1 /\ i - 1 \in 0..n+1
        BY <3>3, <2>2
      <4>2. f[i] = {Nil} \cup NodesOver(f[i - 1])
        BY <4>1, <2>1, <3>3
      <4>3. g[i] = f[i] /\ g[i - 1] = f[i - 1]
        BY <4>1, <3>3
      <4> QED BY <4>2, <4>3, <3>3
    <3> QED BY <3>1, <3>2, <3>3
  <2>4. Upto(n + 1, g)
    <3> HIDE DEF g, Body
    <3> QED BY <2>2, <2>3
  <2> HIDE DEF Upto, g
  <2> QED BY <2>4, <2>2
<1>3. Nat \subseteq Good
  <2> DEFINE id == [n \in Nat |-> n]
  <2> HIDE DEF Good
  <2>1. ASSUME NEW n \in Nat, \A k \in Nat : id[k] < id[n] => k \in Good
        PROVE  n \in Good
    <3>1. CASE n = 0
      BY <3>1, <1>1
    <3>2. CASE n # 0
      <4>1. n - 1 \in Nat /\ id[n - 1] < id[n] /\ (n - 1) + 1 = n
        BY <3>2
      <4>2. n - 1 \in Good
        BY <4>1, <2>1
      <4>3. (n - 1) + 1 \in Good
        BY <4>2, <1>2
      <4> QED BY <4>1, <4>3
    <3> QED BY <3>1, <3>2
  <2>2. id \in [Nat -> Nat]
    OBVIOUS
  <2> HIDE DEF id
  <2> QED BY <2>1, <2>2, MeasureInduction
<1>4. ASSUME NEW n \in Nat, NEW f, Upto(n, f), NEW k \in Nat, NEW g, Upto(k, g)
      PROVE  \A i \in Nat : i <= n /\ i <= k => f[i] = g[i]
  <2> DEFINE P == {i \in Nat : i <= n /\ i <= k => f[i] = g[i]}
             id == [i \in Nat |-> i]
  <2>1. ASSUME NEW i \in Nat, \A j \in Nat : id[j] < id[i] => j \in P
        PROVE  i \in P
    <3> SUFFICES ASSUME i <= n, i <= k
                 PROVE  f[i] = g[i]
      OBVIOUS
    <3>1. i \in 0..n /\ i \in 0..k
      OBVIOUS
    <3>2. f[i] = Body(f, i) /\ g[i] = Body(g, i)
      BY <3>1, <1>4
    <3>3. CASE i = 0
      BY <3>2, <3>3
    <3>4. CASE i # 0
      <4>1. i - 1 \in Nat /\ id[i - 1] < id[i] /\ i - 1 <= n /\ i - 1 <= k
        BY <3>4
      <4>2. f[i - 1] = g[i - 1]
        BY <4>1, <2>1
      <4> QED BY <4>2, <3>2
    <3> QED BY <3>3, <3>4
  <2>2. id \in [Nat -> Nat]
    OBVIOUS
  <2> HIDE DEF P, id
  <2>3. Nat \subseteq P
    BY <2>1, <2>2, MeasureInduction
  <2> QED BY <2>3 DEF P
<1> DEFINE c(n) == CHOOSE f : Upto(n, f)
<1>5. ASSUME NEW n \in Nat
      PROVE  Upto(n, c(n))
  <2>1. \E f : Upto(n, f)
    BY <1>3
  <2> HIDE DEF Upto
  <2> QED BY <2>1
<1> DEFINE F == [n \in Nat |-> c(n)[n]]
<1> HIDE DEF c
<1>6. ASSUME NEW n \in Nat
      PROVE  F[n] = Body(F, n)
  <2>0. Upto(n, c(n)) /\ n \in 0..n
    BY <1>5
  <2>1. c(n)[n] = Body(c(n), n)
    BY <2>0
  <2>2. CASE n = 0
    BY <2>1, <2>2
  <2>3. CASE n # 0
    <3>1. n - 1 \in Nat /\ n - 1 <= n
      BY <2>3
    <3>2. Upto(n - 1, c(n - 1))
      BY <3>1, <1>5
    <3>3. c(n)[n - 1] = c(n - 1)[n - 1]
      <4> HIDE DEF Upto
      <4> QED BY <2>0, <3>1, <3>2, <1>4
    <3>4. F[n - 1] = c(n)[n - 1]
      BY <3>1, <3>3
    <3> QED BY <3>4, <2>1
  <2> QED BY <2>2, <2>3
<1>7. F = [n \in Nat |-> Body(F, n)]
  <2>1. F = [n \in Nat |-> F[n]]
    OBVIOUS
  <2> HIDE DEF F, Body
  <2> QED BY <2>1, <1>6
<1>8. TreesTo = CHOOSE f : f = [n \in Nat |-> Body(f, n)]
  BY DEF TreesTo
<1>9. TreesTo = [n \in Nat |-> Body(TreesTo, n)]
  <2> HIDE DEF F, Body
  <2> QED BY <1>7, <1>8
<1>10. ASSUME NEW n \in Nat
       PROVE  TreesTo[n + 1] = {Nil} \cup NodesOver(TreesTo[n])
  <2>1. n + 1 \in Nat /\ n + 1 # 0 /\ (n + 1) - 1 = n
    OBVIOUS
  <2> QED BY <1>9, <2>1
<1> QED BY <1>9, <1>10

\* Trees of any height: what the code handles between two calls is one of Trees.
AllTrees == UNION {TreesTo[n] : n \in Nat}
Node(k, d, c, l, r) == [key |-> k, data |-> d, red |-> c, left |-> l, right |-> r]

\* Trees are nodes, or Nil, and no tree is Crash.
LEMMA NodeIsNotNil ==
  ASSUME NEW k, NEW d, NEW c, NEW l, NEW r
  PROVE  Node(k, d, c, l, r) # Nil /\ Node(k, d, c, l, r) # Crash /\ Nil # Crash
BY DEF Node, Nil, Crash

LEMMA NodeFields ==
  ASSUME NEW k, NEW d, NEW c, NEW l, NEW r
  PROVE  /\ Node(k, d, c, l, r).key = k
         /\ Node(k, d, c, l, r).data = d
         /\ Node(k, d, c, l, r).red = c
         /\ Node(k, d, c, l, r).left = l
         /\ Node(k, d, c, l, r).right = r
BY DEF Node

\* More levels, more trees.
LEMMA TreesGrow ==
  ASSUME NEW n \in Nat
  PROVE  TreesTo[n] \subseteq TreesTo[n + 1]
<1> DEFINE Good == {i \in Nat : TreesTo[i] \subseteq TreesTo[i + 1]}
           id == [i \in Nat |-> i]
<1>1. ASSUME NEW i \in Nat, \A j \in Nat : id[j] < id[i] => j \in Good
      PROVE  i \in Good
  <2>1. CASE i = 0
    BY <2>1, LevelsDef
  <2>2. CASE i # 0
    <3>1. i - 1 \in Nat /\ id[i - 1] < id[i] /\ (i - 1) + 1 = i
      BY <2>2
    <3>2. TreesTo[i - 1] \subseteq TreesTo[i]
      BY <3>1, <1>1
    <3>3. TreesTo[i] = {Nil} \cup NodesOver(TreesTo[i - 1])
      BY <3>1, LevelsDef
    <3>4. TreesTo[i + 1] = {Nil} \cup NodesOver(TreesTo[i])
      BY LevelsDef
    <3>5. NodesOver(TreesTo[i - 1]) \subseteq NodesOver(TreesTo[i])
      BY <3>2 DEF NodesOver
    <3> QED BY <3>3, <3>4, <3>5
  <2> QED BY <2>1, <2>2
<1>2. id \in [Nat -> Nat]
  OBVIOUS
<1> HIDE DEF Good, id
<1>3. Nat \subseteq Good
  BY <1>1, <1>2, MeasureInduction
<1> QED BY <1>3 DEF Good

LEMMA TreesMonotone ==
  ASSUME NEW n \in Nat, NEW k \in Nat, n <= k
  PROVE  TreesTo[n] \subseteq TreesTo[k]
<1> DEFINE Good == {i \in Nat : n <= i => TreesTo[n] \subseteq TreesTo[i]}
           id == [i \in Nat |-> i]
<1>1. ASSUME NEW i \in Nat, \A j \in Nat : id[j] < id[i] => j \in Good
      PROVE  i \in Good
  <2> SUFFICES ASSUME n <= i, n # i
               PROVE  TreesTo[n] \subseteq TreesTo[i]
    OBVIOUS
  <2>1. i - 1 \in Nat /\ id[i - 1] < id[i] /\ (i - 1) + 1 = i /\ n <= i - 1
    OBVIOUS
  <2>2. TreesTo[n] \subseteq TreesTo[i - 1]
    BY <2>1, <1>1
  <2>3. TreesTo[i - 1] \subseteq TreesTo[i]
    BY <2>1, TreesGrow
  <2> QED BY <2>2, <2>3
<1>2. id \in [Nat -> Nat]
  OBVIOUS
<1> HIDE DEF Good, id
<1>3. Nat \subseteq Good
  BY <1>1, <1>2, MeasureInduction
<1> QED BY <1>3 DEF Good

\* The parts of a node, of a bounded height.
LEMMA PartsAt ==
  ASSUME NEW n \in Nat, NEW t \in TreesTo[n], t # Nil
  PROVE  /\ n # 0 /\ t \in NodesOver(TreesTo[n - 1])
         /\ t.key \in Keys /\ t.data \in Data /\ t.red \in {0, 1}
         /\ t.left \in TreesTo[n - 1] /\ t.right \in TreesTo[n - 1]
         /\ t = Node(t.key, t.data, t.red, t.left, t.right)
         /\ t # Crash
<1>1. n # 0
  BY LevelsDef
<1>2. n - 1 \in Nat /\ (n - 1) + 1 = n
  BY <1>1
<1>3. t \in NodesOver(TreesTo[n - 1])
  BY <1>2, LevelsDef
<1>4. /\ t.key \in Keys /\ t.data \in Data /\ t.red \in {0, 1}
      /\ t.left \in TreesTo[n - 1] /\ t.right \in TreesTo[n - 1]
      /\ t = Node(t.key, t.data, t.red, t.left, t.right)
  BY <1>3 DEF NodesOver, Node
<1>5. t # Crash
  BY <1>4, NodeIsNotNil
<1> QED BY <1>1, <1>3, <1>4, <1>5

LEMMA NodeAt ==
  ASSUME NEW n \in Nat, NEW k \in Keys, NEW d \in Data, NEW c \in {0, 1},
         NEW l \in TreesTo[n], NEW r \in TreesTo[n]
  PROVE  Node(k, d, c, l, r) \in TreesTo[n + 1]
<1>1. Node(k, d, c, l, r) \in NodesOver(TreesTo[n])
  BY DEF Node, NodesOver
<1> QED BY <1>1, LevelsDef

LEMMA NilAt ==
  ASSUME NEW n \in Nat
  PROVE  Nil \in TreesTo[n]
<1>1. Nil \in TreesTo[0] /\ 0 <= n
  BY LevelsDef
<1> QED BY <1>1, TreesMonotone

LEMMA NilIsTree == Nil \in AllTrees
BY NilAt DEF AllTrees

LEMMA NodeIsTree ==
  ASSUME NEW k \in Keys, NEW d \in Data, NEW c \in {0, 1},
         NEW l \in AllTrees, NEW r \in AllTrees
  PROVE  Node(k, d, c, l, r) \in AllTrees
<1>1. PICK i \in Nat : l \in TreesTo[i]
  BY DEF AllTrees
<1>2. PICK j \in Nat : r \in TreesTo[j]
  BY DEF AllTrees
<1>3. i + j \in Nat /\ i <= i + j /\ j <= i + j /\ i + j + 1 \in Nat
  OBVIOUS
<1>4. l \in TreesTo[i + j] /\ r \in TreesTo[i + j]
  BY <1>1, <1>2, <1>3, TreesMonotone
<1>5. Node(k, d, c, l, r) \in TreesTo[i + j + 1]
  BY <1>3, <1>4, NodeAt
<1> QED BY <1>3, <1>5 DEF AllTrees

\* A node of a tree, and a node made of trees.
LEMMA Parts ==
  ASSUME NEW t \in AllTrees, t # Nil
  PROVE  /\ t.key \in Keys /\ t.data \in Data /\ t.red \in {0, 1}
         /\ t.left \in AllTrees /\ t.right \in AllTrees
         /\ t = Node(t.key, t.data, t.red, t.left, t.right)
         /\ t # Crash
<1>1. PICK n \in Nat : t \in TreesTo[n]
  BY DEF AllTrees
<1>2. n # 0 /\ t.left \in TreesTo[n - 1] /\ t.right \in TreesTo[n - 1]
  BY <1>1, PartsAt
<1>3. n - 1 \in Nat
  BY <1>2
<1>4. t.left \in AllTrees /\ t.right \in AllTrees
  BY <1>2, <1>3 DEF AllTrees
<1> QED BY <1>1, <1>4, PartsAt

Height == [t \in AllTrees |-> CHOOSE n \in Nat : t \in TreesTo[n]
                                         /\ \A i \in Nat : t \in TreesTo[i] => n <= i]

\* The levels a tree needs; its sides need fewer.
LEMMA HeightIs ==
  ASSUME NEW t \in AllTrees
  PROVE  /\ Height[t] \in Nat /\ t \in TreesTo[Height[t]]
         /\ \A i \in Nat : t \in TreesTo[i] => Height[t] <= i
<1> DEFINE At == {n \in Nat : t \in TreesTo[n]}
<1>1. At # {}
  BY DEF AllTrees
<1>2. \E n \in At : \A i \in At : n <= i
  BY <1>1, Least
<1>3. \E n \in Nat : t \in TreesTo[n] /\ \A i \in Nat : t \in TreesTo[i] => n <= i
  BY <1>2
<1> QED BY <1>3 DEF Height

LEMMA HeightType == Height \in [AllTrees -> Nat]
BY HeightIs DEF Height

LEMMA HeightFalls ==
  ASSUME NEW t \in AllTrees, t # Nil
  PROVE  Height[t.left] < Height[t] /\ Height[t.right] < Height[t]
<1> DEFINE n == Height[t]
<1>1. n \in Nat /\ t \in TreesTo[n]
  BY HeightIs
<1>2. n # 0 /\ t.left \in TreesTo[n - 1] /\ t.right \in TreesTo[n - 1]
  BY <1>1, PartsAt
<1>3. n - 1 \in Nat /\ t.left \in AllTrees /\ t.right \in AllTrees
  BY <1>1, <1>2 DEF AllTrees
<1>4. Height[t.left] <= n - 1 /\ Height[t.right] <= n - 1
      /\ Height[t.left] \in Nat /\ Height[t.right] \in Nat
  BY <1>2, <1>3, HeightIs
<1> QED BY <1>1, <1>4

\* Structural induction.
LEMMA TreeInduction ==
  ASSUME NEW P, Nil \in P,
         \A t \in AllTrees \ {Nil} : t.left \in P /\ t.right \in P => t \in P
  PROVE  AllTrees \subseteq P
<1>1. ASSUME NEW t \in AllTrees, \A s \in AllTrees : Height[s] < Height[t] => s \in P
      PROVE  t \in P
  <2>1. CASE t = Nil
    BY <2>1
  <2>2. CASE t # Nil
    <3>1. t.left \in P /\ t.right \in P
      BY <2>2, <1>1, Parts, HeightFalls
    <3> QED BY <3>1, <2>2
  <2> QED BY <2>1, <2>2
<1> QED BY <1>1, HeightType, MeasureInduction

\* The trees the code's functions are defined on.
LEMMA KeysCount == Cardinality(Keys) \in Nat
BY TreeAssumption, FS_CardinalityType

\* The trees of the model are trees with all of their parts.
LEMMA TreesAreTrees ==
  /\ Trees \subseteq AllTrees /\ Nil \in Trees
  /\ \A t \in Trees : t # Nil => t.left \in Trees /\ t.right \in Trees
<1>1. Trees \subseteq AllTrees
  BY KeysCount DEF Trees, AllTrees
<1>2. Nil \in Trees
  BY KeysCount, NilAt DEF Trees
<1>3. ASSUME NEW t \in Trees, t # Nil
      PROVE  t.left \in Trees /\ t.right \in Trees
  <2> DEFINE n == Cardinality(Keys)
  <2>1. n \in Nat
    BY KeysCount
  <2>2. n # 0 /\ t.left \in TreesTo[n - 1] /\ t.right \in TreesTo[n - 1]
    BY <1>3, <2>1, PartsAt DEF Trees
  <2>3. n - 1 \in Nat /\ (n - 1) + 1 = n
    BY <2>1, <2>2
  <2>4. TreesTo[n - 1] \subseteq TreesTo[n]
    BY <2>3, TreesGrow
  <2> QED BY <2>2, <2>4 DEF Trees
<1> QED BY <1>1, <1>2, <1>3

-----------------------------------------------------------------------------
(***************************************************************************)
(* The recursive functions of the model that go to both sides of a node do *)
(* what their definitions say.                                             *)
(***************************************************************************)
\* Sets of trees with every part of their trees: Trees and AllTrees.
Closed(D) == /\ D \subseteq AllTrees /\ Nil \in D
             /\ \A t \in D : t # Nil => t.left \in D /\ t.right \in D

LEMMA ClosedSets == Closed(Trees) /\ Closed(AllTrees)
BY TreesAreTrees, Parts, NilIsTree DEF Closed

LEMMA ClosedInduction ==
  ASSUME NEW D, Closed(D), NEW P, Nil \in P,
         \A t \in D \ {Nil} : t.left \in P /\ t.right \in P => t \in P
  PROVE  D \subseteq P
<1> DEFINE Q == {t \in AllTrees : t \in D => t \in P}
<1>1. Nil \in Q
  BY NilIsTree
<1>2. ASSUME NEW t \in AllTrees \ {Nil}, t.left \in Q, t.right \in Q
      PROVE  t \in Q
  BY <1>2 DEF Closed
<1> HIDE DEF Q
<1>3. AllTrees \subseteq Q
  BY <1>1, <1>2, TreeInduction
<1> QED BY <1>3 DEF Q, Closed

\* What is defined from the two sides of a node is defined.
HasFold(D, S, z, c) ==
  \E f \in [D -> S] :
    /\ f[Nil] = z
    /\ \A t \in D : t # Nil => f[t] = c[<<t, f[t.left], f[t.right]>>]

\* A function that is defined from its values on the two sides of a node exists.
LEMMA TreeFold ==
  ASSUME NEW D, Closed(D), NEW S, NEW z \in S, NEW c \in [(D \ {Nil}) \X S \X S -> S]
  PROVE  HasFold(D, S, z, c)
<1> DEFINE m == [t \in D |-> Height[t]]
           G == [p \in D \X [D -> S] |->
                   IF p[1] = Nil THEN z ELSE c[<<p[1], p[2][p[1].left], p[2][p[1].right]>>]]
<1>1. m \in [D -> Nat]
  BY HeightIs DEF Closed
<1>2. ASSUME NEW t \in D, NEW f \in [D -> S]
      PROVE  /\ G[<<t, f>>] = IF t = Nil THEN z ELSE c[<<t, f[t.left], f[t.right]>>]
             /\ G[<<t, f>>] \in S
  BY DEF Closed
<1>3. G \in [D \X [D -> S] -> S]
  <2>1. \A p \in D \X [D -> S] : p = <<p[1], p[2]>> /\ p[1] \in D /\ p[2] \in [D -> S]
    OBVIOUS
  <2>2. G = [p \in D \X [D -> S] |-> G[p]]
    OBVIOUS
  <2>3. \A p \in D \X [D -> S] : G[p] \in S
    <3> HIDE DEF G
    <3> QED BY <2>1, <1>2
  <2> HIDE DEF G
  <2> QED BY <2>2, <2>3
<1>4. ASSUME NEW t \in D, NEW f \in [D -> S], NEW g \in [D -> S],
             \A s \in D : m[s] < m[t] => f[s] = g[s]
      PROVE  G[<<t, f>>] = G[<<t, g>>]
  <2>1. CASE t = Nil
    BY <2>1, <1>2
  <2>2. CASE t # Nil
    <3>1. t.left \in D /\ t.right \in D /\ t \in AllTrees
      BY <2>2 DEF Closed
    <3>2. m[t.left] < m[t] /\ m[t.right] < m[t]
      BY <3>1, <2>2, HeightFalls
    <3>3. f[t.left] = g[t.left] /\ f[t.right] = g[t.right]
      BY <3>1, <3>2, <1>4
    <3> QED BY <3>3, <1>2
  <2> QED BY <2>1, <2>2
<1> HIDE DEF G, m
<1>5. S # {}
  OBVIOUS
<1>6. PICK f \in [D -> S] : \A t \in D : f[t] = G[<<t, f>>]
  <2>1. GoDown(D, S, m, G)
    BY <1>4 DEF GoDown
  <2>2. G \in Calls(D, S)
    BY <1>3 DEF Calls
  <2>3. Solvable(D, S, G)
    BY <1>1, <2>1, <2>2, <1>5, Recursion
  <2> QED BY <2>3 DEF Solvable
<1>7. f[Nil] = z /\ \A t \in D : t # Nil => f[t] = c[<<t, f[t.left], f[t.right]>>]
  BY <1>6, <1>2 DEF Closed
<1> QED BY <1>7 DEF HasFold

-----------------------------------------------------------------------------
LEMMA SizeDef ==
  /\ Size \in [Trees -> Nat]
  /\ Size[Nil] = 0
  /\ \A t \in Trees : t # Nil => Size[t] = 1 + Size[t.left] + Size[t.right]
<1> DEFINE c == [x \in (Trees \ {Nil}) \X Nat \X Nat |-> 1 + x[2] + x[3]]
<1>1. c \in [(Trees \ {Nil}) \X Nat \X Nat -> Nat]
  OBVIOUS
<1>2. PICK f \in [Trees -> Nat] :
        f[Nil] = 0 /\ \A t \in Trees : t # Nil => f[t] = c[<<t, f[t.left], f[t.right]>>]
  <2> HIDE DEF c
  <2>1. HasFold(Trees, Nat, 0, c)
    BY <1>1, ClosedSets, TreeFold
  <2> QED BY <2>1 DEF HasFold
<1>3. ASSUME NEW t \in Trees
      PROVE  f[t] = IF t = Nil THEN 0 ELSE 1 + f[t.left] + f[t.right]
  BY <1>2, TreesAreTrees
<1>4. f = [t \in Trees |-> IF t = Nil THEN 0 ELSE 1 + f[t.left] + f[t.right]]
  BY <1>3
<1>5. Size = CHOOSE g : g = [t \in Trees |-> IF t = Nil THEN 0 ELSE 1 + g[t.left] + g[t.right]]
  BY DEF Size
<1>6. Size = [t \in Trees |-> IF t = Nil THEN 0 ELSE 1 + Size[t.left] + Size[t.right]]
  BY <1>4, <1>5
<1> DEFINE P == {t \in Trees : Size[t] \in Nat}
<1>7. Nil \in P
  BY <1>6, TreesAreTrees
<1>8. ASSUME NEW t \in Trees \ {Nil}, t.left \in P, t.right \in P
      PROVE  t \in P
  BY <1>6, <1>8
<1>9. Trees \subseteq P
  <2> HIDE DEF P
  <2> QED BY <1>7, <1>8, ClosedSets, ClosedInduction
<1> QED BY <1>6, <1>9, TreesAreTrees

LEMMA TraverseDef ==
  /\ Traverse \in [Trees -> Seq(Keys \X Data)]
  /\ Traverse[Nil] = <<>>
  /\ \A t \in Trees : t # Nil =>
       Traverse[t] = Traverse[t.left] \o <<Entry(t)>> \o Traverse[t.right]
<1> DEFINE S == Seq(Keys \X Data)
           c == [x \in (Trees \ {Nil}) \X S \X S |-> x[2] \o <<Entry(x[1])>> \o x[3]]
<1>1. ASSUME NEW t \in Trees \ {Nil}
      PROVE  <<Entry(t)>> \in S
  BY TreesAreTrees, Parts DEF Entry
<1>2. c \in [(Trees \ {Nil}) \X S \X S -> S]
  BY <1>1
<1>3. PICK f \in [Trees -> S] :
        f[Nil] = <<>> /\ \A t \in Trees : t # Nil => f[t] = c[<<t, f[t.left], f[t.right]>>]
  <2>1. <<>> \in S
    OBVIOUS
  <2> HIDE DEF c, S
  <2>2. HasFold(Trees, S, <<>>, c)
    BY <1>2, <2>1, ClosedSets, TreeFold
  <2> QED BY <2>2 DEF HasFold
<1>4. ASSUME NEW t \in Trees
      PROVE  f[t] = IF t = Nil THEN <<>> ELSE f[t.left] \o <<Entry(t)>> \o f[t.right]
  BY <1>3, TreesAreTrees
<1>5. f = [t \in Trees |-> IF t = Nil THEN <<>> ELSE f[t.left] \o <<Entry(t)>> \o f[t.right]]
  BY <1>4
<1>6. Traverse = CHOOSE g : g = [t \in Trees |-> IF t = Nil THEN <<>>
                                   ELSE g[t.left] \o <<Entry(t)>> \o g[t.right]]
  BY DEF Traverse
<1>7. Traverse = [t \in Trees |-> IF t = Nil THEN <<>>
                    ELSE Traverse[t.left] \o <<Entry(t)>> \o Traverse[t.right]]
  BY <1>5, <1>6
<1> DEFINE P == {t \in Trees : Traverse[t] \in S}
<1>8. Nil \in P
  BY <1>7, TreesAreTrees
<1>9. ASSUME NEW t \in Trees \ {Nil}, t.left \in P, t.right \in P
      PROVE  t \in P
  <2>1. Traverse[t] = Traverse[t.left] \o <<Entry(t)>> \o Traverse[t.right]
    BY <1>7
  <2>2. ASSUME NEW a \in S, NEW e \in S, NEW b \in S
        PROVE  a \o e \o b \in S
    OBVIOUS
  <2>3. Traverse[t.left] \in S /\ Traverse[t.right] \in S /\ <<Entry(t)>> \in S
    BY <1>9, <1>1
  <2> HIDE DEF S
  <2> QED BY <2>1, <2>2, <2>3
<1>10. Trees \subseteq P
  <2> HIDE DEF P
  <2> QED BY <1>8, <1>9, ClosedSets, ClosedInduction
<1> QED BY <1>7, <1>10, TreesAreTrees

\* The number of black nodes, as Blacks counts them, for any tree.
BlacksAt(t, l, r) ==
  IF l = -1 \/ l # r \/ Red(t.right) \/ (Red(t) /\ Red(t.left))
  THEN -1 ELSE l + (IF Red(t) THEN 0 ELSE 1)

LEMMA BlacksDef ==
  /\ Blacks[Nil] = 0
  /\ \A t \in Trees : t # Nil => Blacks[t] = BlacksAt(t, Blacks[t.left], Blacks[t.right])
<1> DEFINE c == [x \in (Trees \ {Nil}) \X Int \X Int |-> BlacksAt(x[1], x[2], x[3])]
<1>1. ASSUME NEW t, NEW l \in Int, NEW r \in Int
      PROVE  BlacksAt(t, l, r) \in Int
  BY DEF BlacksAt
<1>2. c \in [(Trees \ {Nil}) \X Int \X Int -> Int]
  BY <1>1
<1>3. PICK f \in [Trees -> Int] :
        f[Nil] = 0 /\ \A t \in Trees : t # Nil => f[t] = c[<<t, f[t.left], f[t.right]>>]
  <2> HIDE DEF c
  <2>2. HasFold(Trees, Int, 0, c)
    BY <1>2, ClosedSets, TreeFold
  <2> QED BY <2>2 DEF HasFold
<1>4. ASSUME NEW t \in Trees
      PROVE  f[t] = IF t = Nil THEN 0 ELSE BlacksAt(t, f[t.left], f[t.right])
  BY <1>3, TreesAreTrees
<1>5. f = [t \in Trees |-> IF t = Nil THEN 0 ELSE BlacksAt(t, f[t.left], f[t.right])]
  BY <1>4
<1>6. Blacks = CHOOSE g : g = [t \in Trees |-> IF t = Nil THEN 0
                                               ELSE BlacksAt(t, g[t.left], g[t.right])]
  BY DEF Blacks, BlacksAt
<1>7. Blacks = [t \in Trees |-> IF t = Nil THEN 0 ELSE BlacksAt(t, Blacks[t.left], Blacks[t.right])]
  BY <1>5, <1>6
<1> QED BY <1>7, TreesAreTrees

LEMMA FindDef ==
  /\ \A k \in Keys : Find[Nil][k] = Nil
  /\ \A t \in Trees : t # Nil => \A k \in Keys :
       Find[t][k] = IF k = t.key THEN t.data
                    ELSE IF k < t.key THEN Find[t.left][k] ELSE Find[t.right][k]
<1> DEFINE S == [Keys -> Data \cup {Nil}]
           c == [x \in (Trees \ {Nil}) \X S \X S |->
                   [k \in Keys |-> IF k = x[1].key THEN x[1].data
                                   ELSE IF k < x[1].key THEN x[2][k] ELSE x[3][k]]]
           z == [k \in Keys |-> Nil]
           body(t, f) ==
             [k \in Keys |-> IF t = Nil THEN Nil
                             ELSE IF k = t.key THEN t.data
                             ELSE f[IF k < t.key THEN t.left ELSE t.right][k]]
<1>1. c \in [(Trees \ {Nil}) \X S \X S -> S]
  BY TreesAreTrees, Parts
<1>2. z \in S
  OBVIOUS
<1>3. PICK f \in [Trees -> S] :
        f[Nil] = z /\ \A t \in Trees : t # Nil => f[t] = c[<<t, f[t.left], f[t.right]>>]
  <2> HIDE DEF c, S, z
  <2>2. HasFold(Trees, S, z, c)
    BY <1>1, <1>2, ClosedSets, TreeFold
  <2> QED BY <2>2 DEF HasFold
<1>4. ASSUME NEW t \in Trees
      PROVE  f[t] = body(t, f)
  <2>1. CASE t = Nil
    BY <2>1, <1>3
  <2>2. CASE t # Nil
    <3>1. f[t] = [k \in Keys |-> IF k = t.key THEN t.data
                                 ELSE IF k < t.key THEN f[t.left][k] ELSE f[t.right][k]]
      BY <1>3, <2>2, TreesAreTrees
    <3> QED BY <3>1, <2>2
  <2> QED BY <2>1, <2>2
<1>5. f = [t \in Trees |-> body(t, f)]
  <2> HIDE DEF body
  <2> QED BY <1>4
<1>6. Find = CHOOSE g : g = [t \in Trees |-> body(t, g)]
  BY DEF Find
<1>7. Find = [t \in Trees |-> body(t, Find)]
  <2> HIDE DEF body
  <2> QED BY <1>5, <1>6
<1>8. ASSUME NEW k \in Keys
      PROVE  Find[Nil][k] = Nil
  BY <1>7, TreesAreTrees
<1>9. ASSUME NEW t \in Trees, t # Nil, NEW k \in Keys
      PROVE  Find[t][k] = IF k = t.key THEN t.data
                          ELSE IF k < t.key THEN Find[t.left][k] ELSE Find[t.right][k]
  <2>1. Find[t] = body(t, Find)
    BY <1>7, <1>9
  <2>2. Find[t][k] = IF k = t.key THEN t.data
                     ELSE Find[IF k < t.key THEN t.left ELSE t.right][k]
    BY <2>1, <1>9
  <2> QED BY <2>2
<1> QED BY <1>8, <1>9

-----------------------------------------------------------------------------
(***************************************************************************)
(* What a tree holds, whether it is ordered, and its black nodes: the      *)
(* abstract view that the proofs follow.                                   *)
(***************************************************************************)
\* What a tree of any height holds: how many nodes, which keys with which data,
\* whether they are in order, and Blacks for such a tree.
SizeOf == CHOOSE f \in [AllTrees -> Nat] :
            /\ f[Nil] = 0
            /\ \A t \in AllTrees : t # Nil => f[t] = 1 + f[t.left] + f[t.right]

Entries == CHOOSE f \in [AllTrees -> SUBSET (Keys \X Data)] :
             /\ f[Nil] = {}
             /\ \A t \in AllTrees : t # Nil => f[t] = f[t.left] \cup {Entry(t)} \cup f[t.right]

Below(E, k) == \A e \in E : e[1] < k
Above(E, k) == \A e \in E : k < e[1]

Ordered == CHOOSE f \in [AllTrees -> BOOLEAN] :
             /\ f[Nil] = TRUE
             /\ \A t \in AllTrees : t # Nil =>
                  f[t] <=> (/\ f[t.left] /\ f[t.right]
                          /\ Below(Entries[t.left], t.key) /\ Above(Entries[t.right], t.key))

BlacksOf == CHOOSE f \in [AllTrees -> Int] :
              /\ f[Nil] = 0
              /\ \A t \in AllTrees : t # Nil => f[t] = BlacksAt(t, f[t.left], f[t.right])

LEMMA SizeOfDef ==
  /\ SizeOf \in [AllTrees -> Nat]
  /\ SizeOf[Nil] = 0
  /\ \A t \in AllTrees : t # Nil => SizeOf[t] = 1 + SizeOf[t.left] + SizeOf[t.right]
<1> DEFINE c == [x \in (AllTrees \ {Nil}) \X Nat \X Nat |-> 1 + x[2] + x[3]]
<1>1. c \in [(AllTrees \ {Nil}) \X Nat \X Nat -> Nat]
  OBVIOUS
<1>2. HasFold(AllTrees, Nat, 0, c)
  <2> HIDE DEF c
  <2> QED BY <1>1, ClosedSets, TreeFold
<1>3. PICK f \in [AllTrees -> Nat] :
        f[Nil] = 0 /\ \A t \in AllTrees : t # Nil => f[t] = c[<<t, f[t.left], f[t.right]>>]
  <2> HIDE DEF c
  <2> QED BY <1>2 DEF HasFold
<1>4. ASSUME NEW t \in AllTrees, t # Nil
      PROVE  f[t] = 1 + f[t.left] + f[t.right]
  BY <1>3, <1>4, Parts
<1> QED BY <1>3, <1>4 DEF SizeOf

LEMMA EntriesDef ==
  /\ Entries \in [AllTrees -> SUBSET (Keys \X Data)]
  /\ Entries[Nil] = {}
  /\ \A t \in AllTrees : t # Nil =>
       Entries[t] = Entries[t.left] \cup {Entry(t)} \cup Entries[t.right]
<1> DEFINE S == SUBSET (Keys \X Data)
           c == [x \in (AllTrees \ {Nil}) \X S \X S |-> x[2] \cup {Entry(x[1])} \cup x[3]]
<1>0. ASSUME NEW t \in AllTrees \ {Nil}
      PROVE  Entry(t) \in Keys \X Data
  BY Parts DEF Entry
<1>1. c \in [(AllTrees \ {Nil}) \X S \X S -> S]
  BY <1>0
<1>2. HasFold(AllTrees, S, {}, c)
  <2>1. {} \in S
    OBVIOUS
  <2> HIDE DEF c, S
  <2> QED BY <1>1, <2>1, ClosedSets, TreeFold
<1>3. PICK f \in [AllTrees -> S] :
        f[Nil] = {} /\ \A t \in AllTrees : t # Nil => f[t] = c[<<t, f[t.left], f[t.right]>>]
  <2> HIDE DEF c, S
  <2> QED BY <1>2 DEF HasFold
<1>4. ASSUME NEW t \in AllTrees, t # Nil
      PROVE  f[t] = f[t.left] \cup {Entry(t)} \cup f[t.right]
  BY <1>3, <1>4, Parts
<1> QED BY <1>3, <1>4 DEF Entries

LEMMA OrderedDef ==
  /\ Ordered \in [AllTrees -> BOOLEAN]
  /\ Ordered[Nil]
  /\ \A t \in AllTrees : t # Nil =>
       Ordered[t] <=> (/\ Ordered[t.left] /\ Ordered[t.right]
                     /\ Below(Entries[t.left], t.key) /\ Above(Entries[t.right], t.key))
<1> DEFINE ok(t, l, r) == /\ l /\ r
                          /\ Below(Entries[t.left], t.key) /\ Above(Entries[t.right], t.key)
           c == [x \in (AllTrees \ {Nil}) \X BOOLEAN \X BOOLEAN |-> ok(x[1], x[2], x[3])]
<1>0. ASSUME NEW t, NEW l, NEW r
      PROVE  ok(t, l, r) \in BOOLEAN
  OBVIOUS
<1>1. c \in [(AllTrees \ {Nil}) \X BOOLEAN \X BOOLEAN -> BOOLEAN]
  BY <1>0
<1>2. HasFold(AllTrees, BOOLEAN, TRUE, c)
  <2> HIDE DEF c
  <2> QED BY <1>1, ClosedSets, TreeFold
<1>3. PICK f \in [AllTrees -> BOOLEAN] :
        f[Nil] = TRUE /\ \A t \in AllTrees : t # Nil => f[t] = c[<<t, f[t.left], f[t.right]>>]
  <2> HIDE DEF c
  <2> QED BY <1>2 DEF HasFold
<1>4. ASSUME NEW t \in AllTrees, t # Nil
      PROVE  f[t] = ok(t, f[t.left], f[t.right])
  <2>1. c[<<t, f[t.left], f[t.right]>>] = ok(t, f[t.left], f[t.right])
    <3>1. <<t, f[t.left], f[t.right]>> \in (AllTrees \ {Nil}) \X BOOLEAN \X BOOLEAN
      BY <1>3, <1>4, Parts
    <3> HIDE DEF ok
    <3> QED BY <3>1
  <2> QED BY <2>1, <1>3, <1>4
<1>5. \E g \in [AllTrees -> BOOLEAN] :
        /\ g[Nil] = TRUE
        /\ \A t \in AllTrees : t # Nil => g[t] = ok(t, g[t.left], g[t.right])
  <2> HIDE DEF ok
  <2> QED BY <1>3, <1>4
<1> QED BY <1>5, Zenon DEF Ordered

LEMMA BlacksOfDef ==
  /\ BlacksOf \in [AllTrees -> Int]
  /\ BlacksOf[Nil] = 0
  /\ \A t \in AllTrees : t # Nil => BlacksOf[t] = BlacksAt(t, BlacksOf[t.left], BlacksOf[t.right])
<1> DEFINE c == [x \in (AllTrees \ {Nil}) \X Int \X Int |-> BlacksAt(x[1], x[2], x[3])]
<1>1. ASSUME NEW t, NEW l \in Int, NEW r \in Int
      PROVE  BlacksAt(t, l, r) \in Int
  BY DEF BlacksAt
<1>2. c \in [(AllTrees \ {Nil}) \X Int \X Int -> Int]
  BY <1>1
<1>3. HasFold(AllTrees, Int, 0, c)
  <2>1. 0 \in Int /\ Closed(AllTrees)
    BY ClosedSets
  <2> HIDE DEF c
  <2> QED BY <1>2, <2>1, TreeFold
<1>4. PICK f \in [AllTrees -> Int] :
        f[Nil] = 0 /\ \A t \in AllTrees : t # Nil => f[t] = c[<<t, f[t.left], f[t.right]>>]
  <2> HIDE DEF c
  <2> QED BY <1>3 DEF HasFold
<1>5. ASSUME NEW t \in AllTrees, t # Nil
      PROVE  f[t] = BlacksAt(t, f[t.left], f[t.right])
  BY <1>4, <1>5, Parts
<1> QED BY <1>4, <1>5 DEF BlacksOf

\* On the trees of the model these are Blacks and Size.
LEMMA BlacksAgree == \A t \in Trees : Blacks[t] = BlacksOf[t]
<1> DEFINE P == {t \in Trees : Blacks[t] = BlacksOf[t]}
<1>1. Nil \in P
  BY BlacksDef, BlacksOfDef, TreesAreTrees
<1>2. ASSUME NEW t \in Trees \ {Nil}, t.left \in P, t.right \in P
      PROVE  t \in P
  BY <1>2, BlacksDef, BlacksOfDef, TreesAreTrees
<1> HIDE DEF P
<1>3. Trees \subseteq P
  BY <1>1, <1>2, ClosedSets, ClosedInduction
<1> QED BY <1>3 DEF P

LEMMA SizeAgree == \A t \in Trees : Size[t] = SizeOf[t]
<1> DEFINE P == {t \in Trees : Size[t] = SizeOf[t]}
<1>1. Nil \in P
  BY SizeDef, SizeOfDef, TreesAreTrees
<1>2. ASSUME NEW t \in Trees \ {Nil}, t.left \in P, t.right \in P
      PROVE  t \in P
  BY <1>2, SizeDef, SizeOfDef, TreesAreTrees
<1> HIDE DEF P
<1>3. Trees \subseteq P
  BY <1>1, <1>2, ClosedSets, ClosedInduction
<1> QED BY <1>3 DEF P

\* The same of a node that is put together.
LEMMA OfNode ==
  ASSUME NEW k \in Keys, NEW d \in Data, NEW c \in {0, 1},
         NEW l \in AllTrees, NEW r \in AllTrees
  PROVE  /\ Node(k, d, c, l, r) \in AllTrees \ {Nil}
         /\ SizeOf[Node(k, d, c, l, r)] = 1 + SizeOf[l] + SizeOf[r]
         /\ Entries[Node(k, d, c, l, r)] = Entries[l] \cup {<<k, d>>} \cup Entries[r]
         /\ Ordered[Node(k, d, c, l, r)]
              <=> (Ordered[l] /\ Ordered[r] /\ Below(Entries[l], k) /\ Above(Entries[r], k))
<1> DEFINE t == Node(k, d, c, l, r)
<1>1. t \in AllTrees /\ t # Nil
  BY NodeIsTree, NodeIsNotNil
<1>2. t.key = k /\ t.data = d /\ t.red = c /\ t.left = l /\ t.right = r
  BY NodeFields
<1> HIDE DEF t
<1>3. SizeOf[t] = 1 + SizeOf[l] + SizeOf[r]
  BY <1>1, <1>2, SizeOfDef
<1>4. Entries[t] = Entries[l] \cup {<<k, d>>} \cup Entries[r]
  BY <1>1, <1>2, EntriesDef DEF Entry
<1>5. Ordered[t] <=> (Ordered[l] /\ Ordered[r] /\ Below(Entries[l], k) /\ Above(Entries[r], k))
  BY <1>1, <1>2, OrderedDef
<1> QED BY <1>1, <1>3, <1>4, <1>5 DEF t

LEMMA BlacksOfNode ==
  ASSUME NEW k \in Keys, NEW d \in Data, NEW c \in {0, 1},
         NEW l \in AllTrees, NEW r \in AllTrees
  PROVE  BlacksOf[Node(k, d, c, l, r)]
           = IF BlacksOf[l] = -1 \/ BlacksOf[l] # BlacksOf[r] \/ Red(r) \/ (c = 1 /\ Red(l))
             THEN -1 ELSE BlacksOf[l] + (IF c = 1 THEN 0 ELSE 1)
<1> DEFINE t == Node(k, d, c, l, r)
<1>1. t \in AllTrees /\ t # Nil
  BY NodeIsTree, NodeIsNotNil
<1>2. t.key = k /\ t.data = d /\ t.red = c /\ t.left = l /\ t.right = r
  BY NodeFields
<1> HIDE DEF t
<1>3. BlacksOf[t] = BlacksAt(t, BlacksOf[l], BlacksOf[r])
  BY <1>1, <1>2, BlacksOfDef
<1>4. Red(t) <=> c = 1
  BY <1>1, <1>2 DEF Red
<1>5. BlacksOf[t] = IF BlacksOf[l] = -1 \/ BlacksOf[l] # BlacksOf[r] \/ Red(r) \/ (c = 1 /\ Red(l))
                    THEN -1 ELSE BlacksOf[l] + (IF c = 1 THEN 0 ELSE 1)
  BY <1>2, <1>3, <1>4 DEF BlacksAt
<1> QED BY <1>5 DEF t

-----------------------------------------------------------------------------
\* What the small steps make of a tree.
LEMMA PaintIs ==
  ASSUME NEW t \in AllTrees, t # Nil, NEW c \in {0, 1}
  PROVE  Paint(t, c) = Node(t.key, t.data, c, t.left, t.right)
<1>1. t = Node(t.key, t.data, t.red, t.left, t.right)
  BY Parts
<1>2. ASSUME NEW k, NEW d, NEW b, NEW l, NEW r
      PROVE  Paint(Node(k, d, b, l, r), c) = Node(k, d, c, l, r)
  BY DEF Paint, Node
<1> QED BY <1>1, <1>2

\* Each change of a node, as the node it makes.
LEMMA WithOfNode ==
  ASSUME NEW k, NEW d, NEW c, NEW l, NEW r, NEW x, x # Crash
  PROVE  /\ WithLeft(Node(k, d, c, l, r), x) = Node(k, d, c, x, r)
         /\ WithRight(Node(k, d, c, l, r), x) = Node(k, d, c, l, x)
BY DEF WithLeft, WithRight, Node

LEMMA RotLeftIs ==
  ASSUME NEW a \in AllTrees, a # Nil, a.right # Nil
  PROVE  RotLeft(a) = Node(a.right.key, a.right.data, a.red,
                           Node(a.key, a.data, 1, a.left, a.right.left), a.right.right)
<1> DEFINE b == a.right
           x == Node(a.key, a.data, 1, a.left, b.left)
<1>1. /\ b \in AllTrees /\ b # Nil
      /\ a.key \in Keys /\ a.data \in Data /\ a.red \in {0, 1}
      /\ a.left \in AllTrees /\ a.right \in AllTrees
  BY Parts
<1>2. /\ b.left \in AllTrees /\ b.left # Crash /\ b.right \in AllTrees
      /\ b.key \in Keys /\ b.data \in Data
  BY <1>1, Parts, NodeIsNotNil
<1>3. Paint(a, 1) = Node(a.key, a.data, 1, a.left, b)
  BY PaintIs
<1>4. Paint(a, 1) \in AllTrees /\ Paint(a, 1) # Nil
  BY <1>1, <1>3, NodeIsTree, NodeIsNotNil
<1>5. WithRight(Paint(a, 1), b.left) = x
  BY <1>2, <1>3, WithOfNode
<1>6. Paint(b, a.red) = Node(b.key, b.data, a.red, b.left, b.right)
  BY <1>1, PaintIs
<1>7. Paint(b, a.red) \in AllTrees /\ Paint(b, a.red) # Nil
  BY <1>1, <1>2, <1>6, NodeIsTree, NodeIsNotNil
<1>8. x # Crash
  BY NodeIsNotNil
<1>9. WithLeft(Paint(b, a.red), x) = Node(b.key, b.data, a.red, x, b.right)
  <2> HIDE DEF x, b
  <2> QED BY <1>6, <1>7, <1>8, WithOfNode
<1> QED BY <1>5, <1>9 DEF RotLeft

LEMMA RotRightIs ==
  ASSUME NEW a \in AllTrees, a # Nil, a.left # Nil
  PROVE  RotRight(a) = Node(a.left.key, a.left.data, a.red,
                            a.left.left, Node(a.key, a.data, 1, a.left.right, a.right))
<1> DEFINE b == a.left
           x == Node(a.key, a.data, 1, b.right, a.right)
<1>1. /\ b \in AllTrees /\ b # Nil
      /\ a.key \in Keys /\ a.data \in Data /\ a.red \in {0, 1}
      /\ a.left \in AllTrees /\ a.right \in AllTrees
  BY Parts
<1>2. /\ b.right \in AllTrees /\ b.right # Crash /\ b.left \in AllTrees
      /\ b.key \in Keys /\ b.data \in Data
  BY <1>1, Parts, NodeIsNotNil
<1>3. Paint(a, 1) = Node(a.key, a.data, 1, b, a.right)
  BY PaintIs
<1>4. Paint(a, 1) \in AllTrees /\ Paint(a, 1) # Nil
  BY <1>1, <1>3, NodeIsTree, NodeIsNotNil
<1>5. WithLeft(Paint(a, 1), b.right) = x
  BY <1>2, <1>3, WithOfNode
<1>6. Paint(b, a.red) = Node(b.key, b.data, a.red, b.left, b.right)
  BY <1>1, PaintIs
<1>7. Paint(b, a.red) \in AllTrees /\ Paint(b, a.red) # Nil
  BY <1>1, <1>2, <1>6, NodeIsTree, NodeIsNotNil
<1>8. x # Crash
  BY NodeIsNotNil
<1>9. WithRight(Paint(b, a.red), x) = Node(b.key, b.data, a.red, b.left, x)
  <2> HIDE DEF x, b
  <2> QED BY <1>6, <1>7, <1>8, WithOfNode
<1> QED BY <1>5, <1>9 DEF RotRight

LEMMA FlipIs ==
  ASSUME NEW t \in AllTrees, t # Nil
  PROVE  /\ Flip(t) = Node(t.key, t.data, 1 - t.red, t.left, t.right)
         /\ Flip(t) \in AllTrees /\ Flip(t) # Nil /\ Flip(t) # Crash
<1>1. 1 - t.red \in {0, 1}
  BY Parts
<1>2. Flip(t) = Node(t.key, t.data, 1 - t.red, t.left, t.right)
  BY <1>1, PaintIs DEF Flip
<1>3. t.key \in Keys /\ t.data \in Data /\ t.left \in AllTrees /\ t.right \in AllTrees
  BY Parts
<1> QED BY <1>1, <1>2, <1>3, NodeIsTree, NodeIsNotNil

LEMMA ColorFlipIs ==
  ASSUME NEW t \in AllTrees, t # Nil
  PROVE  /\ t.left = Nil \/ t.right = Nil => ColorFlip(t) = Crash
         /\ t.left # Nil /\ t.right # Nil =>
              ColorFlip(t) = Node(t.key, t.data, 1 - t.red, Flip(t.left), Flip(t.right))
<1>1. CASE t.left = Nil \/ t.right = Nil
  BY <1>1 DEF ColorFlip
<1>2. CASE t.left # Nil /\ t.right # Nil
  <2> DEFINE l == Flip(t.left)
             r == Flip(t.right)
             u == WithLeft(Flip(t), l)
  <2>1. l \in AllTrees /\ l # Crash /\ r \in AllTrees /\ r # Crash
    BY <1>2, Parts, FlipIs
  <2>2. Flip(t) \in AllTrees /\ Flip(t) # Nil
        /\ Flip(t) = Node(t.key, t.data, 1 - t.red, t.left, t.right)
    BY FlipIs
  <2>3. ColorFlip(t) = WithRight(u, r)
    BY <1>2 DEF ColorFlip
  <2> HIDE DEF l, r
  <2>4. u = Node(t.key, t.data, 1 - t.red, l, t.right)
    BY <2>1, <2>2, WithOfNode
  <2>5. u \in AllTrees /\ u # Nil
    <3>1. 1 - t.red \in {0, 1}
      BY Parts
    <3>2. t.key \in Keys /\ t.data \in Data /\ t.right \in AllTrees
      BY Parts
    <3> HIDE DEF u
    <3> QED BY <2>1, <2>4, <3>1, <3>2, NodeIsTree, NodeIsNotNil
  <2> HIDE DEF u
  <2>6. WithRight(u, r) = Node(t.key, t.data, 1 - t.red, l, r)
    BY <2>1, <2>4, <2>5, WithOfNode
  <2> QED BY <2>3, <2>6, <1>2 DEF l, r
<1> QED BY <1>1, <1>2

-----------------------------------------------------------------------------
(***************************************************************************)
(* Rotations, flips and fix_up keep what a tree holds.                     *)
(***************************************************************************)
\* The steps that keep a tree balanced change nothing of what it holds.
Same(t, u) == /\ u \in AllTrees /\ u # Nil
              /\ Entries[u] = Entries[t] /\ SizeOf[u] = SizeOf[t]
              /\ Ordered[t] => Ordered[u]

LEMMA SameTrans ==
  ASSUME NEW t, NEW u, NEW v, Same(t, u), Same(u, v)
  PROVE  Same(t, v)
BY DEF Same

\* Keys are integers.
LEMMA KeysAreInts == \A t \in AllTrees : \A e \in Entries[t] : e[1] \in Int /\ e[1] \in Keys
BY EntriesDef, TreeAssumption

\* What is below one key is below a greater one.
LEMMA BelowAbove ==
  ASSUME NEW t \in AllTrees, NEW j \in Int, NEW k \in Int, j < k
  PROVE  /\ Below(Entries[t], j) => Below(Entries[t], k)
         /\ Above(Entries[t], k) => Above(Entries[t], j)
<1>1. \A e \in Entries[t] : e[1] \in Int
  BY KeysAreInts
<1>2. \A i \in Int : (i < j => i < k) /\ (k < i => j < i)
  OBVIOUS
<1> QED BY <1>1, <1>2 DEF Below, Above

LEMMA OfParts ==
  ASSUME NEW t \in AllTrees, t # Nil
  PROVE  /\ SizeOf[t] = 1 + SizeOf[t.left] + SizeOf[t.right]
         /\ Entries[t] = Entries[t.left] \cup {<<t.key, t.data>>} \cup Entries[t.right]
         /\ Ordered[t] <=> (/\ Ordered[t.left] /\ Ordered[t.right]
                          /\ Below(Entries[t.left], t.key) /\ Above(Entries[t.right], t.key))
         /\ SizeOf[t] \in Nat
BY SizeOfDef, EntriesDef, OrderedDef DEF Entry

\* A rotation or a change of colours keeps what a tree holds, and its order.
LEMMA RotLeftSame ==
  ASSUME NEW a \in AllTrees, a # Nil, a.right # Nil
  PROVE  Same(a, RotLeft(a))
<1> DEFINE b == a.right
           x == Node(a.key, a.data, 1, a.left, b.left)
           y == Node(b.key, b.data, a.red, x, b.right)
<1>1. /\ b \in AllTrees /\ b # Nil
      /\ a.key \in Keys /\ a.data \in Data /\ a.red \in {0, 1}
      /\ a.left \in AllTrees
  BY Parts
<1> HIDE DEF b
<1>2. b.left \in AllTrees /\ b.right \in AllTrees /\ b.key \in Keys /\ b.data \in Data
  BY <1>1, Parts
<1>3. /\ x \in AllTrees /\ SizeOf[x] = 1 + SizeOf[a.left] + SizeOf[b.left]
      /\ Entries[x] = Entries[a.left] \cup {<<a.key, a.data>>} \cup Entries[b.left]
      /\ Ordered[x] <=> (/\ Ordered[a.left] /\ Ordered[b.left]
                       /\ Below(Entries[a.left], a.key) /\ Above(Entries[b.left], a.key))
  BY <1>1, <1>2, OfNode
<1>4. RotLeft(a) = y
  BY RotLeftIs DEF b
<1> HIDE DEF x, b
<1>5. /\ y \in AllTrees \ {Nil} /\ SizeOf[y] = 1 + SizeOf[x] + SizeOf[b.right]
      /\ Entries[y] = Entries[x] \cup {<<b.key, b.data>>} \cup Entries[b.right]
      /\ Ordered[y] <=> (/\ Ordered[x] /\ Ordered[b.right]
                       /\ Below(Entries[x], b.key) /\ Above(Entries[b.right], b.key))
  <2>1. x \in AllTrees
    BY <1>3
  <2>2. a.red \in {0, 1}
    BY <1>1
  <2> QED BY <1>2, <2>1, <2>2, OfNode
<1> HIDE DEF y
<1>6. /\ SizeOf[a] = 1 + SizeOf[a.left] + SizeOf[b]
      /\ Entries[a] = Entries[a.left] \cup {<<a.key, a.data>>} \cup Entries[b]
      /\ Ordered[a] <=> (/\ Ordered[a.left] /\ Ordered[b]
                       /\ Below(Entries[a.left], a.key) /\ Above(Entries[b], a.key))
  BY OfParts DEF b
<1>7. /\ SizeOf[b] = 1 + SizeOf[b.left] + SizeOf[b.right]
      /\ Entries[b] = Entries[b.left] \cup {<<b.key, b.data>>} \cup Entries[b.right]
      /\ Ordered[b] <=> (/\ Ordered[b.left] /\ Ordered[b.right]
                       /\ Below(Entries[b.left], b.key) /\ Above(Entries[b.right], b.key))
  BY <1>1, OfParts
<1>8. SizeOf[y] = SizeOf[a]
  <2>1. SizeOf[a.left] \in Nat /\ SizeOf[b.left] \in Nat /\ SizeOf[b.right] \in Nat
    BY <1>1, <1>2, SizeOfDef
  <2> QED BY <2>1, <1>3, <1>5, <1>6, <1>7
<1>9. Entries[y] = Entries[a]
  BY <1>3, <1>5, <1>6, <1>7
<1>10. ASSUME Ordered[a]
       PROVE  Ordered[y]
  <2>0. <<b.key, b.data>> \in Entries[b] /\ Above(Entries[b], a.key)
    BY <1>10, <1>6, <1>7
  <2>1. a.key < b.key
    BY <2>0 DEF Above
  <2>2. a.key \in Int /\ b.key \in Int
    BY <1>1, <1>2, TreeAssumption
  <2>3. Below(Entries[a.left], b.key)
    BY <2>1, <2>2, <1>1, <1>6, <1>10, BelowAbove
  <2>4. Below(Entries[x], b.key)
    BY <2>1, <2>3, <1>3, <1>6, <1>7, <1>10 DEF Below
  <2>5. Above(Entries[b.left], a.key)
    BY <1>6, <1>7, <1>10 DEF Above
  <2> QED BY <2>4, <2>5, <1>3, <1>5, <1>6, <1>7, <1>10
<1> QED BY <1>4, <1>5, <1>8, <1>9, <1>10 DEF Same

LEMMA RotRightSame ==
  ASSUME NEW a \in AllTrees, a # Nil, a.left # Nil
  PROVE  Same(a, RotRight(a))
<1> DEFINE b == a.left
           x == Node(a.key, a.data, 1, b.right, a.right)
           y == Node(b.key, b.data, a.red, b.left, x)
<1>1. /\ b \in AllTrees /\ b # Nil
      /\ a.key \in Keys /\ a.data \in Data /\ a.red \in {0, 1}
      /\ a.right \in AllTrees
  BY Parts
<1> HIDE DEF b
<1>2. b.left \in AllTrees /\ b.right \in AllTrees /\ b.key \in Keys /\ b.data \in Data
  BY <1>1, Parts
<1>3. /\ x \in AllTrees /\ SizeOf[x] = 1 + SizeOf[b.right] + SizeOf[a.right]
      /\ Entries[x] = Entries[b.right] \cup {<<a.key, a.data>>} \cup Entries[a.right]
      /\ Ordered[x] <=> (/\ Ordered[b.right] /\ Ordered[a.right]
                       /\ Below(Entries[b.right], a.key) /\ Above(Entries[a.right], a.key))
  BY <1>1, <1>2, OfNode
<1>4. RotRight(a) = y
  BY RotRightIs DEF b
<1> HIDE DEF x, b
<1>5. /\ y \in AllTrees \ {Nil} /\ SizeOf[y] = 1 + SizeOf[b.left] + SizeOf[x]
      /\ Entries[y] = Entries[b.left] \cup {<<b.key, b.data>>} \cup Entries[x]
      /\ Ordered[y] <=> (/\ Ordered[b.left] /\ Ordered[x]
                       /\ Below(Entries[b.left], b.key) /\ Above(Entries[x], b.key))
  <2>1. x \in AllTrees
    BY <1>3
  <2>2. a.red \in {0, 1}
    BY <1>1
  <2> QED BY <1>2, <2>1, <2>2, OfNode
<1> HIDE DEF y
<1>6. /\ SizeOf[a] = 1 + SizeOf[b] + SizeOf[a.right]
      /\ Entries[a] = Entries[b] \cup {<<a.key, a.data>>} \cup Entries[a.right]
      /\ Ordered[a] <=> (/\ Ordered[b] /\ Ordered[a.right]
                       /\ Below(Entries[b], a.key) /\ Above(Entries[a.right], a.key))
  BY OfParts DEF b
<1>7. /\ SizeOf[b] = 1 + SizeOf[b.left] + SizeOf[b.right]
      /\ Entries[b] = Entries[b.left] \cup {<<b.key, b.data>>} \cup Entries[b.right]
      /\ Ordered[b] <=> (/\ Ordered[b.left] /\ Ordered[b.right]
                       /\ Below(Entries[b.left], b.key) /\ Above(Entries[b.right], b.key))
  BY <1>1, OfParts
<1>8. SizeOf[y] = SizeOf[a]
  <2>1. SizeOf[a.right] \in Nat /\ SizeOf[b.left] \in Nat /\ SizeOf[b.right] \in Nat
    BY <1>1, <1>2, SizeOfDef
  <2> QED BY <2>1, <1>3, <1>5, <1>6, <1>7
<1>9. Entries[y] = Entries[a]
  BY <1>3, <1>5, <1>6, <1>7
<1>10. ASSUME Ordered[a]
       PROVE  Ordered[y]
  <2>0. <<b.key, b.data>> \in Entries[b] /\ Below(Entries[b], a.key)
    BY <1>10, <1>6, <1>7
  <2>1. b.key < a.key
    BY <2>0 DEF Below
  <2>2. a.key \in Int /\ b.key \in Int
    BY <1>1, <1>2, TreeAssumption
  <2>3. Above(Entries[a.right], b.key)
    BY <2>1, <2>2, <1>1, <1>6, <1>10, BelowAbove
  <2>4. Above(Entries[x], b.key)
    BY <2>1, <2>3, <1>3, <1>6, <1>7, <1>10 DEF Above
  <2>5. Below(Entries[b.right], a.key)
    BY <1>6, <1>7, <1>10 DEF Below
  <2> QED BY <2>4, <2>5, <1>3, <1>5, <1>6, <1>7, <1>10
<1> QED BY <1>4, <1>5, <1>8, <1>9, <1>10 DEF Same

\* A node keeps what it holds if its sides are exchanged for others that hold
\* the same, and whatever its colour becomes.
LEMMA NodeSame ==
  ASSUME NEW t \in AllTrees, t # Nil, NEW c \in {0, 1}, NEW l \in AllTrees, NEW r \in AllTrees,
         \/ l = t.left
         \/ Same(t.left, l),
         \/ r = t.right
         \/ Same(t.right, r)
  PROVE  Same(t, Node(t.key, t.data, c, l, r))
<1> DEFINE y == Node(t.key, t.data, c, l, r)
<1>1. t.key \in Keys /\ t.data \in Data
  BY Parts
<1>2. /\ y \in AllTrees \ {Nil} /\ SizeOf[y] = 1 + SizeOf[l] + SizeOf[r]
      /\ Entries[y] = Entries[l] \cup {<<t.key, t.data>>} \cup Entries[r]
      /\ Ordered[y] <=> (/\ Ordered[l] /\ Ordered[r]
                       /\ Below(Entries[l], t.key) /\ Above(Entries[r], t.key))
  BY <1>1, OfNode
<1> HIDE DEF y
<1>3. /\ Entries[l] = Entries[t.left] /\ SizeOf[l] = SizeOf[t.left]
      /\ Ordered[t.left] => Ordered[l]
      /\ Entries[r] = Entries[t.right] /\ SizeOf[r] = SizeOf[t.right]
      /\ Ordered[t.right] => Ordered[r]
  BY DEF Same
<1>4. Entries[y] = Entries[t] /\ SizeOf[y] = SizeOf[t] /\ (Ordered[t] => Ordered[y])
  BY <1>2, <1>3, OfParts
<1>5. Same(t, y)
  BY <1>2, <1>4 DEF Same
<1> QED BY <1>5 DEF y

LEMMA PaintSame ==
  ASSUME NEW t \in AllTrees, t # Nil, NEW c \in {0, 1}
  PROVE  Same(t, Paint(t, c))
<1>1. t.left \in AllTrees /\ t.right \in AllTrees
  BY Parts
<1> QED BY <1>1, PaintIs, NodeSame

LEMMA FlipSame ==
  ASSUME NEW t \in AllTrees, t # Nil
  PROVE  Same(t, Flip(t))
<1>1. 1 - t.red \in {0, 1}
  BY Parts
<1> QED BY <1>1, PaintSame DEF Flip

LEMMA ColorFlipSame ==
  ASSUME NEW t \in AllTrees, t # Nil
  PROVE  /\ ColorFlip(t) = Crash <=> t.left = Nil \/ t.right = Nil
         /\ ColorFlip(t) # Crash => Same(t, ColorFlip(t))
<1>1. CASE t.left = Nil \/ t.right = Nil
  BY <1>1, ColorFlipIs
<1>2. CASE t.left # Nil /\ t.right # Nil
  <2>1. t.left \in AllTrees /\ t.right \in AllTrees /\ 1 - t.red \in {0, 1}
    BY Parts
  <2>2. Same(t.left, Flip(t.left)) /\ Same(t.right, Flip(t.right))
    BY <1>2, <2>1, FlipSame
  <2>3. Flip(t.left) \in AllTrees /\ Flip(t.right) \in AllTrees
    BY <2>2 DEF Same
  <2>4. ColorFlip(t) = Node(t.key, t.data, 1 - t.red, Flip(t.left), Flip(t.right))
    BY <1>2, ColorFlipIs
  <2>5. Same(t, ColorFlip(t))
    BY <2>1, <2>2, <2>3, <2>4, NodeSame
  <2>6. ColorFlip(t) # Crash
    BY <2>4, NodeIsNotNil
  <2> QED BY <1>2, <2>5, <2>6
<1> QED BY <1>1, <1>2

\* ... and so does fix_up, which cannot crash.
LEMMA FixUpSame ==
  ASSUME NEW t \in AllTrees, t # Nil
  PROVE  FixUp(t) # Crash /\ Same(t, FixUp(t))
<1> DEFINE u == LeanLeft(t)
           v == RaiseLeft(u)
           w == Split(v)
<1>1. Same(t, t)
  BY DEF Same
<1>2. Same(t, u)
  BY <1>1, RotLeftSame DEF LeanLeft, Red
<1>3. u \in AllTrees /\ u # Nil
  BY <1>2 DEF Same
<1> HIDE DEF u
<1>4. Same(u, v)
  <2>1. Same(u, u)
    BY <1>3 DEF Same
  <2> QED BY <1>3, <2>1, RotRightSame DEF RaiseLeft, Red
<1>5. v \in AllTrees /\ v # Nil
  BY <1>4 DEF Same
<1> HIDE DEF v
<1>6. Same(v, w) /\ w # Crash
  <2>1. Same(v, v) /\ v # Crash
    BY <1>5, Parts DEF Same
  <2> QED BY <1>5, <2>1, ColorFlipSame DEF Split, Red
<1>7. FixUp(t) = w
  BY Parts DEF FixUp, u, v
<1> HIDE DEF w
<1>8. Same(t, w)
  BY <1>2, <1>4, <1>6, SameTrans
<1> QED BY <1>6, <1>7, <1>8

LEMMA RedNode ==
  ASSUME NEW k, NEW d, NEW c, NEW l, NEW r
  PROVE  Red(Node(k, d, c, l, r)) <=> c = 1
BY NodeFields, NodeIsNotNil DEF Red

LEMMA RedIs ==
  ASSUME NEW t \in AllTrees
  PROVE  /\ Red(t) <=> t # Nil /\ t.red = 1
         /\ t # Nil => t.red \in {0, 1} /\ 1 - t.red \in {0, 1}
BY Parts DEF Red

\* What fix_up does to a node, by the colours of its children.
LEMMA FixUpIs ==
  ASSUME NEW k \in Keys, NEW d \in Data, NEW c \in {0, 1}, NEW l \in AllTrees, NEW r \in AllTrees
  PROVE  LET t == Node(k, d, c, l, r) IN
    /\ ~Red(r) /\ ~(Red(l) /\ Red(l.left)) => FixUp(t) = t
    /\ ~Red(r) /\ Red(l) /\ Red(l.left) =>
         FixUp(t) = Node(l.key, l.data, 1 - c, Flip(l.left), Node(k, d, 0, l.right, r))
    /\ Red(r) /\ ~Red(l) /\ ~Red(r.right) =>
         FixUp(t) = Node(r.key, r.data, c, Node(k, d, 1, l, r.left), r.right)
    /\ Red(r) /\ Red(l) =>
         FixUp(t) = Node(k, d, 1 - c, Flip(l), Node(r.key, r.data, 0, r.left, r.right))
<1> DEFINE t == Node(k, d, c, l, r)
<1>1. t \in AllTrees /\ t # Nil /\ t # Crash
  BY NodeIsTree, NodeIsNotNil
<1>2. t.key = k /\ t.data = d /\ t.red = c /\ t.left = l /\ t.right = r
  BY NodeFields
<1>3. FixUp(t) = Split(RaiseLeft(LeanLeft(t)))
  BY <1>1 DEF FixUp
<1>4. 1 - c \in {0, 1} /\ 1 - 1 = 0 /\ 1 - 0 = 1
  OBVIOUS
<1> HIDE DEF t
<1>5. ASSUME ~Red(r), ~(Red(l) /\ Red(l.left))
      PROVE  FixUp(t) = t
  BY <1>2, <1>3, <1>5 DEF LeanLeft, RaiseLeft, Split
<1>6. ASSUME ~Red(r), Red(l), Red(l.left)
      PROVE  FixUp(t) = Node(l.key, l.data, 1 - c, Flip(l.left), Node(k, d, 0, l.right, r))
  <2> DEFINE x == Node(k, d, 1, l.right, r)
             u == Node(l.key, l.data, c, l.left, x)
  <2>1. LeanLeft(t) = t
    BY <1>2, <1>6 DEF LeanLeft
  <2>2. l # Nil /\ l.left # Nil
    BY <1>6 DEF Red
  <2>3. RaiseLeft(t) = RotRight(t)
    BY <1>2, <1>6 DEF RaiseLeft
  <2>4. RotRight(t) = u
    BY <1>1, <1>2, <2>2, RotRightIs
  <2>5. l.key \in Keys /\ l.data \in Data /\ l.left \in AllTrees /\ l.right \in AllTrees
    BY <2>2, Parts
  <2>6. x \in AllTrees /\ x # Nil /\ Red(x)
    BY <2>5, NodeIsTree, NodeIsNotNil, RedNode
  <2> HIDE DEF x
  <2>7. u \in AllTrees /\ u # Nil
    BY <2>5, <2>6, NodeIsTree, NodeIsNotNil
  <2>8. u.key = l.key /\ u.data = l.data /\ u.red = c /\ u.left = l.left /\ u.right = x
    BY NodeFields
  <2> HIDE DEF u
  <2>9. Split(u) = ColorFlip(u)
    BY <2>6, <2>8, <1>6 DEF Split
  <2>10. ColorFlip(u) = Node(u.key, u.data, 1 - u.red, Flip(u.left), Flip(u.right))
    BY <2>2, <2>6, <2>7, <2>8, ColorFlipIs
  <2>11. Flip(x) = Node(x.key, x.data, 1 - x.red, x.left, x.right)
    BY <2>6, FlipIs
  <2>12. x.key = k /\ x.data = d /\ x.red = 1 /\ x.left = l.right /\ x.right = r
    BY NodeFields DEF x
  <2>13. Flip(x) = Node(k, d, 0, l.right, r)
    BY <2>11, <2>12, <1>4
  <2>14. FixUp(t) = ColorFlip(u)
    BY <1>3, <2>1, <2>3, <2>4, <2>9
  <2> QED BY <2>8, <2>10, <2>13, <2>14
<1>7. ASSUME Red(r), ~Red(l), ~Red(r.right)
      PROVE  FixUp(t) = Node(r.key, r.data, c, Node(k, d, 1, l, r.left), r.right)
  <2> DEFINE x == Node(k, d, 1, l, r.left)
             u == Node(r.key, r.data, c, x, r.right)
  <2>1. r # Nil
    BY <1>7 DEF Red
  <2>2. LeanLeft(t) = RotLeft(t)
    BY <1>2, <1>7 DEF LeanLeft
  <2>3. RotLeft(t) = u
    BY <1>1, <1>2, <2>1, RotLeftIs
  <2>4. x.left = l
    BY NodeFields
  <2> HIDE DEF x
  <2>5. u.left = x /\ u.right = r.right
    BY NodeFields
  <2> HIDE DEF u
  <2>6. RaiseLeft(u) = u
    BY <2>4, <2>5, <1>7 DEF RaiseLeft
  <2>7. Split(u) = u
    BY <2>5, <1>7 DEF Split
  <2> QED BY <1>3, <2>2, <2>3, <2>6, <2>7 DEF u, x
<1>8. ASSUME Red(r), Red(l)
      PROVE  FixUp(t) = Node(k, d, 1 - c, Flip(l), Node(r.key, r.data, 0, r.left, r.right))
  <2> DEFINE x == Node(k, d, 1, l, r.left)
             u == Node(r.key, r.data, c, x, r.right)
             y == Node(r.key, r.data, 1, r.left, r.right)
             v == Node(k, d, c, l, y)
  <2>1. r # Nil /\ l # Nil
    BY <1>8 DEF Red
  <2>2. LeanLeft(t) = u
    <3>1. LeanLeft(t) = RotLeft(t)
      BY <1>2, <1>8 DEF LeanLeft
    <3> QED BY <3>1, <1>1, <1>2, <2>1, RotLeftIs
  <2>3. r.key \in Keys /\ r.data \in Data /\ r.left \in AllTrees /\ r.right \in AllTrees
    BY <2>1, Parts
  <2>4. x \in AllTrees /\ x # Nil /\ Red(x)
    BY <2>3, NodeIsTree, NodeIsNotNil, RedNode
  <2>5. x.key = k /\ x.data = d /\ x.left = l /\ x.right = r.left
    BY NodeFields
  <2>6. y \in AllTrees /\ y # Nil /\ Red(y)
    BY <2>3, NodeIsTree, NodeIsNotNil, RedNode
  <2> HIDE DEF x, y
  <2>7. u \in AllTrees /\ u # Nil
    BY <2>3, <2>4, NodeIsTree, NodeIsNotNil
  <2>8. u.key = r.key /\ u.data = r.data /\ u.red = c /\ u.left = x /\ u.right = r.right
    BY NodeFields
  <2>9. v \in AllTrees /\ v # Nil
    BY <2>6, NodeIsTree, NodeIsNotNil
  <2>10. v.key = k /\ v.data = d /\ v.red = c /\ v.left = l /\ v.right = y
    BY NodeFields
  <2> HIDE DEF u
  <2>11. RaiseLeft(u) = RotRight(u)
    BY <2>4, <2>5, <2>8, <1>8 DEF RaiseLeft
  <2>12. RotRight(u) = Node(x.key, x.data, u.red, x.left, Node(u.key, u.data, 1, x.right, u.right))
    BY <2>4, <2>7, <2>8, RotRightIs
  <2>13. RotRight(u) = v
    BY <2>5, <2>8, <2>12 DEF y
  <2> HIDE DEF v
  <2>14. Split(v) = ColorFlip(v)
    BY <2>6, <2>10, <1>8 DEF Split
  <2>15. ColorFlip(v) = Node(k, d, 1 - c, Flip(l), Flip(y))
    BY <2>1, <2>6, <2>9, <2>10, ColorFlipIs
  <2>16. Flip(y) = Node(y.key, y.data, 1 - y.red, y.left, y.right)
    BY <2>6, FlipIs
  <2>17. y.key = r.key /\ y.data = r.data /\ y.red = 1 /\ y.left = r.left /\ y.right = r.right
    BY NodeFields DEF y
  <2>18. Flip(y) = Node(r.key, r.data, 0, r.left, r.right)
    BY <2>16, <2>17, <1>4
  <2> QED BY <1>3, <2>2, <2>11, <2>13, <2>14, <2>15, <2>18
<1> QED BY <1>5, <1>6, <1>7, <1>8 DEF t

\* What move_red_left makes of a node.
LEMMA MoveRedLeftIs ==
  ASSUME NEW t \in AllTrees, t # Nil
  PROVE  /\ t.left = Nil \/ t.right = Nil => MoveRedLeft(t) = Crash
         /\ t.left # Nil /\ t.right # Nil /\ ~Red(t.right.left) =>
              MoveRedLeft(t) = Node(t.key, t.data, 1 - t.red, Flip(t.left), Flip(t.right))
         /\ t.left # Nil /\ t.right # Nil /\ Red(t.right.left) =>
              MoveRedLeft(t) =
                Node(t.right.left.key, t.right.left.data, t.red,
                     Node(t.key, t.data, 0, Flip(t.left), t.right.left.left),
                     Node(t.right.key, t.right.data, 0, t.right.left.right, t.right.right))
<1> DEFINE f == ColorFlip(t)
           l == Flip(t.left)
           r == t.right
           b == t.right.left
           c == 1 - t.red
<1>1. CASE t.left = Nil \/ t.right = Nil
  <2>1. f = Crash
    BY <1>1, ColorFlipIs
  <2> QED BY <2>1, <1>1 DEF MoveRedLeft
<1>2. CASE t.left # Nil /\ t.right # Nil
  <2>1. /\ r \in AllTrees /\ t.left \in AllTrees /\ c \in {0, 1} /\ 1 - c = t.red
        /\ t.key \in Keys /\ t.data \in Data
    BY Parts
  <2>2. /\ r.key \in Keys /\ r.data \in Data /\ r.red \in {0, 1} /\ 1 - r.red \in {0, 1}
        /\ b \in AllTrees /\ r.right \in AllTrees
    BY <1>2, <2>1, Parts
  <2>3. l \in AllTrees /\ l # Nil
    BY <1>2, <2>1, FlipIs
  <2>4. Flip(r) \in AllTrees /\ Flip(r) # Nil
        /\ Flip(r) = Node(r.key, r.data, 1 - r.red, b, r.right)
    BY <1>2, <2>1, FlipIs
  <2>5. f = Node(t.key, t.data, c, l, Flip(r))
    BY <1>2, ColorFlipIs
  <2> HIDE DEF f, c, l
  <2>6. f \in AllTrees /\ f # Nil /\ f # Crash
    BY <2>1, <2>3, <2>4, <2>5, NodeIsTree, NodeIsNotNil
  <2>7. f.key = t.key /\ f.data = t.data /\ f.red = c /\ f.left = l /\ f.right = Flip(r)
    BY <2>5, NodeFields
  <2>8. /\ f.right.key = r.key /\ f.right.data = r.data /\ f.right.red = 1 - r.red
        /\ f.right.left = b /\ f.right.right = r.right
    BY <2>4, <2>7, NodeFields
  <2>9. ASSUME ~Red(b)
        PROVE  MoveRedLeft(t) = Node(t.key, t.data, c, l, Flip(r))
    BY <2>5, <2>8, <2>9 DEF MoveRedLeft, f
  <2>10. ASSUME Red(b)
         PROVE  MoveRedLeft(t) = Node(b.key, b.data, t.red, Node(t.key, t.data, 0, l, b.left),
                                      Node(r.key, r.data, 0, b.right, r.right))
    <3> DEFINE x == Node(r.key, r.data, 1, b.right, r.right)
               y == Node(b.key, b.data, 1 - r.red, b.left, x)
               g == Node(t.key, t.data, c, l, y)
               z == Node(t.key, t.data, 1, l, b.left)
               h == Node(b.key, b.data, c, z, x)
    <3>1. b # Nil
      BY <2>10 DEF Red
    <3>2. b.key \in Keys /\ b.data \in Data /\ b.left \in AllTrees /\ b.right \in AllTrees
      BY <2>2, <3>1, Parts
    <3>3. x \in AllTrees /\ x # Nil
      BY <2>2, <3>2, NodeIsTree, NodeIsNotNil
    <3>4. RotRight(f.right) = y
      <4> HIDE DEF b, r
      <4>1. f.right \in AllTrees /\ f.right # Nil
        BY <2>4, <2>7
      <4> QED BY <4>1, <2>8, <3>1, RotRightIs
    <3>5. x.key = r.key /\ x.data = r.data /\ x.red = 1 /\ x.left = b.right /\ x.right = r.right
      BY NodeFields
    <3> HIDE DEF x, b, r
    <3>6. y \in AllTrees /\ y # Nil /\ y # Crash
      BY <2>2, <3>2, <3>3, NodeIsTree, NodeIsNotNil
    <3>7. y.key = b.key /\ y.data = b.data /\ y.left = b.left /\ y.right = x
      BY NodeFields
    <3> HIDE DEF y
    <3>8. WithRight(f, y) = g
      BY <2>5, <3>6, WithOfNode
    <3>9. g \in AllTrees /\ g # Nil
      BY <2>1, <2>3, <3>6, NodeIsTree, NodeIsNotNil
    <3>10. g.key = t.key /\ g.data = t.data /\ g.red = c /\ g.left = l /\ g.right = y
      BY NodeFields
    <3> HIDE DEF g
    <3>11. RotLeft(g) = h
      BY <3>6, <3>7, <3>9, <3>10, RotLeftIs
    <3>12. z \in AllTrees /\ z # Nil
      BY <2>1, <2>3, <3>2, NodeIsTree, NodeIsNotNil
    <3>13. z.key = t.key /\ z.data = t.data /\ z.red = 1 /\ z.left = l /\ z.right = b.left
      BY NodeFields
    <3> HIDE DEF z
    <3>14. h \in AllTrees /\ h # Nil
      BY <2>1, <3>2, <3>3, <3>12, NodeIsTree, NodeIsNotNil
    <3>15. h.key = b.key /\ h.data = b.data /\ h.red = c /\ h.left = z /\ h.right = x
      BY NodeFields
    <3> HIDE DEF h
    <3>16. ColorFlip(h) = Node(b.key, b.data, 1 - c, Flip(z), Flip(x))
      BY <3>3, <3>12, <3>14, <3>15, ColorFlipIs
    <3>17. Flip(z) = Node(t.key, t.data, 0, l, b.left)
      <4>1. Flip(z) = Node(z.key, z.data, 1 - z.red, z.left, z.right) /\ 1 - 1 = 0
        BY <3>12, FlipIs
      <4> QED BY <4>1, <3>13
    <3>18. Flip(x) = Node(r.key, r.data, 0, b.right, r.right)
      <4>1. Flip(x) = Node(x.key, x.data, 1 - x.red, x.left, x.right) /\ 1 - 1 = 0
        BY <3>3, FlipIs
      <4> QED BY <4>1, <3>5
    <3>19. MoveRedLeft(t) = ColorFlip(RotLeft(WithRight(f, RotRight(f.right))))
      BY <2>6, <2>8, <2>10 DEF MoveRedLeft, f
    <3> QED BY <2>1, <3>4, <3>8, <3>11, <3>16, <3>17, <3>18, <3>19
  <2> QED BY <1>2, <2>9, <2>10 DEF l, c
<1> QED BY <1>1, <1>2

\* move_red_left on a node with two sides: what it holds stays.
LEMMA MoveRedLeftSame ==
  ASSUME NEW t \in AllTrees, t # Nil, t.left # Nil, t.right # Nil
  PROVE  MoveRedLeft(t) # Crash /\ Same(t, MoveRedLeft(t))
<1>1. /\ t.left \in AllTrees /\ t.right \in AllTrees
      /\ t.key \in Keys /\ t.data \in Data /\ t.red \in {0, 1} /\ 1 - t.red \in {0, 1}
  BY Parts
<1>2. Same(t.left, Flip(t.left)) /\ Same(t.right, Flip(t.right))
  BY <1>1, FlipSame
<1>3. Flip(t.left) \in AllTrees /\ Flip(t.right) \in AllTrees
  BY <1>2 DEF Same
<1>4. CASE ~Red(t.right.left)
  <2>1. MoveRedLeft(t) = Node(t.key, t.data, 1 - t.red, Flip(t.left), Flip(t.right))
    BY <1>4, MoveRedLeftIs
  <2> QED BY <2>1, <1>1, <1>2, <1>3, NodeSame, NodeIsNotNil
<1>5. CASE Red(t.right.left)
  <2> DEFINE r == t.right
             b == r.left
             x == RotRight(r)
             xr == Node(r.key, r.data, 1, b.right, r.right)
             a == Node(t.key, t.data, t.red, Flip(t.left), x)
             z == Node(t.key, t.data, 1, Flip(t.left), b.left)
             y == RotLeft(a)
  <2>1. r.left # Nil /\ b # Nil
    BY <1>5 DEF Red
  <2>2. /\ b \in AllTrees /\ r.right \in AllTrees /\ r.key \in Keys /\ r.data \in Data
        /\ r.red \in {0, 1}
    BY <1>1, Parts
  <2>3. b.left \in AllTrees /\ b.right \in AllTrees /\ b.key \in Keys /\ b.data \in Data
    BY <2>1, <2>2, Parts
  <2>4. Same(r, x)
    BY <1>1, <2>1, RotRightSame
  <2>5. x = Node(b.key, b.data, r.red, b.left, xr)
    BY <1>1, <2>1, RotRightIs
  <2>6. MoveRedLeft(t) = Node(b.key, b.data, t.red,
                              Node(t.key, t.data, 0, Flip(t.left), b.left),
                              Node(r.key, r.data, 0, b.right, r.right))
    BY <1>5, MoveRedLeftIs
  <2>7. x \in AllTrees /\ x # Nil
    BY <2>4 DEF Same
  <2>8. xr \in AllTrees /\ xr # Nil
    BY <2>2, <2>3, NodeIsTree, NodeIsNotNil
  <2>9. z \in AllTrees /\ z # Nil
    BY <1>1, <1>3, <2>3, NodeIsTree, NodeIsNotNil
  <2>10. /\ xr.key = r.key /\ xr.data = r.data /\ xr.left = b.right /\ xr.right = r.right
         /\ z.key = t.key /\ z.data = t.data /\ z.left = Flip(t.left) /\ z.right = b.left
    BY NodeFields
  <2> HIDE DEF r, b, x, xr, z
  <2>11. Same(t, a)
    BY <1>1, <1>2, <1>3, <2>4, <2>7, NodeSame DEF r
  <2>12. a \in AllTrees /\ a # Nil
    BY <2>11 DEF Same
  <2>13. /\ a.key = t.key /\ a.data = t.data /\ a.red = t.red
         /\ a.left = Flip(t.left) /\ a.right = x
         /\ x.key = b.key /\ x.data = b.data /\ x.left = b.left /\ x.right = xr
    BY <2>5, NodeFields
  <2> HIDE DEF a
  <2>14. Same(a, y)
    BY <2>7, <2>12, <2>13, RotLeftSame
  <2>15. y = Node(b.key, b.data, t.red, z, xr)
    BY <2>7, <2>12, <2>13, RotLeftIs DEF z
  <2>16. y \in AllTrees /\ y # Nil
    BY <2>14 DEF Same
  <2> HIDE DEF y
  <2>17. y.key = b.key /\ y.data = b.data /\ y.red = t.red /\ y.left = z /\ y.right = xr
    BY <2>15, NodeFields
  <2>18. Same(z, Paint(z, 0)) /\ Same(xr, Paint(xr, 0))
    BY <2>8, <2>9, PaintSame
  <2>19. /\ Paint(z, 0) = Node(t.key, t.data, 0, Flip(t.left), b.left)
         /\ Paint(xr, 0) = Node(r.key, r.data, 0, b.right, r.right)
    BY <2>8, <2>9, <2>10, PaintIs
  <2>20. Paint(z, 0) \in AllTrees /\ Paint(xr, 0) \in AllTrees
    BY <2>18 DEF Same
  <2>21. Same(y, Node(b.key, b.data, t.red, Paint(z, 0), Paint(xr, 0)))
    BY <1>1, <2>16, <2>17, <2>18, <2>20, NodeSame
  <2>22. MoveRedLeft(t) = Node(b.key, b.data, t.red, Paint(z, 0), Paint(xr, 0))
    BY <2>6, <2>19
  <2> QED BY <2>11, <2>14, <2>21, <2>22, SameTrans, NodeIsNotNil
<1> QED BY <1>4, <1>5

-----------------------------------------------------------------------------
(***************************************************************************)
(* Balance: n black nodes on every path, no red link to the right and no   *)
(* two red ones in a row.                                                  *)
(***************************************************************************)
\* Bal: a tree is balanced, with n black nodes on every path.  Kids: the two sides
\* of a node are, and the right one is black.  Almost: balanced but for two red
\* links in a row at the top.
Bal(t, n) == t \in AllTrees /\ n \in Nat /\ BlacksOf[t] = n
Kids(t, n) == t \in AllTrees /\ t # Nil /\ Bal(t.left, n) /\ Bal(t.right, n) /\ ~Red(t.right)
TwoReds(t) == Red(t) /\ Red(t.left)
Almost(t, n) == Bal(t, n) \/ (Red(t) /\ Kids(t, n))

LEMMA BalNil == Bal(Nil, 0)
BY NilIsTree, BlacksOfDef DEF Bal

LEMMA BlacksAtLeast == \A t \in AllTrees : BlacksOf[t] = -1 \/ BlacksOf[t] \in Nat
<1> DEFINE P == {t \in AllTrees : BlacksOf[t] = -1 \/ BlacksOf[t] \in Nat}
<1>1. Nil \in P
  BY NilIsTree, BlacksOfDef
<1>2. ASSUME NEW t \in AllTrees \ {Nil}, t.left \in P, t.right \in P
      PROVE  t \in P
  BY <1>2, BlacksOfDef DEF BlacksAt
<1> HIDE DEF P
<1>3. AllTrees \subseteq P
  BY <1>1, <1>2, TreeInduction
<1> QED BY <1>3 DEF P

\* A balanced tree is a node with balanced sides, and the other way round.
LEMMA BalKids ==
  ASSUME NEW t, NEW n, Bal(t, n), t # Nil
  PROVE  /\ n - 1 + t.red \in Nat /\ Kids(t, n - 1 + t.red) /\ ~TwoReds(t)
<1>1. t \in AllTrees /\ n \in Nat /\ BlacksOf[t] = n
  BY DEF Bal
<1>2. t.left \in AllTrees /\ t.right \in AllTrees /\ t.red \in {0, 1}
  BY <1>1, Parts
<1>3. BlacksOf[t] = BlacksAt(t, BlacksOf[t.left], BlacksOf[t.right])
  BY <1>1, BlacksOfDef
<1>4. ~(BlacksOf[t.left] = -1 \/ BlacksOf[t.left] # BlacksOf[t.right]
        \/ Red(t.right) \/ (Red(t) /\ Red(t.left)))
  BY <1>1, <1>3 DEF BlacksAt
<1>5. BlacksOf[t.left] + (IF Red(t) THEN 0 ELSE 1) = n
  BY <1>1, <1>3, <1>4 DEF BlacksAt
<1>6. BlacksOf[t.left] \in Nat
  BY <1>2, <1>4, BlacksAtLeast
<1>7. Red(t) <=> t.red = 1
  BY DEF Red
<1>8. BlacksOf[t.left] = n - 1 + t.red
  BY <1>1, <1>2, <1>5, <1>6, <1>7
<1> QED BY <1>1, <1>2, <1>4, <1>6, <1>8 DEF Kids, Bal, TwoReds

LEMMA KidsBal ==
  ASSUME NEW t, NEW n, Kids(t, n), ~TwoReds(t)
  PROVE  Bal(t, n + 1 - t.red)
<1>1. t \in AllTrees /\ t # Nil /\ n \in Nat /\ t.left \in AllTrees /\ t.right \in AllTrees
  BY DEF Kids, Bal
<1>2. BlacksOf[t] = BlacksAt(t, BlacksOf[t.left], BlacksOf[t.right])
  BY <1>1, BlacksOfDef
<1>3. BlacksOf[t.left] = n /\ BlacksOf[t.right] = n /\ ~Red(t.right) /\ ~(Red(t) /\ Red(t.left))
  BY DEF Kids, Bal, TwoReds
<1>4. BlacksOf[t] = n + (IF Red(t) THEN 0 ELSE 1)
  BY <1>1, <1>2, <1>3 DEF BlacksAt
<1>5. (Red(t) <=> t.red = 1) /\ t.red \in {0, 1}
  BY <1>1, RedIs
<1> QED BY <1>1, <1>4, <1>5 DEF Bal

LEMMA NodeKids ==
  ASSUME NEW k \in Keys, NEW d \in Data, NEW c \in {0, 1}, NEW l, NEW r, NEW n,
         Bal(l, n), Bal(r, n), ~Red(r)
  PROVE  /\ Kids(Node(k, d, c, l, r), n)
         /\ c = 0 => Bal(Node(k, d, c, l, r), n + 1)
         /\ c = 1 /\ ~Red(l) => Bal(Node(k, d, c, l, r), n)
<1> DEFINE t == Node(k, d, c, l, r)
<1>1. l \in AllTrees /\ r \in AllTrees /\ n \in Nat
  BY DEF Bal
<1>2. t \in AllTrees /\ t # Nil
  BY <1>1, NodeIsTree, NodeIsNotNil
<1>3. t.red = c /\ t.left = l /\ t.right = r /\ (Red(t) <=> c = 1)
  BY NodeFields, RedNode
<1> HIDE DEF t
<1>4. Kids(t, n)
  BY <1>2, <1>3 DEF Kids
<1>5. ASSUME ~(c = 1 /\ Red(l))
      PROVE  Bal(t, n + 1 - c)
  BY <1>3, <1>4, <1>5, KidsBal DEF TwoReds
<1>6. c = 0 => Bal(t, n + 1)
  BY <1>1, <1>5
<1>7. c = 1 /\ ~Red(l) => Bal(t, n)
  BY <1>1, <1>5
<1> QED BY <1>4, <1>6, <1>7 DEF t

\* Flip makes a red node black and a black one red.
LEMMA FlipKids ==
  ASSUME NEW t, NEW n, Kids(t, n)
  PROVE  /\ Kids(Flip(t), n) /\ Flip(t).left = t.left
         /\ Red(Flip(t)) <=> ~Red(t)
         /\ Red(t) => Bal(Flip(t), n + 1)
         /\ ~Red(t) /\ ~Red(t.left) => Bal(Flip(t), n)
         /\ ~Red(t) => Almost(Flip(t), n)
<1>1. t \in AllTrees /\ t # Nil /\ Bal(t.left, n) /\ Bal(t.right, n) /\ ~Red(t.right)
  BY DEF Kids
<1>2. t.key \in Keys /\ t.data \in Data /\ t.red \in {0, 1} /\ 1 - t.red \in {0, 1}
  BY <1>1, Parts
<1>3. Flip(t) = Node(t.key, t.data, 1 - t.red, t.left, t.right)
  BY <1>1, FlipIs
<1>4. Kids(Flip(t), n) /\ Flip(t).left = t.left
  BY <1>1, <1>2, <1>3, NodeKids, NodeFields
<1>5. Red(t) <=> t.red = 1
  BY <1>1 DEF Red
<1>6. Red(Flip(t)) <=> 1 - t.red = 1
  BY <1>3, RedNode
<1>7. Red(Flip(t)) <=> ~Red(t)
  BY <1>2, <1>5, <1>6
<1>8. Red(t) => Bal(Flip(t), n + 1)
  BY <1>1, <1>2, <1>3, <1>5, NodeKids
<1>9. ~Red(t) => 1 - t.red = 1
  BY <1>2, <1>5
<1>10. ~Red(t) /\ ~Red(t.left) => Bal(Flip(t), n)
  BY <1>1, <1>2, <1>3, <1>9, NodeKids
<1> QED BY <1>4, <1>7, <1>8, <1>10 DEF Almost

LEMMA AlmostKids ==
  ASSUME NEW t, NEW n, Almost(t, n)
  PROVE  /\ t \in AllTrees /\ n \in Nat
         /\ Red(t) => Kids(t, n)
         /\ ~TwoReds(t) => Bal(t, n)
<1>1. CASE Bal(t, n)
  <2>1. t \in AllTrees /\ n \in Nat
    BY <1>1 DEF Bal
  <2>2. ASSUME Red(t)
        PROVE  Kids(t, n)
    <3>1. t # Nil /\ t.red = 1
      BY <2>2 DEF Red
    <3>2. Kids(t, n - 1 + t.red)
      BY <1>1, <3>1, BalKids
    <3> QED BY <2>1, <3>1, <3>2
  <2> QED BY <1>1, <2>1, <2>2
<1>2. CASE Red(t) /\ Kids(t, n)
  <2>1. t \in AllTrees /\ n \in Nat /\ t # Nil /\ t.red = 1
    BY <1>2 DEF Kids, Bal, Red
  <2>2. ~TwoReds(t) => Bal(t, n + 1 - t.red)
    BY <1>2, KidsBal
  <2>3. n + 1 - t.red = n
    BY <2>1
  <2> QED BY <1>2, <2>1, <2>2, <2>3
<1> QED BY <1>1, <1>2 DEF Almost

\* fix_up: the sides of the result are balanced.  Either the node's colour
\* stays or a 4-node was split.
Fixed(u, c, l, r, n) ==
  \/ /\ u.red = c /\ Kids(u, n)
     /\ TwoReds(u) => c = 1 /\ (Red(l) \/ Red(r))
  \/ /\ u.red = 1 - c /\ Kids(u, n + 1) /\ ~TwoReds(u)
     /\ Red(l) /\ (Red(r) \/ Red(l.left))

\* fix_up of a node whose left side has at most two red links at its top.
LEMMA FixUpBal ==
  ASSUME NEW k \in Keys, NEW d \in Data, NEW c \in {0, 1}, NEW l, NEW r, NEW n,
         Almost(l, n), Bal(r, n)
  PROVE  Fixed(FixUp(Node(k, d, c, l, r)), c, l, r, n)
<1> DEFINE t == Node(k, d, c, l, r)
           u == FixUp(t)
<1>1. l \in AllTrees /\ r \in AllTrees /\ n \in Nat /\ 1 - c \in {0, 1}
  BY AlmostKids DEF Bal
<1>2. t.left = l /\ t.right = r /\ t.red = c /\ (Red(t) <=> c = 1)
  BY NodeFields, RedNode
<1>3. ASSUME ~Red(r), ~TwoReds(l)
      PROVE  Fixed(u, c, l, r, n)
  <2>1. u = t
    BY <1>1, <1>3, FixUpIs DEF TwoReds
  <2>2. Kids(t, n)
    BY <1>3, AlmostKids, NodeKids
  <2> QED BY <1>2, <2>1, <2>2 DEF TwoReds, Fixed
<1>4. ASSUME ~Red(r), TwoReds(l)
      PROVE  Fixed(u, c, l, r, n)
  <2> DEFINE x == Node(k, d, 0, l.right, r)
  <2>1. u = Node(l.key, l.data, 1 - c, Flip(l.left), x)
    BY <1>1, <1>4, FixUpIs DEF TwoReds
  <2>2. Red(l) /\ Red(l.left)
    BY <1>4 DEF TwoReds
  <2>3. Kids(l, n)
    BY <2>2, AlmostKids
  <2>4. l # Nil /\ Bal(l.left, n) /\ Bal(l.right, n)
    BY <2>3 DEF Kids
  <2>5. l.key \in Keys /\ l.data \in Data
    BY <1>1, <2>4, Parts
  <2>6. Bal(x, n + 1)
    BY <1>4, <2>4, NodeKids
  <2>7. ~Red(x)
    BY RedNode
  <2>8. Kids(l.left, n)
    BY <2>2, <2>4, AlmostKids DEF Almost
  <2>9. Bal(Flip(l.left), n + 1) /\ ~Red(Flip(l.left))
    BY <2>2, <2>8, FlipKids
  <2> HIDE DEF x
  <2>10. Kids(u, n + 1)
    BY <1>1, <2>1, <2>5, <2>6, <2>7, <2>9, NodeKids
  <2>11. u.red = 1 - c /\ u.left = Flip(l.left)
    BY <2>1, NodeFields
  <2> HIDE DEF u
  <2> QED BY <2>2, <2>9, <2>10, <2>11 DEF TwoReds, Fixed
<1>5. ASSUME Red(r), ~Red(l)
      PROVE  Fixed(u, c, l, r, n)
  <2> DEFINE x == Node(k, d, 1, l, r.left)
  <2>1. Kids(r, n) /\ ~TwoReds(r)
    <3>1. r # Nil
      BY <1>5 DEF Red
    <3> QED BY <1>5, <3>1, AlmostKids, BalKids DEF Almost
  <2>2. r # Nil /\ Bal(r.left, n) /\ Bal(r.right, n) /\ ~Red(r.right) /\ ~Red(r.left)
    BY <1>5, <2>1 DEF Kids, TwoReds
  <2>3. u = Node(r.key, r.data, c, x, r.right)
    BY <1>1, <1>5, <2>2, FixUpIs
  <2>4. Bal(l, n)
    BY <1>5, AlmostKids DEF TwoReds
  <2>5. Bal(x, n)
    BY <1>5, <2>2, <2>4, NodeKids
  <2>6. r.key \in Keys /\ r.data \in Data
    BY <1>1, <2>2, Parts
  <2> HIDE DEF x
  <2>7. Kids(u, n)
    BY <2>2, <2>3, <2>5, <2>6, NodeKids
  <2>8. u.red = c /\ (Red(u) <=> c = 1)
    BY <2>3, NodeFields, RedNode
  <2> HIDE DEF u
  <2> QED BY <1>5, <2>7, <2>8 DEF TwoReds, Fixed
<1>6. ASSUME Red(r), Red(l)
      PROVE  Fixed(u, c, l, r, n)
  <2> DEFINE x == Node(r.key, r.data, 0, r.left, r.right)
  <2>1. Kids(r, n)
    BY <1>6, AlmostKids DEF Almost
  <2>2. r # Nil /\ Bal(r.left, n) /\ Bal(r.right, n) /\ ~Red(r.right)
    BY <2>1 DEF Kids
  <2>3. u = Node(k, d, 1 - c, Flip(l), x)
    BY <1>1, <1>6, FixUpIs
  <2>4. r.key \in Keys /\ r.data \in Data
    BY <1>1, <2>2, Parts
  <2>5. Bal(x, n + 1) /\ ~Red(x)
    BY <2>2, <2>4, NodeKids, RedNode
  <2>6. Kids(l, n)
    BY <1>6, AlmostKids
  <2>7. Bal(Flip(l), n + 1) /\ ~Red(Flip(l))
    BY <1>6, <2>6, FlipKids
  <2> HIDE DEF x
  <2>8. Kids(u, n + 1)
    BY <1>1, <2>3, <2>5, <2>7, NodeKids
  <2>9. u.red = 1 - c /\ u.left = Flip(l)
    BY <2>3, NodeFields
  <2> HIDE DEF u
  <2> QED BY <1>6, <2>7, <2>8, <2>9 DEF TwoReds, Fixed
<1> HIDE DEF u
<1>7. Fixed(u, c, l, r, n)
  BY <1>3, <1>4, <1>5, <1>6
<1> QED BY <1>7 DEF u

-----------------------------------------------------------------------------
\* The walks down stay in a set of trees of bounded height.
LEMMA RotRightLevel ==
  ASSUME NEW n \in Nat, NEW t \in TreesTo[n], t # Nil, t.left # Nil
  PROVE  /\ RotRight(t).right \in TreesTo[n]
         /\ RotRight(t).right # Nil /\ Red(RotRight(t).right)
<1>1. n - 1 \in Nat /\ (n - 1) + 1 = n
  BY PartsAt
<1>2. /\ t.key \in Keys /\ t.data \in Data
      /\ t.left \in TreesTo[n - 1] /\ t.right \in TreesTo[n - 1]
  BY PartsAt
<1>3. n - 1 # 0 /\ t.left.right \in TreesTo[n - 1 - 1]
  BY <1>1, <1>2, PartsAt
<1>4. n - 1 - 1 \in Nat /\ (n - 1 - 1) + 1 = n - 1
  BY <1>1, <1>3
<1>5. t.left.right \in TreesTo[n - 1]
  BY <1>3, <1>4, TreesGrow
<1>6. Node(t.key, t.data, 1, t.left.right, t.right) \in TreesTo[n]
  BY <1>1, <1>2, <1>5, NodeAt
<1>7. t \in AllTrees
  BY DEF AllTrees
<1>8. RotRight(t).right = Node(t.key, t.data, 1, t.left.right, t.right)
  BY <1>7, RotRightIs, NodeFields
<1> QED BY <1>6, <1>8, NodeIsNotNil, RedNode

LEMMA FlipLevel ==
  ASSUME NEW n \in Nat, NEW t \in TreesTo[n], t # Nil
  PROVE  Flip(t) \in TreesTo[n]
<1>1. n - 1 \in Nat /\ (n - 1) + 1 = n
  BY PartsAt
<1>2. /\ t.key \in Keys /\ t.data \in Data /\ t.red \in {0, 1}
      /\ t.left \in TreesTo[n - 1] /\ t.right \in TreesTo[n - 1]
  BY PartsAt
<1>3. 1 - t.red \in {0, 1}
  BY <1>2
<1>4. t \in AllTrees
  BY DEF AllTrees
<1>5. Flip(t) = Node(t.key, t.data, 1 - t.red, t.left, t.right)
  BY <1>4, FlipIs
<1> QED BY <1>1, <1>2, <1>3, <1>5, NodeAt

LEMMA MoveRedLeftLevel ==
  ASSUME NEW n \in Nat, NEW t \in TreesTo[n], t # Nil, t.left # Nil, t.right # Nil
  PROVE  /\ MoveRedLeft(t).left \in TreesTo[n] /\ MoveRedLeft(t).left # Nil
         /\ MoveRedLeft(t).right \in TreesTo[n] /\ MoveRedLeft(t).right # Nil
<1>0. t \in AllTrees
  BY DEF AllTrees
<1>1. n - 1 \in Nat /\ (n - 1) + 1 = n
  BY PartsAt
<1>2. /\ t.key \in Keys /\ t.data \in Data /\ t.red \in {0, 1}
      /\ t.left \in TreesTo[n - 1] /\ t.right \in TreesTo[n - 1]
  BY PartsAt
<1>3. Flip(t.left) \in TreesTo[n - 1] /\ Flip(t.right) \in TreesTo[n - 1]
  BY <1>1, <1>2, FlipLevel
<1>4. Flip(t.left) # Nil /\ Flip(t.right) # Nil
  <2>1. t.left \in AllTrees /\ t.right \in AllTrees
    BY <1>0, Parts
  <2> QED BY <2>1, FlipIs
<1>5. TreesTo[n - 1] \subseteq TreesTo[n]
  BY <1>1, TreesGrow
<1>6. CASE ~Red(t.right.left)
  <2>1. MoveRedLeft(t) = Node(t.key, t.data, 1 - t.red, Flip(t.left), Flip(t.right))
    BY <1>0, <1>6, MoveRedLeftIs
  <2> QED BY <2>1, <1>3, <1>4, <1>5, NodeFields
<1>7. CASE Red(t.right.left)
  <2> DEFINE x == Node(t.key, t.data, 0, Flip(t.left), t.right.left.left)
             y == Node(t.right.key, t.right.data, 0, t.right.left.right, t.right.right)
  <2>1. MoveRedLeft(t) = Node(t.right.left.key, t.right.left.data, t.red, x, y)
    BY <1>0, <1>7, MoveRedLeftIs
  <2>2. /\ n - 1 # 0 /\ t.right.left \in TreesTo[n - 1 - 1] /\ t.right.right \in TreesTo[n - 1 - 1]
        /\ t.right.key \in Keys /\ t.right.data \in Data
    BY <1>1, <1>2, PartsAt
  <2>3. n - 1 - 1 \in Nat /\ (n - 1 - 1) + 1 = n - 1
    BY <1>1, <2>2
  <2>4. t.right.left # Nil
    BY <1>7 DEF Red
  <2>5. /\ n - 1 - 1 # 0 /\ t.right.left.left \in TreesTo[n - 1 - 1 - 1]
        /\ t.right.left.right \in TreesTo[n - 1 - 1 - 1]
    BY <2>2, <2>3, <2>4, PartsAt
  <2>6. n - 1 - 1 - 1 \in Nat /\ (n - 1 - 1 - 1) + 1 = n - 1 - 1
    BY <2>3, <2>5
  <2>7. /\ TreesTo[n - 1 - 1 - 1] \subseteq TreesTo[n - 1 - 1]
        /\ TreesTo[n - 1 - 1] \subseteq TreesTo[n - 1]
    BY <2>3, <2>6, TreesGrow
  <2>8. x \in TreesTo[n]
    <3>1. t.right.left.left \in TreesTo[n - 1]
      BY <2>5, <2>7
    <3> QED BY <1>1, <1>2, <1>3, <3>1, NodeAt
  <2>9. y \in TreesTo[n]
    <3>1. t.right.left.right \in TreesTo[n - 1] /\ t.right.right \in TreesTo[n - 1]
      BY <2>2, <2>5, <2>7
    <3> QED BY <1>1, <2>2, <3>1, NodeAt
  <2>10. x # Nil /\ y # Nil
    BY NodeIsNotNil
  <2> HIDE DEF x, y
  <2> QED BY <2>1, <2>8, <2>9, <2>10, NodeFields
<1> QED BY <1>6, <1>7

-----------------------------------------------------------------------------
(***************************************************************************)
(* The recursions of delete go down: where a red link is pushed to, the    *)
(* tree below is smaller.                                                  *)
(***************************************************************************)
Maybe == AllTrees \cup {Crash}

LEMMA SmallerParts ==
  ASSUME NEW t, NEW u, t \in AllTrees, Same(t, u)
  PROVE  SizeOf[u.left] < SizeOf[t] /\ SizeOf[u.right] < SizeOf[t]
<1>1. u \in AllTrees /\ u # Nil /\ SizeOf[u] = SizeOf[t]
  BY DEF Same
<1>2. u.left \in AllTrees /\ u.right \in AllTrees
  BY <1>1, Parts
<1>3. SizeOf[u.left] \in Nat /\ SizeOf[u.right] \in Nat
  BY <1>2, SizeOfDef
<1>4. SizeOf[u] = 1 + SizeOf[u.left] + SizeOf[u.right]
  BY <1>1, SizeOfDef
<1> QED BY <1>1, <1>3, <1>4

LEMMA SameSelf ==
  ASSUME NEW t \in AllTrees, t # Nil
  PROVE  Same(t, t)
BY DEF Same

\* What the way down to the left finds.
LEMMA MakeRedLeft ==
  ASSUME NEW t \in Trees, t # Nil, MakeRed(t, t.left) # Crash
  PROVE  LET u == MakeRed(t, t.left) IN
           /\ Same(t, u) /\ u.left \in Trees /\ u.left # Nil
           /\ SizeOf[u.left] < SizeOf[t]
<1> DEFINE u == MakeRed(t, t.left)
<1>1. t \in AllTrees /\ t.left \in Trees /\ Cardinality(Keys) \in Nat
      /\ t \in TreesTo[Cardinality(Keys)]
  BY TreesAreTrees, KeysCount DEF Trees
<1>2. t.left # Nil
  BY DEF MakeRed
<1>3. CASE u = t
  BY <1>1, <1>2, <1>3, SameSelf, SmallerParts
<1>4. CASE u # t
  <2>1. u = MoveRedLeft(t)
    BY <1>2, <1>4 DEF MakeRed
  <2>2. t.right # Nil
    BY <1>1, <2>1, MoveRedLeftIs
  <2>3. Same(t, u)
    BY <1>1, <1>2, <2>1, <2>2, MoveRedLeftSame
  <2>4. u.left \in Trees /\ u.left # Nil
    BY <1>1, <1>2, <2>1, <2>2, MoveRedLeftLevel DEF Trees
  <2> QED BY <1>1, <2>3, <2>4, SmallerParts
<1> QED BY <1>3, <1>4

\* What the way down to the right finds.
LEMMA LeanRightIs ==
  ASSUME NEW t \in Trees, t # Nil
  PROVE  LET v == LeanRight(t) IN
           /\ Same(t, v) /\ v # Crash
           /\ Red(t.left) => v.right # Nil /\ Red(v.right) /\ v.right \in Trees
<1>1. t \in AllTrees /\ t.left \in Trees /\ Cardinality(Keys) \in Nat
      /\ t \in TreesTo[Cardinality(Keys)]
  BY TreesAreTrees, KeysCount DEF Trees
<1>2. CASE Red(t.left)
  <2>1. t.left # Nil
    BY <1>2 DEF Red
  <2>2. Same(t, RotRight(t))
    BY <1>1, <2>1, RotRightSame
  <2>3. RotRight(t) # Crash
    BY <1>1, <2>1, RotRightIs, NodeIsNotNil
  <2>4. RotRight(t).right \in Trees /\ RotRight(t).right # Nil /\ Red(RotRight(t).right)
    BY <1>1, <2>1, RotRightLevel DEF Trees
  <2> QED BY <1>2, <2>2, <2>3, <2>4 DEF LeanRight
<1>3. CASE ~Red(t.left)
  <2>1. t # Crash
    BY <1>1, Parts
  <2> QED BY <1>1, <1>3, <2>1, SameSelf DEF LeanRight
<1> QED BY <1>2, <1>3

LEMMA MakeRedRight ==
  ASSUME NEW t \in Trees, t # Nil,
         MakeRed(LeanRight(t), LeanRight(t).right) # Crash
  PROVE  LET u == MakeRed(LeanRight(t), LeanRight(t).right) IN
           /\ Same(t, u) /\ u.right \in Trees /\ u.right # Nil
           /\ SizeOf[u.right] < SizeOf[t]
<1> DEFINE v == LeanRight(t)
           u == MakeRed(v, v.right)
<1>1. t \in AllTrees /\ t.left \in Trees /\ t.right \in Trees /\ Cardinality(Keys) \in Nat
      /\ t \in TreesTo[Cardinality(Keys)]
  BY TreesAreTrees, KeysCount DEF Trees
<1>2. /\ Same(t, v) /\ v # Crash
      /\ Red(t.left) => v.right # Nil /\ Red(v.right) /\ v.right \in Trees
  BY LeanRightIs
<1>3. ~Red(t.left) => v = t
  BY DEF LeanRight
<1>4. v.right # Nil
  BY DEF MakeRed
<1>5. u = v \/ (u = MoveRedLeft(v) /\ ~Red(v.right))
  BY <1>4 DEF MakeRed
<1>6. t.left = Nil \/ t.right = Nil => MoveRedLeft(t) = Crash
  BY <1>1, MoveRedLeftIs
<1>7. u # Crash
  OBVIOUS
<1> DEFINE Goal == Same(t, u) /\ u.right \in Trees /\ u.right # Nil /\ SizeOf[u.right] < SizeOf[t]
<1> SUFFICES Goal
  OBVIOUS
<1> HIDE DEF u, v
<1>8. CASE u = v
  <2>1. v.right \in Trees
    BY <1>1, <1>2, <1>3
  <2>2. SizeOf[v.right] < SizeOf[t]
    BY <1>1, <1>2, SmallerParts
  <2> QED BY <1>2, <1>4, <1>8, <2>1, <2>2
<1>9. CASE u # v
  <2>1. u = MoveRedLeft(v) /\ ~Red(v.right)
    BY <1>9, <1>5
  <2>2. v = t
    BY <1>2, <1>3, <2>1
  <2>3. t.left # Nil /\ t.right # Nil
    BY <1>6, <1>7, <2>1, <2>2
  <2>4. Same(t, u)
    BY <1>1, <2>1, <2>2, <2>3, MoveRedLeftSame
  <2>5. MoveRedLeft(t).right \in Trees /\ MoveRedLeft(t).right # Nil
    BY <1>1, <2>3, MoveRedLeftLevel DEF Trees
  <2>6. SizeOf[u.right] < SizeOf[t]
    BY <1>1, <2>4, SmallerParts
  <2> QED BY <2>1, <2>2, <2>4, <2>5, <2>6
<1> QED BY <1>8, <1>9

LEMMA FixUpWith ==
  ASSUME NEW u \in AllTrees, u # Nil, NEW x \in Maybe
  PROVE  /\ FixUp(WithLeft(u, x)) \in Maybe /\ WithLeft(u, x) \in Maybe \ {Nil}
         /\ FixUp(WithRight(u, x)) \in Maybe /\ WithRight(u, x) \in Maybe \ {Nil}
         /\ x = Crash => WithLeft(u, x) = Crash /\ WithRight(u, x) = Crash /\ FixUp(Crash) = Crash
         /\ x # Crash =>
              /\ WithLeft(u, x) = Node(u.key, u.data, u.red, x, u.right)
              /\ WithRight(u, x) = Node(u.key, u.data, u.red, u.left, x)
<1>1. /\ u.key \in Keys /\ u.data \in Data /\ u.red \in {0, 1}
      /\ u.left \in AllTrees /\ u.right \in AllTrees
      /\ u = Node(u.key, u.data, u.red, u.left, u.right)
  BY Parts
<1>2. CASE x = Crash
  BY <1>2, NodeIsNotNil DEF WithLeft, WithRight, FixUp, Maybe
<1>3. CASE x # Crash
  <2>1. /\ WithLeft(u, x) = Node(u.key, u.data, u.red, x, u.right)
        /\ WithRight(u, x) = Node(u.key, u.data, u.red, u.left, x)
    BY <1>1, <1>3, WithOfNode
  <2>2. x \in AllTrees
    BY <1>3 DEF Maybe
  <2>3. /\ WithLeft(u, x) \in AllTrees /\ WithLeft(u, x) # Nil
        /\ WithRight(u, x) \in AllTrees /\ WithRight(u, x) # Nil
    BY <1>1, <2>1, <2>2, NodeIsTree, NodeIsNotNil
  <2>4. FixUp(WithLeft(u, x)) \in AllTrees /\ FixUp(WithRight(u, x)) \in AllTrees
    BY <2>3, FixUpSame DEF Same
  <2> QED BY <1>3, <2>1, <2>3, <2>4 DEF Maybe
<1> QED BY <1>2, <1>3

\* find_min and del_min, as their definitions say.
LEMMA FindMinDef ==
  /\ FindMin \in [Trees \ {Nil} -> Trees \ {Nil}]
  /\ \A t \in Trees \ {Nil} : FindMin[t] = IF t.left = Nil THEN t ELSE FindMin[t.left]
<1> DEFINE T == Trees \ {Nil}
           c == [x \in T \X Trees \X Trees |-> IF x[1].left = Nil THEN x[1] ELSE x[2]]
<1>1. c \in [T \X Trees \X Trees -> Trees]
  OBVIOUS
<1>2. Nil \in Trees
  BY TreesAreTrees
<1>3. PICK f \in [Trees -> Trees] :
        f[Nil] = Nil /\ \A t \in Trees : t # Nil => f[t] = c[<<t, f[t.left], f[t.right]>>]
  <2> HIDE DEF c
  <2>1. HasFold(Trees, Trees, Nil, c)
    BY <1>1, <1>2, ClosedSets, TreeFold
  <2> QED BY <2>1 DEF HasFold
<1> DEFINE g == [t \in T |-> f[t]]
<1>4. ASSUME NEW t \in T
      PROVE  g[t] = IF t.left = Nil THEN t ELSE g[t.left]
  BY <1>3, TreesAreTrees
<1>5. g = [t \in T |-> IF t.left = Nil THEN t ELSE g[t.left]]
  BY <1>4
<1>6. FindMin = CHOOSE h : h = [t \in T |-> IF t.left = Nil THEN t ELSE h[t.left]]
  BY DEF FindMin
<1> HIDE DEF g
<1>7. FindMin = [t \in T |-> IF t.left = Nil THEN t ELSE FindMin[t.left]]
  BY <1>5, <1>6
<1> DEFINE P == {t \in Trees : t # Nil => FindMin[t] \in T}
<1>8. Nil \in P
  BY <1>2
<1>9. ASSUME NEW t \in Trees \ {Nil}, t.left \in P, t.right \in P
      PROVE  t \in P
  BY <1>7, <1>9
<1>10. Trees \subseteq P
  <2> HIDE DEF P
  <2> QED BY <1>8, <1>9, ClosedSets, ClosedInduction
<1> QED BY <1>7, <1>10

\* One level of del_min, with f for the levels below.
DelMinStep(f, t) ==
  IF t.left = Nil THEN Nil
  ELSE LET u == MakeRed(t, t.left) IN
    IF u = Crash THEN Crash ELSE FixUp(WithLeft(u, f[u.left]))

LEMMA DelMinDef ==
  /\ DelMin \in [Trees \ {Nil} -> Maybe]
  /\ \A t \in Trees \ {Nil} : DelMin[t] = DelMinStep(DelMin, t)
<1> DEFINE T == Trees \ {Nil}
           G == [p \in T \X [T -> Maybe] |-> DelMinStep(p[2], p[1])]
           m == [t \in T |-> SizeOf[t]]
<1>0. T \subseteq AllTrees /\ m \in [T -> Nat]
  BY TreesAreTrees, SizeOfDef
<1>1. ASSUME NEW t \in T, MakeRed(t, t.left) # Crash
      PROVE  LET u == MakeRed(t, t.left) IN
               u \in AllTrees \ {Nil} /\ u.left \in T /\ m[u.left] < m[t]
  <2> DEFINE u == MakeRed(t, t.left)
  <2>1. Same(t, u) /\ u.left \in Trees /\ u.left # Nil /\ SizeOf[u.left] < SizeOf[t]
    BY <1>1, MakeRedLeft
  <2> QED BY <2>1 DEF Same
<1>2. ASSUME NEW t \in T, NEW f, \A s \in T : m[s] < m[t] => f[s] \in Maybe
      PROVE  DelMinStep(f, t) \in Maybe
  <2>1. CASE t.left = Nil
    BY <2>1, NilIsTree DEF DelMinStep, Maybe
  <2>2. CASE t.left # Nil
    <3> DEFINE u == MakeRed(t, t.left)
    <3>1. CASE u = Crash
      BY <2>2, <3>1 DEF DelMinStep, Maybe
    <3>2. CASE u # Crash
      <4>1. u \in AllTrees /\ u # Nil /\ u.left \in T /\ m[u.left] < m[t]
        BY <1>1, <3>2
      <4> HIDE DEF T
      <4>2. f[u.left] \in Maybe
        BY <1>2, <4>1
      <4>3. FixUp(WithLeft(u, f[u.left])) \in Maybe
        <5> HIDE DEF u
        <5> QED BY <4>1, <4>2, FixUpWith
      <4> QED BY <2>2, <3>2, <4>3 DEF DelMinStep
    <3> QED BY <3>1, <3>2
  <2> QED BY <2>1, <2>2
<1>3. G \in Calls(T, Maybe)
  <2>1. \A p \in T \X [T -> Maybe] : p[1] \in T /\ p[2] \in [T -> Maybe]
    OBVIOUS
  <2> HIDE DEF T
  <2> QED BY <1>2, <2>1 DEF Calls
<1>4. GoDown(T, Maybe, m, G)
  <2> SUFFICES ASSUME NEW t \in T, NEW f \in [T -> Maybe], NEW g \in [T -> Maybe],
                      \A s \in T : m[s] < m[t] => f[s] = g[s]
               PROVE  G[<<t, f>>] = G[<<t, g>>]
    BY DEF GoDown
  <2>1. G[<<t, f>>] = DelMinStep(f, t) /\ G[<<t, g>>] = DelMinStep(g, t)
    OBVIOUS
  <2>2. MakeRed(t, t.left) # Crash => f[MakeRed(t, t.left).left] = g[MakeRed(t, t.left).left]
    <3> HIDE DEF T, m
    <3> QED BY <1>1
  <2>3. DelMinStep(f, t) = DelMinStep(g, t)
    BY <2>2 DEF DelMinStep
  <2> QED BY <2>1, <2>3
<1>5. Solvable(T, Maybe, G)
  <2>1. Maybe # {}
    BY DEF Maybe
  <2> HIDE DEF T, G, m
  <2> QED BY <1>0, <1>3, <1>4, <2>1, Recursion
<1>6. PICK f \in [T -> Maybe] : \A t \in T : f[t] = G[<<t, f>>]
  BY <1>5 DEF Solvable
<1>7. f = [t \in T |-> DelMinStep(f, t)]
  <2>1. \A t \in T : G[<<t, f>>] = DelMinStep(f, t)
    OBVIOUS
  <2> HIDE DEF G, T
  <2> QED BY <1>6, <2>1
<1>8. DelMin = CHOOSE g : g = [t \in T |-> DelMinStep(g, t)]
  BY DEF DelMin, DelMinStep
<1>9. DelMin = [t \in T |-> DelMinStep(DelMin, t)]
  <2> HIDE DEF T
  <2> QED BY <1>7, <1>8
<1>10. T \subseteq {t \in T : DelMin[t] \in Maybe}
  <2>1. ASSUME NEW t \in T, \A s \in T : m[s] < m[t] => s \in {r \in T : DelMin[r] \in Maybe}
        PROVE  DelMin[t] \in Maybe
    <3> HIDE DEF T
    <3>1. DelMin[t] = DelMinStep(DelMin, t)
      BY <1>9
    <3> HIDE DEF m
    <3> QED BY <3>1, <2>1, <1>2
  <2> HIDE DEF T, m
  <2> QED BY <1>0, <2>1, MeasureInduction
<1> QED BY <1>9, <1>10

\* The node that takes the place of the one that is deleted.
LEMMA SuccessorIs ==
  ASSUME NEW t \in AllTrees, t # Nil, t.right \in Trees, t.right # Nil
  PROVE  LET m == FindMin[t.right]
             x == DelMin[t.right]
         IN /\ Successor(t) \in Maybe \ {Nil}
            /\ x = Crash => Successor(t) = Crash
            /\ x # Crash => Successor(t) = Node(m.key, m.data, t.red, t.left, x)
            /\ m.key \in Keys /\ m.data \in Data
<1> DEFINE m == FindMin[t.right]
           x == DelMin[t.right]
           u == Node(m.key, m.data, t.red, t.left, t.right)
           taking(s) == [[s EXCEPT !.key = m.key] EXCEPT !.data = m.data]
<1>1. m \in AllTrees /\ m # Nil /\ x \in Maybe
  BY FindMinDef, DelMinDef, TreesAreTrees
<1>2. Successor(t) = WithRight(taking(t), x)
  BY DEF Successor
<1> HIDE DEF m, x
<1>3. m.key \in Keys /\ m.data \in Data
  BY <1>1, Parts
<1>4. t.red \in {0, 1} /\ t.left \in AllTrees /\ t.right \in AllTrees
      /\ t = Node(t.key, t.data, t.red, t.left, t.right)
  BY Parts
<1>5. ASSUME NEW k, NEW d, NEW c, NEW l, NEW r
      PROVE  taking(Node(k, d, c, l, r)) = Node(m.key, m.data, c, l, r)
  <2>1. [Node(k, d, c, l, r) EXCEPT !.key = m.key] = Node(m.key, d, c, l, r)
    BY DEF Node
  <2>2. [Node(m.key, d, c, l, r) EXCEPT !.data = m.data] = Node(m.key, m.data, c, l, r)
    BY DEF Node
  <2> QED BY <2>1, <2>2
<1> HIDE DEF taking
<1>6. taking(t) = u
  BY <1>4, <1>5
<1>7. u \in AllTrees /\ u # Nil
  BY <1>3, <1>4, NodeIsTree, NodeIsNotNil
<1>8. WithRight(u, x) \in Maybe \ {Nil} /\ (x = Crash => WithRight(u, x) = Crash)
  <2> HIDE DEF u
  <2> QED BY <1>1, <1>7, FixUpWith
<1>9. x # Crash => WithRight(u, x) = Node(m.key, m.data, t.red, t.left, x)
  BY WithOfNode
<1>10. /\ Successor(t) \in Maybe \ {Nil}
       /\ x = Crash => Successor(t) = Crash
       /\ x # Crash => Successor(t) = Node(m.key, m.data, t.red, t.left, x)
  BY <1>2, <1>6, <1>8, <1>9
<1> QED BY <1>3, <1>10 DEF m, x

\* One level of delete, with f for the levels below.
DeleteAt(f, t, k) ==
  IF k < t.key THEN DeleteLeft(f, t, k) ELSE DeleteRight(f, LeanRight(t), k, k = t.key)
DeleteStep(f, t) ==
  [k \in Keys |-> IF t = Nil THEN Nil
                  ELSE IF DeleteAt(f, t, k) = Nil THEN Nil ELSE FixUp(DeleteAt(f, t, k))]

LEMMA DeleteDef ==
  /\ Delete \in [Trees -> [Keys -> Maybe]]
  /\ \A k \in Keys : Delete[Nil][k] = Nil
  /\ \A t \in Trees \ {Nil} : \A k \in Keys :
       Delete[t][k] = IF DeleteAt(Delete, t, k) = Nil THEN Nil ELSE FixUp(DeleteAt(Delete, t, k))
<1> DEFINE S == [Keys -> Maybe]
           G == [p \in Trees \X [Trees -> S] |-> DeleteStep(p[2], p[1])]
           m == [t \in Trees |-> SizeOf[t]]
<1>0. Trees \subseteq AllTrees /\ Nil \in Trees /\ m \in [Trees -> Nat]
  BY TreesAreTrees, SizeOfDef
<1>1. ASSUME NEW t \in Trees, t # Nil
      PROVE  /\ MakeRed(t, t.left) # Crash =>
                  /\ MakeRed(t, t.left) \in AllTrees /\ MakeRed(t, t.left) # Nil
                  /\ MakeRed(t, t.left).left \in Trees
                  /\ m[MakeRed(t, t.left).left] < m[t]
             /\ MakeRed(LeanRight(t), LeanRight(t).right) # Crash =>
                  LET u == MakeRed(LeanRight(t), LeanRight(t).right) IN
                    u \in AllTrees /\ u # Nil /\ u.right \in Trees /\ u.right # Nil /\ m[u.right] < m[t]
  BY <1>1, MakeRedLeft, MakeRedRight DEF Same
<1>2. ASSUME NEW t \in Trees, t # Nil, NEW k \in Keys,
             NEW f, \A s \in Trees : m[s] < m[t] => f[s] \in S
      PROVE  DeleteAt(f, t, k) \in Maybe
  <2>1. ASSUME NEW u, u = MakeRed(t, t.left)
        PROVE  DeleteLeft(f, t, k) \in Maybe
    <3>1. CASE u = Crash
      BY <2>1, <3>1 DEF DeleteLeft, Maybe
    <3>2. CASE u # Crash
      <4>1. u \in AllTrees /\ u # Nil /\ u.left \in Trees /\ m[u.left] < m[t]
        BY <1>1, <1>2, <2>1, <3>2
      <4> HIDE DEF m
      <4>2. f[u.left][k] \in Maybe
        BY <1>2, <4>1
      <4>3. WithLeft(u, f[u.left][k]) \in Maybe
        BY <4>1, <4>2, FixUpWith
      <4> QED BY <2>1, <3>2, <4>3 DEF DeleteLeft
    <3> QED BY <3>1, <3>2
  <2>2. ASSUME NEW u, u = MakeRed(LeanRight(t), LeanRight(t).right), NEW found
        PROVE  DeleteRight(f, LeanRight(t), k, found) \in Maybe
    <3>1. CASE u = Crash
      BY <2>2, <3>1, NilIsTree DEF DeleteRight, Maybe
    <3>2. CASE u # Crash
      <4>1. u \in AllTrees /\ u # Nil /\ u.right \in Trees /\ u.right # Nil /\ m[u.right] < m[t]
        BY <1>1, <1>2, <2>2, <3>2
      <4> HIDE DEF m
      <4>2. f[u.right][k] \in Maybe
        BY <1>2, <4>1
      <4>3. WithRight(u, f[u.right][k]) \in Maybe
        BY <4>1, <4>2, FixUpWith
      <4>4. Successor(u) \in Maybe
        BY <4>1, SuccessorIs
      <4>5. Nil \in Maybe
        BY NilIsTree DEF Maybe
      <4> QED BY <2>2, <3>2, <4>3, <4>4, <4>5 DEF DeleteRight
    <3> QED BY <3>1, <3>2
  <2> QED BY <2>1, <2>2 DEF DeleteAt
<1>3. ASSUME NEW t \in Trees, NEW f, \A s \in Trees : m[s] < m[t] => f[s] \in S
      PROVE  DeleteStep(f, t) \in S
  <2>1. ASSUME NEW k \in Keys, t # Nil, DeleteAt(f, t, k) # Nil
        PROVE  FixUp(DeleteAt(f, t, k)) \in Maybe
    <3> DEFINE x == DeleteAt(f, t, k)
    <3>1. x \in Maybe
      BY <1>2, <1>3, <2>1
    <3> HIDE DEF x
    <3>2. x # Nil
      BY <2>1 DEF x
    <3>3. FixUp(x) \in Maybe
      BY <3>1, <3>2, FixUpSame DEF Maybe, Same, FixUp
    <3> QED BY <3>3 DEF x
  <2>2. Nil \in Maybe
    BY NilIsTree DEF Maybe
  <2> QED BY <2>1, <2>2 DEF DeleteStep
<1>4. G \in Calls(Trees, S)
  <2>1. \A p \in Trees \X [Trees -> S] : p[1] \in Trees /\ p[2] \in [Trees -> S]
    OBVIOUS
  <2> HIDE DEF S
  <2> QED BY <1>3, <2>1 DEF Calls
<1>5. GoDown(Trees, S, m, G)
  <2> SUFFICES ASSUME NEW t \in Trees, NEW f \in [Trees -> S], NEW g \in [Trees -> S],
                      \A s \in Trees : m[s] < m[t] => f[s] = g[s]
               PROVE  G[<<t, f>>] = G[<<t, g>>]
    BY DEF GoDown
  <2>1. G[<<t, f>>] = DeleteStep(f, t) /\ G[<<t, g>>] = DeleteStep(g, t)
    OBVIOUS
  <2> HIDE DEF G, S
  <2>2. ASSUME NEW k \in Keys, t # Nil
        PROVE  DeleteAt(f, t, k) = DeleteAt(g, t, k)
    <3>1. DeleteLeft(f, t, k) = DeleteLeft(g, t, k)
      <4>1. MakeRed(t, t.left) # Crash => f[MakeRed(t, t.left).left] = g[MakeRed(t, t.left).left]
        <5> HIDE DEF m
        <5> QED BY <1>1, <2>2
      <4> QED BY <4>1 DEF DeleteLeft
    <3>2. ASSUME NEW found
          PROVE  DeleteRight(f, LeanRight(t), k, found) = DeleteRight(g, LeanRight(t), k, found)
      <4> DEFINE u == MakeRed(LeanRight(t), LeanRight(t).right)
      <4>1. u # Crash => f[u.right] = g[u.right]
        <5> HIDE DEF m
        <5> QED BY <1>1, <2>2
      <4> QED BY <4>1 DEF DeleteRight
    <3> QED BY <3>1, <3>2 DEF DeleteAt
  <2>3. DeleteStep(f, t) = DeleteStep(g, t)
    BY <2>2 DEF DeleteStep
  <2> QED BY <2>1, <2>3
<1>6. Solvable(Trees, S, G)
  <2>1. S # {}
    <3>1. [k \in Keys |-> Crash] \in S
      BY DEF Maybe
    <3> QED BY <3>1
  <2> HIDE DEF G, m, S
  <2> QED BY <1>0, <1>4, <1>5, <2>1, Recursion
<1>7. PICK f \in [Trees -> S] : \A t \in Trees : f[t] = G[<<t, f>>]
  BY <1>6 DEF Solvable
<1>8. f = [t \in Trees |-> DeleteStep(f, t)]
  <2>1. \A t \in Trees : G[<<t, f>>] = DeleteStep(f, t)
    OBVIOUS
  <2> HIDE DEF G
  <2> QED BY <1>7, <2>1
<1>9. Delete = CHOOSE g : g = [t \in Trees |-> DeleteStep(g, t)]
  BY DEF Delete, DeleteStep, DeleteAt
<1>10. Delete = [t \in Trees |-> DeleteStep(Delete, t)]
  BY <1>8, <1>9
<1>11. ASSUME NEW t \in Trees
       PROVE  Delete[t] \in S
  <2> DEFINE P == {r \in Trees : Delete[r] \in S}
  <2>1. ASSUME NEW r \in Trees, \A s \in Trees : m[s] < m[r] => s \in P
        PROVE  r \in P
    <3>1. Delete[r] = DeleteStep(Delete, r)
      BY <1>10
    <3> HIDE DEF m, S
    <3> QED BY <3>1, <2>1, <1>3
  <2> HIDE DEF m, P
  <2>2. Trees \subseteq P
    BY <1>0, <2>1, MeasureInduction
  <2> QED BY <2>2 DEF P
<1>12. ASSUME NEW t \in Trees, NEW k \in Keys
       PROVE  Delete[t][k] = IF t = Nil THEN Nil
                             ELSE IF DeleteAt(Delete, t, k) = Nil THEN Nil
                             ELSE FixUp(DeleteAt(Delete, t, k))
  <2>1. Delete[t] = DeleteStep(Delete, t)
    BY <1>10
  <2> QED BY <2>1 DEF DeleteStep
<1> QED BY <1>0, <1>10, <1>11, <1>12

\* One level of insert, with l and r for the levels below.
InsertAt(t, l, r, e) ==
  FixUp(IF e[1] < t.key THEN WithLeft(t, l[e])
        ELSE IF e[1] > t.key THEN WithRight(t, r[e])
        ELSE [t EXCEPT !.data = e[2]])

LEMMA LeafIs ==
  ASSUME NEW k \in Keys, NEW d \in Data
  PROVE  Leaf(k, d) = Node(k, d, 1, Nil, Nil) /\ Leaf(k, d) \in AllTrees /\ Leaf(k, d) # Nil
<1>1. Leaf(k, d) = Node(k, d, 1, Nil, Nil)
  BY DEF Leaf, Node
<1> QED BY <1>1, NilIsTree, NodeIsTree, NodeIsNotNil

LEMMA DataIs ==
  ASSUME NEW t \in AllTrees, t # Nil, NEW d \in Data
  PROVE  /\ [t EXCEPT !.data = d] = Node(t.key, d, t.red, t.left, t.right)
         /\ [t EXCEPT !.data = d] \in AllTrees /\ [t EXCEPT !.data = d] # Nil
<1> DEFINE taking(s) == [s EXCEPT !.data = d]
           u == Node(t.key, d, t.red, t.left, t.right)
<1>1. ASSUME NEW k, NEW b, NEW c, NEW l, NEW r
      PROVE  taking(Node(k, b, c, l, r)) = Node(k, d, c, l, r)
  BY DEF Node
<1>2. /\ t = Node(t.key, t.data, t.red, t.left, t.right)
      /\ t.key \in Keys /\ t.red \in {0, 1} /\ t.left \in AllTrees /\ t.right \in AllTrees
  BY Parts
<1> HIDE DEF taking
<1>3. taking(t) = u
  BY <1>1, <1>2
<1>4. u \in AllTrees /\ u # Nil
  BY <1>2, NodeIsTree, NodeIsNotNil
<1> QED BY <1>3, <1>4 DEF taking

\* insert, as its definition says; it always returns a node.
LEMMA InsertDef ==
  /\ Insert \in [Trees -> [Keys \X Data -> AllTrees \ {Nil}]]
  /\ \A e \in Keys \X Data : Insert[Nil][e] = Leaf(e[1], e[2])
  /\ \A t \in Trees \ {Nil} : \A e \in Keys \X Data :
       Insert[t][e] = InsertAt(t, Insert[t.left], Insert[t.right], e)
<1> DEFINE E == Keys \X Data
           S == [E -> AllTrees \ {Nil}]
           c == [x \in (Trees \ {Nil}) \X S \X S |-> [e \in E |-> InsertAt(x[1], x[2], x[3], e)]]
           z == [e \in E |-> Leaf(e[1], e[2])]
           body(t, f) == [e \in E |-> IF t = Nil THEN Leaf(e[1], e[2])
                                      ELSE InsertAt(t, f[t.left], f[t.right], e)]
<1>1. ASSUME NEW t \in Trees \ {Nil}, NEW l \in S, NEW r \in S, NEW e \in E
      PROVE  InsertAt(t, l, r, e) \in AllTrees \ {Nil}
  <2>1. t \in AllTrees /\ t # Nil /\ e[2] \in Data
    BY TreesAreTrees
  <2>2. l[e] \in AllTrees /\ r[e] \in AllTrees
    OBVIOUS
  <2>3. l[e] \in Maybe /\ r[e] \in Maybe /\ l[e] # Crash /\ r[e] # Crash
    BY <1>1, <2>2, Parts DEF Maybe
  <2> DEFINE x == IF e[1] < t.key THEN WithLeft(t, l[e])
                  ELSE IF e[1] > t.key THEN WithRight(t, r[e])
                  ELSE [t EXCEPT !.data = e[2]]
  <2>4. WithLeft(t, l[e]) = Node(t.key, t.data, t.red, l[e], t.right)
        /\ WithRight(t, r[e]) = Node(t.key, t.data, t.red, t.left, r[e])
    <3> HIDE DEF E, S
    <3> QED BY <2>1, <2>3, FixUpWith
  <2>5. /\ t.key \in Keys /\ t.data \in Data /\ t.red \in {0, 1}
        /\ t.left \in AllTrees /\ t.right \in AllTrees
    BY <2>1, Parts
  <2>6. /\ WithLeft(t, l[e]) \in AllTrees /\ WithLeft(t, l[e]) # Nil
        /\ WithRight(t, r[e]) \in AllTrees /\ WithRight(t, r[e]) # Nil
    BY <2>2, <2>4, <2>5, NodeIsTree, NodeIsNotNil
  <2>7. [t EXCEPT !.data = e[2]] \in AllTrees /\ [t EXCEPT !.data = e[2]] # Nil
    BY <2>1, DataIs
  <2>8. x \in AllTrees /\ x # Nil
    BY <2>6, <2>7
  <2> HIDE DEF x
  <2>9. FixUp(x) \in AllTrees /\ FixUp(x) # Nil
    BY <2>8, FixUpSame DEF Same
  <2> QED BY <2>9 DEF InsertAt, x
<1>2. c \in [(Trees \ {Nil}) \X S \X S -> S]
  <2>1. \A x \in (Trees \ {Nil}) \X S \X S :
          x[1] \in Trees \ {Nil} /\ x[2] \in S /\ x[3] \in S
    OBVIOUS
  <2>2. \A x \in (Trees \ {Nil}) \X S \X S : \A e \in E :
          InsertAt(x[1], x[2], x[3], e) \in AllTrees \ {Nil}
    <3> HIDE DEF S, E
    <3> QED BY <1>1, <2>1
  <2> QED BY <2>2
<1>3. z \in S
  BY LeafIs
<1>4. PICK f \in [Trees -> S] :
        f[Nil] = z /\ \A t \in Trees : t # Nil => f[t] = c[<<t, f[t.left], f[t.right]>>]
  <2> HIDE DEF c, S, z
  <2>2. HasFold(Trees, S, z, c)
    BY <1>2, <1>3, ClosedSets, TreeFold
  <2> QED BY <2>2 DEF HasFold
<1>5. ASSUME NEW t \in Trees
      PROVE  f[t] = body(t, f)
  <2>1. CASE t = Nil
    BY <2>1, <1>4
  <2>2. CASE t # Nil
    <3>1. f[t.left] \in S /\ f[t.right] \in S
      BY <1>4, <2>2, TreesAreTrees
    <3>2. f[t] = [e \in E |-> InsertAt(t, f[t.left], f[t.right], e)]
      <4> HIDE DEF S, E
      <4> QED BY <1>4, <2>2, <3>1
    <3> QED BY <3>2, <2>2
  <2> QED BY <2>1, <2>2
<1>6. f = [t \in Trees |-> body(t, f)]
  <2> HIDE DEF body
  <2> QED BY <1>5
<1>7. Insert = CHOOSE g : g = [t \in Trees |-> body(t, g)]
  BY DEF Insert, InsertAt
<1>8. Insert = [t \in Trees |-> body(t, Insert)]
  <2> HIDE DEF body
  <2> QED BY <1>6, <1>7
<1> DEFINE P == {t \in Trees : Insert[t] \in S}
<1>9. Nil \in P
  <2>1. Insert[Nil] = z
    BY <1>8, TreesAreTrees
  <2> QED BY <2>1, <1>3, TreesAreTrees
<1>10. ASSUME NEW t \in Trees \ {Nil}, t.left \in P, t.right \in P
       PROVE  t \in P
  <2>1. Insert[t] = [e \in E |-> InsertAt(t, Insert[t.left], Insert[t.right], e)]
    BY <1>8
  <2>2. Insert[t.left] \in S /\ Insert[t.right] \in S
    BY <1>10
  <2>3. \A e \in E : InsertAt(t, Insert[t.left], Insert[t.right], e) \in AllTrees \ {Nil}
    <3> HIDE DEF S, E
    <3> QED BY <2>2, <1>1
  <2>4. Insert[t] \in S
    <3> HIDE DEF E
    <3> QED BY <2>1, <2>3
  <2> QED BY <2>4
<1>11. Trees \subseteq P
  <2> HIDE DEF P
  <2> QED BY <1>9, <1>10, ClosedSets, ClosedInduction
<1>12. ASSUME NEW t \in Trees, NEW e \in E
       PROVE  Insert[t][e] = IF t = Nil THEN Leaf(e[1], e[2])
                             ELSE InsertAt(t, Insert[t.left], Insert[t.right], e)
  <2>1. Insert[t] = body(t, Insert)
    BY <1>8
  <2> QED BY <2>1
<1>13. Insert \in [Trees -> S]
  BY <1>8, <1>11
<1> QED BY <1>12, <1>13, TreesAreTrees

-----------------------------------------------------------------------------
(***************************************************************************)
(* What insert makes of the entries and of the balance.                    *)
(***************************************************************************)
\* Entries without a key, and with a key's data replaced.
Without(E, k) == {x \in E : x[1] # k}
Put(E, e) == Without(E, e[1]) \cup {e}

\* Taking a key out of entries that are split at a node.
LEMMA WithoutParts ==
  ASSUME NEW L \in SUBSET (Keys \X Data), NEW R \in SUBSET (Keys \X Data),
         NEW x \in Keys \X Data, Below(L, x[1]), Above(R, x[1]), NEW k \in Keys
  PROVE  /\ k < x[1] => Without(L \cup {x} \cup R, k) = Without(L, k) \cup {x} \cup R
         /\ x[1] < k => Without(L \cup {x} \cup R, k) = L \cup {x} \cup Without(R, k)
         /\ k = x[1] => Without(L \cup {x} \cup R, k) = L \cup R
         /\ Below(Without(L, k), x[1]) /\ Above(Without(R, k), x[1])
<1>1. k \in Int /\ x[1] \in Int
  BY TreeAssumption
<1>2. \A y \in L : y[1] \in Int /\ y[1] < x[1]
  BY TreeAssumption DEF Below
<1>3. \A y \in R : y[1] \in Int /\ x[1] < y[1]
  BY TreeAssumption DEF Above
<1>4. k < x[1] => x[1] # k /\ \A y \in R : y[1] # k
  BY <1>1, <1>3
<1>5. x[1] < k => x[1] # k /\ \A y \in L : y[1] # k
  BY <1>1, <1>2
<1>6. k = x[1] => \A y \in L \cup R : y[1] # k
  BY <1>1, <1>2, <1>3
<1>7. k < x[1] => Without(L \cup {x} \cup R, k) = Without(L, k) \cup {x} \cup R
  BY <1>4 DEF Without
<1>8. x[1] < k => Without(L \cup {x} \cup R, k) = L \cup {x} \cup Without(R, k)
  BY <1>5 DEF Without
<1>9. k = x[1] => Without(L \cup {x} \cup R, k) = L \cup R
  BY <1>6 DEF Without
<1>10. Below(Without(L, k), x[1]) /\ Above(Without(R, k), x[1])
  BY DEF Without, Below, Above
<1> QED BY <1>7, <1>8, <1>9, <1>10

\* A search tree that holds the entries E.
Holds(u, E) == u \in AllTrees /\ Ordered[u] /\ Entries[u] = E

LEMMA EntriesType ==
  ASSUME NEW t \in AllTrees
  PROVE  Entries[t] \in SUBSET (Keys \X Data)
BY EntriesDef

\* fix_up of a node with changed sides.
LEMMA FixUpHolds ==
  ASSUME NEW k \in Keys, NEW d \in Data, NEW c \in {0, 1}, NEW l, NEW r, NEW L, NEW R,
         Holds(l, L), Holds(r, R), Below(L, k), Above(R, k)
  PROVE  LET u == FixUp(Node(k, d, c, l, r)) IN
           Holds(u, L \cup {<<k, d>>} \cup R) /\ u # Nil /\ u # Crash
<1> DEFINE t == Node(k, d, c, l, r)
<1>1. l \in AllTrees /\ r \in AllTrees /\ Ordered[l] /\ Ordered[r] /\ Entries[l] = L /\ Entries[r] = R
  BY DEF Holds
<1>2. t \in AllTrees \ {Nil} /\ Entries[t] = L \cup {<<k, d>>} \cup R /\ Ordered[t]
  BY <1>1, OfNode
<1> HIDE DEF t
<1>3. FixUp(t) # Crash /\ Same(t, FixUp(t))
  BY <1>2, FixUpSame
<1>4. Holds(FixUp(t), L \cup {<<k, d>>} \cup R) /\ FixUp(t) # Nil /\ FixUp(t) # Crash
  BY <1>2, <1>3 DEF Same, Holds
<1> QED BY <1>4 DEF t

LEMMA LeafHolds ==
  ASSUME NEW k \in Keys, NEW d \in Data
  PROVE  Holds(Leaf(k, d), {<<k, d>>})
<1> DEFINE u == Node(k, d, 1, Nil, Nil)
<1>1. Nil \in AllTrees /\ 1 \in {0, 1} 
  BY NilIsTree
<1>2. Ordered[Nil] /\ Entries[Nil] = {} 
  BY OrderedDef, EntriesDef
<1>3. u \in AllTrees \ {Nil}
  BY <1>1, OfNode
<1>4. Entries[u] = Entries[Nil] \cup {<<k, d>>} \cup Entries[Nil]
  BY <1>1, OfNode
<1>5. Ordered[u] <=> (/\ Ordered[Nil] /\ Ordered[Nil]
                   /\ Below(Entries[Nil], k) /\ Above(Entries[Nil], k))
  BY <1>1, OfNode
<1>6. Below({}, k) /\ Above({}, k)
  BY DEF Below, Above
<1> HIDE DEF u
<1>7. Holds(u, {<<k, d>>})
  BY <1>2, <1>3, <1>4, <1>5, <1>6 DEF Holds
<1> QED BY <1>7, LeafIs DEF u

\* Insert puts the entry where it belongs.
LEMMA InsertHolds ==
  ASSUME NEW t0 \in Trees, Ordered[t0], NEW e \in Keys \X Data
  PROVE  Holds(Insert[t0][e], Put(Entries[t0], e))
<1> DEFINE P == {t \in Trees : Ordered[t] => Holds(Insert[t][e], Put(Entries[t], e))}
<1>0. e[1] \in Keys /\ e[2] \in Data
  OBVIOUS
<1>4. e = <<e[1], e[2]>>
  OBVIOUS
<1>1. Nil \in P
  <2>1. Insert[Nil][e] = Leaf(e[1], e[2])
    BY InsertDef
  <2>2. Holds(Insert[Nil][e], {e})
    BY <1>0, <1>4, <2>1, LeafHolds
  <2>3. Put({}, e) = {e} /\ Entries[Nil] = {}
    BY EntriesDef DEF Put, Without
  <2> QED BY <2>2, <2>3, TreesAreTrees
<1>2. ASSUME NEW t \in Trees \ {Nil}, t.left \in P, t.right \in P
      PROVE  t \in P
  <2> SUFFICES ASSUME Ordered[t]
               PROVE  Holds(Insert[t][e], Put(Entries[t], e))
    OBVIOUS
  <2> DEFINE L == Entries[t.left]
             R == Entries[t.right]
             x == <<t.key, t.data>>
  <2>1. t \in AllTrees /\ t # Nil /\ t.left \in Trees /\ t.right \in Trees
    BY TreesAreTrees
  <2>2. /\ t.key \in Keys /\ t.data \in Data /\ t.red \in {0, 1}
        /\ t.left \in AllTrees /\ t.right \in AllTrees
    BY <2>1, Parts
  <2>3. Entries[t] = L \cup {x} \cup R /\ Ordered[t.left] /\ Ordered[t.right]
        /\ Below(L, t.key) /\ Above(R, t.key)
    BY <2>1, OfParts
  <2>4. L \in SUBSET (Keys \X Data) /\ R \in SUBSET (Keys \X Data) /\ x \in Keys \X Data /\ x[1] = t.key
    BY <2>2, EntriesType
  <2>5. Holds(Insert[t.left][e], Put(L, e)) /\ Holds(Insert[t.right][e], Put(R, e))
    BY <1>2, <2>3
  <2>6. Holds(t.left, L) /\ Holds(t.right, R)
    BY <2>2, <2>3 DEF Holds
  <2> HIDE DEF L, R, x
  <2>7. Insert[t][e] = InsertAt(t, Insert[t.left], Insert[t.right], e)
    BY InsertDef
  <2>8. /\ e[1] < x[1] => Without(L \cup {x} \cup R, e[1]) = Without(L, e[1]) \cup {x} \cup R
        /\ x[1] < e[1] => Without(L \cup {x} \cup R, e[1]) = L \cup {x} \cup Without(R, e[1])
        /\ e[1] = x[1] => Without(L \cup {x} \cup R, e[1]) = L \cup R
        /\ Below(Without(L, e[1]), x[1]) /\ Above(Without(R, e[1]), x[1])
    BY <1>0, <2>3, <2>4, WithoutParts
  <2>9. e[1] \in Int /\ t.key \in Int
    BY <1>0, <2>2, TreeAssumption
  <2>10. CASE e[1] < t.key
    <3> DEFINE i == Insert[t.left][e]
    <3>0. i \in AllTrees /\ i # Nil
      BY <2>1, InsertDef
    <3>1. i \in Maybe /\ i # Crash
      BY <3>0, Parts DEF Maybe
    <3> HIDE DEF i
    <3>2. Insert[t][e] = FixUp(Node(t.key, t.data, t.red, i, t.right))
      BY <2>1, <2>7, <2>10, <3>1, FixUpWith DEF InsertAt, i
    <3>3. Below(Put(L, e), t.key)
      BY <2>4, <2>8, <2>10 DEF Put, Below
    <3>4. Holds(Insert[t][e], Put(L, e) \cup {x} \cup R)
      BY <2>2, <2>3, <2>5, <2>6, <3>2, <3>3, FixUpHolds DEF i, x
    <3>5. Put(L, e) \cup {x} \cup R = Put(Entries[t], e)
      BY <2>3, <2>4, <2>8, <2>10 DEF Put
    <3> QED BY <3>4, <3>5
  <2>11. CASE t.key < e[1]
    <3> DEFINE i == Insert[t.right][e]
    <3>0. i \in AllTrees /\ i # Nil
      BY <2>1, InsertDef
    <3>1. i \in Maybe /\ i # Crash
      BY <3>0, Parts DEF Maybe
    <3> HIDE DEF i
    <3>2. Insert[t][e] = FixUp(Node(t.key, t.data, t.red, t.left, i))
      BY <2>1, <2>7, <2>9, <2>11, <3>1, FixUpWith DEF InsertAt, i
    <3>3. Above(Put(R, e), t.key)
      BY <2>4, <2>8, <2>11 DEF Put, Above
    <3>4. Holds(Insert[t][e], L \cup {x} \cup Put(R, e))
      BY <2>2, <2>3, <2>5, <2>6, <3>2, <3>3, FixUpHolds DEF i, x
    <3>5. L \cup {x} \cup Put(R, e) = Put(Entries[t], e)
      BY <2>3, <2>4, <2>8, <2>11 DEF Put
    <3> QED BY <3>4, <3>5
  <2>12. CASE e[1] = t.key
    <3>1. Insert[t][e] = FixUp(Node(t.key, e[2], t.red, t.left, t.right))
      BY <1>0, <2>1, <2>7, <2>9, <2>12, DataIs DEF InsertAt
    <3>2. Holds(Insert[t][e], L \cup {<<t.key, e[2]>>} \cup R)
      BY <1>0, <2>2, <2>3, <2>6, <3>1, FixUpHolds
    <3>3. L \cup {<<t.key, e[2]>>} \cup R = Put(Entries[t], e)
      <4>1. <<t.key, e[2]>> = e
        BY <1>4, <2>12
      <4> QED BY <4>1, <2>3, <2>4, <2>8, <2>12 DEF Put
    <3> QED BY <3>2, <3>3
  <2> QED BY <2>9, <2>10, <2>11, <2>12
<1>3. Trees \subseteq P
  <2> HIDE DEF P
  <2> QED BY <1>1, <1>2, ClosedSets, ClosedInduction
<1> QED BY <1>3

LEMMA FixedAlmost ==
  ASSUME NEW u, NEW c \in {0, 1}, NEW l, NEW r, NEW n \in Nat, Fixed(u, c, l, r, n),
         c = 1 => ~Red(l) \/ (~Red(r) /\ ~Red(l.left))
  PROVE  /\ Almost(u, n + 1 - c)
         /\ TwoReds(u) => c = 1 /\ (Red(l) \/ Red(r))
         /\ Red(u) => c = 1 \/ (Red(l) /\ (Red(r) \/ Red(l.left)))
<1>1. u \in AllTrees /\ u # Nil
  BY DEF Fixed, Kids
<1>2. (Red(u) <=> u.red = 1) /\ u.red \in {0, 1}
  BY <1>1, RedIs
<1>3. ASSUME u.red = c, Kids(u, n), TwoReds(u) => c = 1 /\ (Red(l) \/ Red(r))
      PROVE  Almost(u, n + 1 - c)
  <2>1. CASE ~TwoReds(u)
    BY <1>3, <2>1, KidsBal DEF Almost
  <2>2. CASE TwoReds(u)
    <3>1. c = 1 /\ n + 1 - 1 = n /\ Red(u)
      BY <1>3, <2>2 DEF TwoReds
    <3> QED BY <1>3, <3>1 DEF Almost
  <2> QED BY <2>1, <2>2
<1>4. ASSUME u.red = 1 - c, Kids(u, n + 1), ~TwoReds(u), Red(l) /\ (Red(r) \/ Red(l.left))
      PROVE  Almost(u, n + 1 - c)
  <2>1. c = 0
    BY <1>4
  <2>2. Bal(u, n + 1 + 1 - u.red)
    BY <1>4, KidsBal
  <2>3. n + 1 + 1 - u.red = n + 1 - c
    BY <1>4, <2>1
  <2> QED BY <2>2, <2>3 DEF Almost
<1>5. Almost(u, n + 1 - c)
  BY <1>3, <1>4 DEF Fixed
<1> QED BY <1>2, <1>5 DEF Fixed

\* Insert may leave two red links in a row at the top of a tree that was red.
LEMMA InsertBal ==
  ASSUME NEW t0 \in Trees, NEW n0, Bal(t0, n0), NEW e \in Keys \X Data
  PROVE  Almost(Insert[t0][e], n0) /\ (TwoReds(Insert[t0][e]) => Red(t0))
<1> DEFINE P == {t \in Trees : \A n : Bal(t, n) =>
                   Almost(Insert[t][e], n) /\ (TwoReds(Insert[t][e]) => Red(t))}
<1>0. e[1] \in Keys /\ e[2] \in Data
  OBVIOUS
<1>1. Nil \in P
  <2> DEFINE u == Node(e[1], e[2], 1, Nil, Nil)
  <2>1. Insert[Nil][e] = u
    BY <1>0, InsertDef, LeafIs
  <2>2. ~Red(Nil) /\ Bal(Nil, 0) /\ 1 \in {0, 1}
    BY BalNil DEF Red
  <2>3. Bal(u, 0) /\ u.left = Nil
    BY <1>0, <2>2, NodeKids, NodeFields
  <2> HIDE DEF u
  <2>4. \A n : Bal(Nil, n) => n = 0
    BY BlacksOfDef DEF Bal
  <2> QED BY <2>1, <2>2, <2>3, <2>4, TreesAreTrees DEF Almost, TwoReds
<1>2. ASSUME NEW t \in Trees \ {Nil}, t.left \in P, t.right \in P
      PROVE  t \in P
  <2> SUFFICES ASSUME NEW n, Bal(t, n)
               PROVE  Almost(Insert[t][e], n) /\ (TwoReds(Insert[t][e]) => Red(t))
    OBVIOUS
  <2> DEFINE m == n - 1 + t.red
             c == t.red
             u == Insert[t][e]
  <2>1. t \in AllTrees /\ t # Nil /\ t.left \in Trees /\ t.right \in Trees
    BY TreesAreTrees
  <2>2. /\ t.key \in Keys /\ t.data \in Data /\ c \in {0, 1}
        /\ t.left \in AllTrees /\ t.right \in AllTrees
    BY <2>1, Parts
  <2>3. m \in Nat /\ Kids(t, m) /\ ~TwoReds(t)
    BY <2>1, BalKids
  <2>4. n \in Nat /\ m + 1 - c = n
    BY <2>2 DEF Bal
  <2> HIDE DEF m
  <2>5. /\ Bal(t.left, m) /\ Bal(t.right, m) /\ ~Red(t.right)
        /\ c = 1 => ~Red(t.left)
        /\ Red(t) <=> c = 1
    BY <2>1, <2>3 DEF Kids, TwoReds, Red
  <2>6. /\ Almost(Insert[t.left][e], m) /\ (TwoReds(Insert[t.left][e]) => Red(t.left))
        /\ Almost(Insert[t.right][e], m) /\ (TwoReds(Insert[t.right][e]) => Red(t.right))
    BY <1>2, <2>5
  <2>7. ~TwoReds(t.left)
    BY <2>5, BalKids DEF TwoReds, Red
  <2>8. u = InsertAt(t, Insert[t.left], Insert[t.right], e)
    BY InsertDef
  <2>9. e[1] \in Int /\ t.key \in Int
    BY <1>0, <2>2, TreeAssumption
  <2>10. ASSUME NEW l, NEW r, Fixed(u, c, l, r, m),
                c = 1 => ~Red(l) \/ (~Red(r) /\ ~Red(l.left))
         PROVE  Almost(u, n) /\ (TwoReds(u) => Red(t))
    <3> HIDE DEF c, u
    <3> QED BY <2>2, <2>3, <2>4, <2>5, <2>10, FixedAlmost
  <2>11. CASE e[1] < t.key
    <3> DEFINE i == Insert[t.left][e]
    <3>0. i \in AllTrees /\ i # Nil
      BY <2>1, InsertDef
    <3>1. i \in Maybe /\ i # Crash
      BY <3>0, Parts DEF Maybe
    <3>2. Almost(i, m) /\ (TwoReds(i) => Red(t.left))
      BY <2>6
    <3> HIDE DEF i
    <3>3. u = FixUp(Node(t.key, t.data, c, i, t.right))
      BY <2>1, <2>8, <2>11, <3>1, FixUpWith DEF InsertAt, i
    <3> HIDE DEF u
    <3>4. Fixed(u, c, i, t.right, m)
      BY <2>2, <2>5, <3>2, <3>3, FixUpBal
    <3>5. c = 1 => ~Red(i) \/ (~Red(t.right) /\ ~Red(i.left))
      BY <2>5, <3>2 DEF TwoReds
    <3> QED BY <2>10, <3>4, <3>5 DEF u
  <2>12. CASE t.key < e[1]
    <3> DEFINE i == Insert[t.right][e]
    <3>0. i \in AllTrees /\ i # Nil
      BY <2>1, InsertDef
    <3>1. i \in Maybe /\ i # Crash
      BY <3>0, Parts DEF Maybe
    <3>2. Bal(i, m)
      BY <2>5, <2>6, AlmostKids
    <3> HIDE DEF i
    <3>3. u = FixUp(Node(t.key, t.data, c, t.left, i))
      BY <2>1, <2>8, <2>9, <2>12, <3>1, FixUpWith DEF InsertAt, i
    <3> HIDE DEF u
    <3>4. Fixed(u, c, t.left, i, m)
      BY <2>2, <2>5, <3>2, <3>3, FixUpBal DEF Almost
    <3>5. c = 1 => ~Red(t.left) \/ (~Red(i) /\ ~Red(t.left.left))
      BY <2>5
    <3> QED BY <2>10, <3>4, <3>5 DEF u
  <2>13. CASE e[1] = t.key
    <3>1. u = FixUp(Node(t.key, e[2], c, t.left, t.right))
      BY <1>0, <2>1, <2>8, <2>9, <2>13, DataIs DEF InsertAt
    <3> HIDE DEF u
    <3>2. Fixed(u, c, t.left, t.right, m)
      BY <1>0, <2>2, <2>5, <3>1, FixUpBal DEF Almost
    <3> QED BY <2>5, <2>10, <3>2 DEF u
  <2> QED BY <2>9, <2>11, <2>12, <2>13
<1>3. Trees \subseteq P
  <2> HIDE DEF P
  <2> QED BY <1>1, <1>2, ClosedSets, ClosedInduction
<1> QED BY <1>3

-----------------------------------------------------------------------------
(***************************************************************************)
(* What delete makes of the balance: on its way down it comes to nodes     *)
(* with a red link only, and fix_up restores the rest.                     *)
(***************************************************************************)
\* delete goes down to nodes with a red link: their own, or the left one.
Thick(t) == Red(t) \/ Red(t.left)

\* What delete leaves of a node t with sides of n black nodes: the root's
\* colour may be wrong if there was no red link at the root.
Kept(t, n, v) ==
  /\ \E i \in Nat : Kids(v, i)
  /\ ~TwoReds(t) /\ Thick(t) => Bal(v, n + 1 - t.red) /\ (Red(v) => Red(t))

LEMMA FixedKept ==
  ASSUME NEW t, NEW n, Kids(t, n), NEW c \in {0, 1}, NEW l, NEW r, NEW h \in Nat,
         NEW v, Fixed(v, c, l, r, h),
         \/ /\ c = t.red /\ h = n /\ ~(Red(l) /\ (Red(r) \/ Red(l.left)))
            /\ ~TwoReds(t) /\ Thick(t) /\ c = 1 => ~Red(l) /\ ~Red(r)
         \/ /\ c = 1 - t.red /\ h + 1 = n
            /\ Thick(t) => Red(t)
  PROVE  Kept(t, n, v)
<1>1. t \in AllTrees /\ t # Nil /\ n \in Nat /\ t.red \in {0, 1} /\ (Red(t) <=> t.red = 1)
  BY RedIs DEF Kids, Bal
<1>2. \E i \in Nat : Kids(v, i)
  <2>1. h + 1 \in Nat
    OBVIOUS
  <2> QED BY <2>1 DEF Fixed
<1>3. ASSUME ~TwoReds(t), Thick(t)
      PROVE  Bal(v, n + 1 - t.red) /\ (Red(v) => Red(t))
  <2>1. c = 1 => ~Red(l) \/ (~Red(r) /\ ~Red(l.left))
    BY <1>1, <1>3
  <2>2. /\ Almost(v, h + 1 - c)
        /\ TwoReds(v) => c = 1 /\ (Red(l) \/ Red(r))
        /\ Red(v) => c = 1 \/ (Red(l) /\ (Red(r) \/ Red(l.left)))
    BY <2>1, FixedAlmost
  <2>3. h + 1 - c = n + 1 - t.red
    BY <1>1, <1>3
  <2>4. ~TwoReds(v)
    BY <1>1, <1>3, <2>2
  <2>5. Red(v) => Red(t)
    BY <1>1, <1>3, <2>2
  <2> QED BY <2>2, <2>3, <2>4, <2>5, AlmostKids
<1> QED BY <1>2, <1>3 DEF Kept

\* The same of whatever side x comes back from below.
LeftBack(t, n, u, h) ==
  \A x : Bal(x, h) /\ (Red(x) => Red(u.left)) =>
    Kept(t, n, FixUp(Node(u.key, u.data, u.red, x, u.right)))
RightBack(t, n, u, h) ==
  \A j \in Keys, b \in Data : \A x : Bal(x, h) /\ (Red(x) => Red(u.right)) =>
    Kept(t, n, FixUp(Node(j, b, u.red, u.left, x)))

\* A node that is neither red nor null has nodes on both sides of its parent.
LEMMA BlackBelow ==
  ASSUME NEW t, NEW n, Bal(t, n), t # Nil, ~Red(t)
  PROVE  /\ n # 0 /\ n - 1 \in Nat /\ Kids(t, n - 1)
         /\ Red(Flip(t)) /\ Almost(Flip(t), n - 1) /\ Flip(t) # Nil
         /\ ~Red(t.left) => Bal(Flip(t), n - 1)
<1>1. t \in AllTrees /\ n \in Nat
  BY DEF Bal
<1>2. t.red = 0
  BY <1>1, RedIs
<1>3. n - 1 + t.red \in Nat /\ Kids(t, n - 1 + t.red) /\ n - 1 + t.red = n - 1
  BY <1>1, <1>2, BalKids
<1>4. Kids(t, n - 1) /\ n - 1 \in Nat /\ n # 0
  BY <1>1, <1>3
<1>5. /\ Red(Flip(t)) /\ Almost(Flip(t), n - 1)
      /\ ~Red(t.left) => Bal(Flip(t), n - 1)
  BY <1>4, FlipKids
<1> QED BY <1>1, <1>4, <1>5, FlipIs

LEMMA NotNil ==
  ASSUME NEW t, NEW n, Bal(t, n), n # 0
  PROVE  t # Nil
BY BlacksOfDef DEF Bal

\* On the way to the left delete comes to a node with a red link.
LEMMA DownLeft ==
  ASSUME NEW t, NEW n, Kids(t, n), t.left # Nil
  PROVE  LET u == MakeRed(t, t.left) IN
           /\ u # Crash /\ Same(t, u) /\ u.left # Nil /\ Thick(u.left)
           /\ \E h \in Nat : Bal(u.left, h) /\ Bal(u.right, h) /\ LeftBack(t, n, u, h)
           /\ Ordered[t] => t.key <= u.key
<1> DEFINE u == MakeRed(t, t.left)
           Goal(w) == /\ w # Crash /\ Same(t, w) /\ w.left # Nil /\ Thick(w.left)
                      /\ \E h \in Nat : Bal(w.left, h) /\ Bal(w.right, h) /\ LeftBack(t, n, w, h)
                      /\ Ordered[t] => t.key <= w.key
<1>1. t \in AllTrees /\ t # Nil /\ n \in Nat /\ Bal(t.left, n) /\ Bal(t.right, n) /\ ~Red(t.right)
  BY DEF Kids, Bal
<1>2. /\ t.key \in Keys /\ t.data \in Data /\ t.red \in {0, 1} /\ 1 - t.red \in {0, 1}
      /\ t.left \in AllTrees /\ t.right \in AllTrees
  BY <1>1, Parts
<1>3. (Red(t) <=> t.red = 1) /\ t.key \in Int /\ t.key <= t.key
  BY <1>1, <1>2, RedIs, TreeAssumption
<1>4. ASSUME Red(t.left) \/ Red(t.left.left)
      PROVE  Goal(u)
  <2>1. u = t
    BY <1>4 DEF MakeRed
  <2>2. LeftBack(t, n, t, n)
    <3> SUFFICES ASSUME NEW x, Bal(x, n), Red(x) => Red(t.left)
                 PROVE  Kept(t, n, FixUp(Node(t.key, t.data, t.red, x, t.right)))
      BY DEF LeftBack
    <3> DEFINE v == FixUp(Node(t.key, t.data, t.red, x, t.right))
    <3>1. Fixed(v, t.red, x, t.right, n)
      BY <1>1, <1>2, FixUpBal DEF Almost
    <3>2. ~TwoReds(x)
      BY BalKids DEF TwoReds, Red
    <3> HIDE DEF v
    <3>3. ~(Red(x) /\ (Red(t.right) \/ Red(x.left)))
      BY <1>1, <3>2 DEF TwoReds
    <3>4. ~TwoReds(t) /\ Thick(t) /\ t.red = 1 => ~Red(x) /\ ~Red(t.right)
      BY <1>1, <1>3 DEF TwoReds
    <3>5. Kept(t, n, v)
      BY <1>1, <1>2, <3>1, <3>3, <3>4, FixedKept
    <3> QED BY <3>5 DEF v
  <2>3. t # Crash /\ Same(t, t)
    BY <1>1, Parts, SameSelf
  <2> QED BY <1>1, <1>3, <1>4, <2>1, <2>2, <2>3 DEF Thick
<1>5. ASSUME ~Red(t.left), ~Red(t.left.left)
      PROVE  Goal(u)
  <2>1. u = MoveRedLeft(t)
    BY <1>5 DEF MakeRed
  <2> DEFINE h == n - 1
             l == Flip(t.left)
  <2>2. n # 0 /\ h \in Nat /\ h + 1 = n /\ Red(l) /\ Bal(l, h) /\ l # Nil
    BY <1>1, <1>5, BlackBelow
  <2>3. t.right # Nil
    BY <1>1, <2>2, NotNil
  <2>4. u # Crash /\ Same(t, u)
    BY <1>1, <2>1, <2>3, MoveRedLeftSame
  <2>5. Kids(t.right, h) /\ Red(Flip(t.right)) /\ (~Red(t.right.left) => Bal(Flip(t.right), h))
    BY <1>1, <2>3, BlackBelow
  <2>6. CASE ~Red(t.right.left)
    <3> DEFINE r == Flip(t.right)
               w == Node(t.key, t.data, 1 - t.red, l, r)
    <3>1. u = w
      BY <1>1, <2>1, <2>3, <2>6, MoveRedLeftIs
    <3>2. w.key = t.key /\ w.data = t.data /\ w.red = 1 - t.red /\ w.left = l /\ w.right = r
      BY NodeFields
    <3> HIDE DEF w, l, h, u
    <3>3. LeftBack(t, n, w, h)
      <4> SUFFICES ASSUME NEW x, Bal(x, h)
                   PROVE  Kept(t, n, FixUp(Node(t.key, t.data, 1 - t.red, x, r)))
        BY <3>2 DEF LeftBack
      <4> DEFINE v == FixUp(Node(t.key, t.data, 1 - t.red, x, r))
      <4>1. Fixed(v, 1 - t.red, x, r, h)
        BY <1>2, <2>5, <2>6, FixUpBal DEF Almost
      <4>2. Thick(t) => Red(t)
        BY <1>5 DEF Thick
      <4> HIDE DEF v
      <4>3. Kept(t, n, v)
        BY <1>1, <1>2, <2>2, <4>1, <4>2, FixedKept
      <4> QED BY <4>3 DEF v
    <3> QED BY <1>3, <2>2, <2>4, <2>5, <2>6, <3>1, <3>2, <3>3 DEF Thick
  <2>7. CASE Red(t.right.left)
    <3> DEFINE b == t.right.left
               x == Node(t.key, t.data, 0, l, b.left)
               y == Node(t.right.key, t.right.data, 0, b.right, t.right.right)
               w == Node(b.key, b.data, t.red, x, y)
    <3>1. u = w
      BY <1>1, <1>2, <2>1, <2>3, <2>7, MoveRedLeftIs
    <3>2. b # Nil /\ Bal(b, h) /\ Bal(t.right.right, h) /\ ~Red(t.right.right)
      BY <2>5, <2>7 DEF Kids, Red
    <3>3. ~Red(b.left) /\ Bal(b.left, h) /\ Bal(b.right, h) /\ ~Red(b.right) /\ b \in AllTrees
      <4>1. ~TwoReds(b)
        BY <3>2, BalKids
      <4>2. Kids(b, h)
        BY <2>7, <3>2, AlmostKids DEF Almost
      <4> QED BY <2>7, <4>1, <4>2 DEF TwoReds, Kids
    <3>4. b.key \in Keys /\ b.data \in Data /\ t.right.key \in Keys /\ t.right.data \in Data
      BY <1>2, <2>3, <3>2, <3>3, Parts
    <3> HIDE DEF b, l, h
    <3>5. Bal(x, n) /\ ~Red(x) /\ x # Nil /\ x.left = l
      BY <1>2, <2>2, <3>3, NodeKids, NodeFields, RedNode, NodeIsNotNil
    <3>6. Bal(y, n) /\ ~Red(y)
      BY <2>2, <3>2, <3>3, <3>4, NodeKids, RedNode
    <3> HIDE DEF x, y
    <3>7. w.key = b.key /\ w.data = b.data /\ w.red = t.red /\ w.left = x /\ w.right = y
      BY NodeFields
    <3> HIDE DEF w, u
    <3>8. LeftBack(t, n, w, n)
      <4> SUFFICES ASSUME NEW z, Bal(z, n), ~Red(z)
                   PROVE  Kept(t, n, FixUp(Node(b.key, b.data, t.red, z, y)))
        BY <3>5, <3>7 DEF LeftBack
      <4> DEFINE v == FixUp(Node(b.key, b.data, t.red, z, y))
      <4>1. Fixed(v, t.red, z, y, n)
        BY <1>2, <3>4, <3>6, FixUpBal DEF Almost
      <4> HIDE DEF v
      <4>2. Kept(t, n, v)
        BY <1>1, <1>2, <3>6, <4>1, FixedKept
      <4> QED BY <4>2 DEF v
    <3>9. ASSUME Ordered[t]
          PROVE  t.key <= w.key
      <4>1. Entries[t.right] = Entries[b] \cup {<<t.right.key, t.right.data>>} \cup Entries[t.right.right]
        BY <1>2, <2>3, OfParts DEF b
      <4>2. <<b.key, b.data>> \in Entries[b]
        BY <3>2, <3>3, OfParts
      <4>3. Above(Entries[t.right], t.key)
        BY <1>1, <3>9, OfParts
      <4>4. t.key < b.key
        BY <4>1, <4>2, <4>3 DEF Above
      <4>5. b.key \in Int
        BY <3>4, TreeAssumption
      <4> QED BY <1>3, <3>7, <4>4, <4>5
    <3> QED BY <1>1, <2>2, <2>4, <3>1, <3>5, <3>6, <3>7, <3>8, <3>9 DEF Thick
  <2> QED BY <2>6, <2>7
<1> HIDE DEF u
<1>6. Goal(u)
  BY <1>4, <1>5
<1> QED BY <1>6 DEF u

\* ... and so it does on the way to the right, after move_red_left.
LEMMA DownRight ==
  ASSUME NEW t, NEW n, Kids(t, n), ~TwoReds(t), LeanRight(t).right # Nil
  PROVE  LET u == MakeRed(LeanRight(t), LeanRight(t).right) IN
           /\ u # Crash /\ Same(t, u) /\ u.right # Nil /\ Thick(u.right)
           /\ \E h \in Nat : Bal(u.right, h) /\ RightBack(t, n, u, h)
           /\ u.key = LeanRight(t).key
<1> DEFINE w == LeanRight(t)
           u == MakeRed(w, w.right)
           Goal(s) == /\ s # Crash /\ Same(t, s) /\ s.right # Nil /\ Thick(s.right)
                      /\ \E h \in Nat : Bal(s.right, h) /\ RightBack(t, n, s, h)
                      /\ s.key = w.key
<1>1. t \in AllTrees /\ t # Nil /\ n \in Nat /\ Bal(t.left, n) /\ Bal(t.right, n) /\ ~Red(t.right)
  BY DEF Kids, Bal
<1>2. /\ t.key \in Keys /\ t.data \in Data /\ t.red \in {0, 1} /\ 1 - t.red \in {0, 1}
      /\ t.left \in AllTrees /\ t.right \in AllTrees
  BY <1>1, Parts
<1>3. Red(t) <=> t.red = 1
  BY <1>1, RedIs
<1>4. ASSUME Red(t.left)
      PROVE  Goal(u)
  <2> DEFINE x == Node(t.key, t.data, 1, t.left.right, t.right)
  <2>1. t.left # Nil /\ w = RotRight(t)
    BY <1>4 DEF Red, LeanRight
  <2>2. Kids(t.left, n) /\ ~TwoReds(t.left)
    BY <1>1, <1>4, <2>1, BalKids, AlmostKids DEF Almost
  <2>3. ~Red(t.left.left) /\ Bal(t.left.left, n) /\ Bal(t.left.right, n) /\ ~Red(t.left.right)
    BY <1>4, <2>2 DEF TwoReds, Kids
  <2>4. w = Node(t.left.key, t.left.data, t.red, t.left.left, x) /\ Same(t, w)
    BY <1>1, <2>1, RotRightIs, RotRightSame
  <2>5. Bal(x, n) /\ Red(x) /\ x # Nil
    BY <1>1, <1>2, <2>3, NodeKids, RedNode, NodeIsNotNil
  <2> HIDE DEF x, w
  <2>6. w.red = t.red /\ w.left = t.left.left /\ w.right = x /\ w # Crash
    BY <2>4, NodeFields, NodeIsNotNil
  <2>7. u = w
    BY <2>5, <2>6 DEF MakeRed
  <2>8. RightBack(t, n, w, n)
    <3> SUFFICES ASSUME NEW j \in Keys, NEW b \in Data, NEW z, Bal(z, n)
                 PROVE  Kept(t, n, FixUp(Node(j, b, t.red, t.left.left, z)))
      BY <2>6 DEF RightBack
    <3> DEFINE v == FixUp(Node(j, b, t.red, t.left.left, z))
    <3>1. Fixed(v, t.red, t.left.left, z, n)
      BY <1>2, <2>3, FixUpBal DEF Almost
    <3>2. ~TwoReds(t) /\ Thick(t) => t.red # 1
      BY <1>3, <1>4 DEF TwoReds
    <3> HIDE DEF v
    <3>3. Kept(t, n, v)
      BY <1>1, <1>2, <2>3, <3>1, <3>2, FixedKept
    <3> QED BY <3>3 DEF v
  <2>9. Goal(w)
    BY <1>1, <2>3, <2>4, <2>5, <2>6, <2>8 DEF Thick
  <2> QED BY <2>7, <2>9
<1>5. ASSUME ~Red(t.left)
      PROVE  Goal(u)
  <2>1. w = t /\ t.right # Nil
    BY <1>5 DEF LeanRight
  <2>2. CASE Red(t.right.left)
    <3>1. u = t
      BY <2>1, <2>2 DEF MakeRed
    <3>2. RightBack(t, n, t, n)
      <4> SUFFICES ASSUME NEW j \in Keys, NEW b \in Data, NEW z, Bal(z, n), ~Red(z)
                   PROVE  Kept(t, n, FixUp(Node(j, b, t.red, t.left, z)))
        BY <1>1 DEF RightBack
      <4> DEFINE v == FixUp(Node(j, b, t.red, t.left, z))
      <4>1. Fixed(v, t.red, t.left, z, n)
        BY <1>1, <1>2, FixUpBal DEF Almost
      <4> HIDE DEF v
      <4>2. Kept(t, n, v)
        BY <1>1, <1>2, <1>5, <4>1, FixedKept
      <4> QED BY <4>2 DEF v
    <3>3. t # Crash /\ Same(t, t)
      BY <1>1, Parts, SameSelf
    <3>4. Goal(t)
      BY <1>1, <2>1, <2>2, <3>2, <3>3 DEF Thick
    <3> QED BY <3>1, <3>4
  <2>3. CASE ~Red(t.right.left)
    <3> DEFINE h == n - 1
               l == Flip(t.left)
               r == Flip(t.right)
               q == Node(t.key, t.data, 1 - t.red, l, r)
    <3>1. n # 0 /\ h \in Nat /\ h + 1 = n /\ Red(r) /\ Bal(r, h) /\ r # Nil
      BY <1>1, <2>1, <2>3, BlackBelow
    <3>2. t.left # Nil
      BY <1>1, <3>1, NotNil
    <3>3. Almost(l, h) /\ Red(l)
      BY <1>1, <1>5, <3>2, BlackBelow
    <3>4. u = MoveRedLeft(t)
      BY <1>1, <2>1, <2>3 DEF MakeRed
    <3>5. u # Crash /\ Same(t, u)
      BY <1>1, <2>1, <3>2, <3>4, MoveRedLeftSame
    <3>6. u = q
      BY <1>1, <2>1, <2>3, <3>2, <3>4, MoveRedLeftIs
    <3>7. q.key = t.key /\ q.data = t.data /\ q.red = 1 - t.red /\ q.left = l /\ q.right = r
      BY NodeFields
    <3> HIDE DEF q, l, r, h, u
    <3>8. RightBack(t, n, q, h)
      <4> SUFFICES ASSUME NEW j \in Keys, NEW b \in Data, NEW z, Bal(z, h)
                   PROVE  Kept(t, n, FixUp(Node(j, b, 1 - t.red, l, z)))
        BY <3>7 DEF RightBack
      <4> DEFINE v == FixUp(Node(j, b, 1 - t.red, l, z))
      <4>1. Fixed(v, 1 - t.red, l, z, h)
        BY <1>2, <3>3, FixUpBal
      <4>2. Thick(t) => Red(t)
        BY <1>5 DEF Thick
      <4> HIDE DEF v
      <4>3. Kept(t, n, v)
        BY <1>1, <1>2, <3>1, <4>1, <4>2, FixedKept
      <4> QED BY <4>3 DEF v
    <3>9. Goal(q)
      BY <2>1, <3>1, <3>3, <3>5, <3>6, <3>7, <3>8 DEF Thick
    <3> QED BY <3>6, <3>9
  <2> QED BY <2>2, <2>3
<1> HIDE DEF u
<1>6. Goal(u)
  BY <1>4, <1>5
<1> QED BY <1>6 DEF u

-----------------------------------------------------------------------------
(***************************************************************************)
(* The least entry, and what del_min removes.                              *)
(***************************************************************************)
\* The entry with the least key.
First(E, e) == e \in E /\ \A x \in E : x = e \/ e[1] < x[1]

LEMMA FirstParts ==
  ASSUME NEW L \in SUBSET (Keys \X Data), NEW R \in SUBSET (Keys \X Data),
         NEW x \in Keys \X Data, Below(L, x[1]), Above(R, x[1])
  PROVE  /\ L = {} => First(L \cup {x} \cup R, x) /\ (L \cup {x} \cup R) \ {x} = R
         /\ \A e : First(L, e) =>
              /\ First(L \cup {x} \cup R, e)
              /\ (L \cup {x} \cup R) \ {e} = (L \ {e}) \cup {x} \cup R
              /\ Below(L \ {e}, x[1])
<1>1. \A y \in L : y[1] \in Int /\ y[1] < x[1]
  BY TreeAssumption DEF Below
<1>2. \A y \in R : y[1] \in Int /\ x[1] < y[1]
  BY TreeAssumption DEF Above
<1>3. x[1] \in Int
  BY TreeAssumption
<1>4. x \notin R
  BY <1>2, <1>3
<1>5. ASSUME L = {}
      PROVE  First(L \cup {x} \cup R, x) /\ (L \cup {x} \cup R) \ {x} = R
  BY <1>2, <1>4, <1>5 DEF First
<1>6. ASSUME NEW e, First(L, e)
      PROVE  /\ First(L \cup {x} \cup R, e)
             /\ (L \cup {x} \cup R) \ {e} = (L \ {e}) \cup {x} \cup R
             /\ Below(L \ {e}, x[1])
  <2>1. e \in L /\ e[1] < x[1] /\ e[1] \in Int
    BY <1>1, <1>6 DEF First
  <2>2. \A y \in R : e[1] < y[1]
    BY <1>2, <1>3, <2>1
  <2>3. e # x /\ e \notin R
    BY <1>3, <2>1, <2>2
  <2>4. First(L \cup {x} \cup R, e)
    BY <1>6, <2>1, <2>2 DEF First
  <2>5. Below(L \ {e}, x[1])
    BY <1>1 DEF Below
  <2> QED BY <2>3, <2>4, <2>5
<1> QED BY <1>5, <1>6

LEMMA FirstIsOne ==
  ASSUME NEW E \in SUBSET (Keys \X Data), NEW e, NEW f, First(E, e), First(E, f)
  PROVE  e = f
<1>1. e \in E /\ f \in E /\ (f = e \/ e[1] < f[1]) /\ (e = f \/ f[1] < e[1])
  BY DEF First
<1>2. e[1] \in Int /\ f[1] \in Int
  BY <1>1, TreeAssumption
<1> QED BY <1>1, <1>2

LEMMA EntryParts ==
  ASSUME NEW t \in AllTrees, t # Nil, Ordered[t]
  PROVE  LET L == Entries[t.left]
             R == Entries[t.right]
             x == <<t.key, t.data>>
         IN /\ L \in SUBSET (Keys \X Data) /\ R \in SUBSET (Keys \X Data)
            /\ x \in Keys \X Data /\ x[1] = t.key
            /\ Below(L, t.key) /\ Above(R, t.key)
            /\ Entries[t] = L \cup {x} \cup R
            /\ Holds(t.left, L) /\ Holds(t.right, R)
<1>1. /\ t.key \in Keys /\ t.data \in Data
      /\ t.left \in AllTrees /\ t.right \in AllTrees
  BY Parts
<1>2. /\ Entries[t] = Entries[t.left] \cup {<<t.key, t.data>>} \cup Entries[t.right]
      /\ Ordered[t.left] /\ Ordered[t.right]
      /\ Below(Entries[t.left], t.key) /\ Above(Entries[t.right], t.key)
  BY OfParts
<1> QED BY <1>1, <1>2, EntriesType DEF Holds

\* find_min finds the least entry.
LEMMA FindMinIs ==
  ASSUME NEW t0 \in Trees, t0 # Nil, Ordered[t0]
  PROVE  First(Entries[t0], Entry(FindMin[t0]))
<1> DEFINE P == {t \in Trees : t # Nil /\ Ordered[t] => First(Entries[t], Entry(FindMin[t]))}
<1>1. Nil \in P
  BY TreesAreTrees
<1>2. ASSUME NEW t \in Trees \ {Nil}, t.left \in P, t.right \in P
      PROVE  t \in P
  <2> SUFFICES ASSUME Ordered[t]
               PROVE  First(Entries[t], Entry(FindMin[t]))
    OBVIOUS
  <2> DEFINE L == Entries[t.left]
             R == Entries[t.right]
             x == <<t.key, t.data>>
  <2>1. t \in AllTrees
    BY TreesAreTrees
  <2>2. /\ L \in SUBSET (Keys \X Data) /\ R \in SUBSET (Keys \X Data)
        /\ x \in Keys \X Data /\ Below(L, x[1]) /\ Above(R, x[1])
        /\ Entries[t] = L \cup {x} \cup R
    BY <2>1, EntryParts
  <2>3. FindMin[t] = IF t.left = Nil THEN t ELSE FindMin[t.left]
    BY FindMinDef
  <2>4. CASE t.left = Nil
    <3>1. L = {} /\ Entry(FindMin[t]) = x
      BY <2>3, <2>4, EntriesDef DEF Entry
    <3> HIDE DEF L, R, x
    <3>2. First(L \cup {x} \cup R, x)
      BY <2>2, <3>1, FirstParts
    <3> QED BY <2>2, <3>1, <3>2
  <2>5. CASE t.left # Nil
    <3>1. Ordered[t.left]
      BY <2>1, OfParts
    <3>2. First(L, Entry(FindMin[t]))
      BY <1>2, <2>3, <2>5, <3>1
    <3> HIDE DEF L, R, x
    <3>3. First(L \cup {x} \cup R, Entry(FindMin[t]))
      BY <2>2, <3>2, FirstParts
    <3> QED BY <2>2, <3>3
  <2> QED BY <2>4, <2>5
<1>3. Trees \subseteq P
  <2> HIDE DEF P
  <2> QED BY <1>1, <1>2, ClosedSets, ClosedInduction
<1> QED BY <1>3

\* What a deletion leaves of the tree t: the entries E, balanced as before.
Left(t, n, v, E) == Holds(v, E) /\ v # Crash /\ Bal(v, n) /\ (Red(v) => Red(t))

LEMMA KeptBal ==
  ASSUME NEW t, NEW n, Bal(t, n), t # Nil
  PROVE  /\ Kids(t, n - 1 + t.red) /\ ~TwoReds(t) /\ n - 1 + t.red \in Nat
         /\ \A v : Kept(t, n - 1 + t.red, v) /\ Thick(t) => Bal(v, n) /\ (Red(v) => Red(t))
<1>1. Kids(t, n - 1 + t.red) /\ ~TwoReds(t) /\ n - 1 + t.red \in Nat
  BY BalKids
<1>2. t \in AllTrees /\ n \in Nat
  BY DEF Bal
<1>3. (n - 1 + t.red) + 1 - t.red = n
  BY <1>2, Parts
<1> QED BY <1>1, <1>3 DEF Kept

\* A node with nothing on one side that lies below the other.
LEMMA Bottom ==
  ASSUME NEW t, NEW n, Kids(t, n)
  PROVE  /\ t.left = Nil => t.right = Nil
         /\ t.right = Nil /\ ~Red(t.left) => t.left = Nil
         /\ t.right = Nil => n = 0
<1>1. Bal(t.left, n) /\ Bal(t.right, n) /\ ~Red(t.right)
  BY DEF Kids
<1>2. \A i : Bal(Nil, i) => i = 0
  BY BlacksOfDef DEF Bal
<1>3. t.left = Nil => t.right = Nil
  BY <1>1, <1>2, BlackBelow
<1>4. t.right = Nil /\ ~Red(t.left) => t.left = Nil
  BY <1>1, <1>2, BlackBelow
<1> QED BY <1>1, <1>2, <1>3, <1>4

LEMMA NilHolds == Holds(Nil, {}) /\ Nil # Crash /\ ~Red(Nil)
BY NilIsTree, EntriesDef, OrderedDef, NodeIsNotNil DEF Holds, Red

\* del_min removes the least entry, with the balance kept.
LEMMA DelMinIs ==
  ASSUME NEW t0 \in Trees, t0 # Nil, Ordered[t0], NEW n0, Bal(t0, n0), Thick(t0)
  PROVE  \E e : First(Entries[t0], e) /\ Left(t0, n0, DelMin[t0], Entries[t0] \ {e})
<1> DEFINE P == {t \in Trees : t # Nil /\ Ordered[t] => \A n : Bal(t, n) /\ Thick(t) =>
                   \E e : First(Entries[t], e) /\ Left(t, n, DelMin[t], Entries[t] \ {e})}
           m == [t \in Trees |-> SizeOf[t]]
<1>1. ASSUME NEW t \in Trees, \A s \in Trees : m[s] < m[t] => s \in P
      PROVE  t \in P
  <2> SUFFICES ASSUME t # Nil, Ordered[t], NEW n, Bal(t, n), Thick(t)
               PROVE  \E e : First(Entries[t], e) /\ Left(t, n, DelMin[t], Entries[t] \ {e})
    OBVIOUS
  <2>1. t \in AllTrees
    BY TreesAreTrees
  <2>2. DelMin[t] = DelMinStep(DelMin, t)
    BY DelMinDef
  <2> DEFINE i == n - 1 + t.red
  <2>3. /\ Kids(t, i) /\ ~TwoReds(t) /\ i \in Nat
        /\ \A v : Kept(t, i, v) => Bal(v, n) /\ (Red(v) => Red(t))
    BY KeptBal
  <2>4. CASE t.left = Nil
    <3> DEFINE L == Entries[t.left]
               R == Entries[t.right]
               x == <<t.key, t.data>>
    <3>1. DelMin[t] = Nil
      BY <2>2, <2>4 DEF DelMinStep
    <3>2. t.right = Nil /\ i = 0 /\ t.red = 1
      <4>1. t.right = Nil /\ i = 0
        BY <2>3, <2>4, Bottom
      <4>2. Red(t)
        BY <2>4 DEF Thick, Red
      <4> QED BY <4>1, <4>2 DEF Red
    <3>3. n = 0
      BY <3>2 DEF Bal
    <3>4. L = {} /\ R = {}
      BY <2>4, <3>2, EntriesDef
    <3>5. /\ L \in SUBSET (Keys \X Data) /\ R \in SUBSET (Keys \X Data)
          /\ x \in Keys \X Data /\ Below(L, x[1]) /\ Above(R, x[1])
          /\ Entries[t] = L \cup {x} \cup R
      BY <2>1, EntryParts
    <3> HIDE DEF L, R, x
    <3>6. First(Entries[t], x) /\ Entries[t] \ {x} = {}
      <4>1. First(L \cup {x} \cup R, x)
        BY <3>4, <3>5, FirstParts
      <4> QED BY <3>4, <3>5, <4>1
    <3>7. Left(t, n, DelMin[t], {})
      BY <3>1, <3>3, NilHolds, BalNil DEF Left
    <3> QED BY <3>6, <3>7
  <2>5. CASE t.left # Nil
    <3> DEFINE u == MakeRed(t, t.left)
               r == DelMin[u.left]
               L == Entries[u.left]
               R == Entries[u.right]
               x == <<u.key, u.data>>
    <3>1. /\ u # Crash /\ Same(t, u) /\ u.left # Nil /\ Thick(u.left)
          /\ \E h \in Nat : Bal(u.left, h) /\ Bal(u.right, h) /\ LeftBack(t, i, u, h)
      BY <2>3, <2>5, DownLeft
    <3>2. u.left \in Trees /\ SizeOf[u.left] < SizeOf[t]
      BY <3>1, MakeRedLeft
    <3>3. DelMin[t] = FixUp(WithLeft(u, DelMin[u.left]))
      BY <2>2, <2>5, <3>1 DEF DelMinStep
    <3> HIDE DEF u, i
    <3>4. PICK h \in Nat : Bal(u.left, h) /\ Bal(u.right, h) /\ LeftBack(t, i, u, h)
      BY <3>1
    <3>5. u \in AllTrees /\ u # Nil /\ Ordered[u] /\ Entries[u] = Entries[t]
      BY <3>1 DEF Same
    <3>6. /\ L \in SUBSET (Keys \X Data) /\ R \in SUBSET (Keys \X Data)
          /\ x \in Keys \X Data /\ Below(L, x[1]) /\ Above(R, x[1])
          /\ Entries[u] = L \cup {x} \cup R /\ Holds(u.right, R) /\ x[1] = u.key
          /\ Ordered[u.left]
      BY <3>5, EntryParts DEF Holds
    <3>7. u.left \in P
      BY <1>1, <3>2
    <3>8. PICK e : First(L, e) /\ Left(u.left, h, r, L \ {e})
      BY <3>1, <3>4, <3>6, <3>7
    <3>9. r \in AllTrees /\ r \in Maybe /\ r # Crash /\ Holds(r, L \ {e}) /\ Bal(r, h) /\ (Red(r) => Red(u.left))
      BY <3>8 DEF Left, Holds, Maybe
    <3> HIDE DEF r, L, R, x
    <3>10. DelMin[t] = FixUp(Node(u.key, u.data, u.red, r, u.right))
      BY <3>3, <3>5, <3>9, FixUpWith DEF r
    <3>11. u.key \in Keys /\ u.data \in Data /\ u.red \in {0, 1}
      BY <3>5, Parts
    <3>12. /\ First(L \cup {x} \cup R, e)
           /\ (L \cup {x} \cup R) \ {e} = (L \ {e}) \cup {x} \cup R
           /\ Below(L \ {e}, x[1])
      BY <3>6, <3>8, FirstParts
    <3>13. Holds(DelMin[t], (L \ {e}) \cup {x} \cup R) /\ DelMin[t] # Crash
      <4>1. Below(L \ {e}, u.key) /\ Above(R, u.key)
        BY <3>6, <3>12
      <4>2. Holds(u.right, R)
        BY <3>6
      <4>3. /\ Holds(DelMin[t], (L \ {e}) \cup {<<u.key, u.data>>} \cup R)
            /\ DelMin[t] # Crash
        BY <3>9, <3>10, <3>11, <4>1, <4>2, FixUpHolds
      <4> QED BY <4>3 DEF x
    <3>14. Kept(t, i, DelMin[t])
      BY <3>4, <3>9, <3>10 DEF LeftBack
    <3>15. Bal(DelMin[t], n) /\ (Red(DelMin[t]) => Red(t))
      BY <2>3, <3>14
    <3> QED BY <3>5, <3>6, <3>12, <3>13, <3>15 DEF Left
  <2> QED BY <2>4, <2>5
<1>2. m \in [Trees -> Nat]
  BY TreesAreTrees, SizeOfDef
<1> HIDE DEF P, m
<1>3. Trees \subseteq P
  BY <1>1, <1>2, MeasureInduction
<1> QED BY <1>3 DEF P

-----------------------------------------------------------------------------
(***************************************************************************)
(* What delete removes.                                                    *)
(***************************************************************************)
\* What delete makes of the tree t: it crashes only if the key is not there.
Removed(t, n, k, v) ==
  \/ v = Crash /\ \A x \in Entries[t] : x[1] # k
  \/ /\ v # Crash /\ Holds(v, Without(Entries[t], k))
     /\ v = Nil \/ \E i \in Nat : Kids(v, i)
     /\ Thick(t) => Bal(v, n) /\ (Red(v) => Red(t))

\* The induction hypothesis: of every smaller tree.
RemovedBelow(t, k) ==
  \A s \in Trees : s # Nil /\ SizeOf[s] < SizeOf[t] /\ Ordered[s] =>
    \A h : Bal(s, h) => Removed(s, h, k, Delete[s][k])

LEMMA NodeRemoved ==
  ASSUME NEW t, NEW n, Bal(t, n), t # Nil, NEW k, NEW v,
         Kept(t, n - 1 + t.red, v), Holds(v, Without(Entries[t], k)), v # Crash
  PROVE  Removed(t, n, k, v)
BY KeptBal DEF Kept, Removed

\* A step to the left.
LEMMA RemovedLeft ==
  ASSUME NEW t \in Trees, t # Nil, Ordered[t], NEW n, Bal(t, n),
         NEW k \in Keys, k < t.key, RemovedBelow(t, k)
  PROVE  Removed(t, n, k, Delete[t][k])
<1> DEFINE i == n - 1 + t.red
           v == Delete[t][k]
<1>1. t \in AllTrees /\ t.key \in Int /\ k \in Int
  BY TreesAreTrees, Parts, TreeAssumption
<1>2. Kids(t, i) /\ ~TwoReds(t) /\ i \in Nat
  BY KeptBal
<1>3. v = IF DeleteLeft(Delete, t, k) = Nil THEN Nil ELSE FixUp(DeleteLeft(Delete, t, k))
  BY DeleteDef DEF DeleteAt
<1>4. CASE t.left = Nil
  <2>1. DeleteLeft(Delete, t, k) = Crash
    BY <1>4 DEF DeleteLeft, MakeRed
  <2>2. v = Crash
    BY <1>3, <2>1, NodeIsNotNil DEF FixUp
  <2>3. /\ Entries[t] = Entries[t.left] \cup {<<t.key, t.data>>} \cup Entries[t.right]
        /\ Above(Entries[t.right], t.key) /\ Entries[t.left] = {}
    BY <1>1, <1>4, OfParts, EntriesDef
  <2>4. \A x \in Entries[t.right] : x[1] \in Int /\ t.key < x[1]
    BY <1>1, <2>3, KeysAreInts, Parts DEF Above
  <2>5. \A x \in Entries[t.right] : x[1] # k
    BY <1>1, <2>4
  <2>6. \A x \in Entries[t] : x[1] # k
    BY <1>1, <2>3, <2>5
  <2> QED BY <2>2, <2>6 DEF Removed
<1>5. CASE t.left # Nil
  <2> DEFINE u == MakeRed(t, t.left)
             r == Delete[u.left][k]
             L == Entries[u.left]
             R == Entries[u.right]
             x == <<u.key, u.data>>
  <2>1. /\ u # Crash /\ Same(t, u) /\ u.left # Nil /\ Thick(u.left)
        /\ \E h \in Nat : Bal(u.left, h) /\ Bal(u.right, h) /\ LeftBack(t, i, u, h)
        /\ t.key <= u.key
    BY <1>2, <1>5, DownLeft
  <2>2. u.left \in Trees /\ SizeOf[u.left] < SizeOf[t]
    BY <2>1, MakeRedLeft
  <2>3. DeleteLeft(Delete, t, k) = WithLeft(u, Delete[u.left][k])
    BY <2>1 DEF DeleteLeft
  <2> HIDE DEF u, i, v
  <2>4. PICK h \in Nat : Bal(u.left, h) /\ Bal(u.right, h) /\ LeftBack(t, i, u, h)
    BY <2>1
  <2>5. u \in AllTrees /\ u # Nil /\ Ordered[u] /\ Entries[u] = Entries[t]
    BY <2>1 DEF Same
  <2>6. u.key \in Keys /\ u.data \in Data /\ u.red \in {0, 1}
    BY <2>5, Parts
  <2>7. k < u.key
    <3>1. u.key \in Int
      BY <2>6, TreeAssumption
    <3>2. t.key <= u.key
      BY <2>1
    <3> QED BY <1>1, <3>1, <3>2
  <2>8. /\ L \in SUBSET (Keys \X Data) /\ R \in SUBSET (Keys \X Data)
        /\ x \in Keys \X Data /\ Below(L, u.key) /\ Above(R, u.key)
        /\ Entries[u] = L \cup {x} \cup R /\ Holds(u.right, R) /\ x[1] = u.key
        /\ Ordered[u.left]
    BY <2>5, EntryParts DEF Holds
  <2>9. Removed(u.left, h, k, r)
    BY <2>1, <2>2, <2>4, <2>8 DEF RemovedBelow
  <2>10. r \in Maybe
    BY <2>2, DeleteDef
  <2> HIDE DEF r, L, R, x
  <2>11. /\ Without(L \cup {x} \cup R, k) = Without(L, k) \cup {x} \cup R
         /\ Below(Without(L, k), u.key)
    <3>1. k < x[1] /\ Below(L, x[1]) /\ Above(R, x[1])
      BY <2>7, <2>8
    <3>2. L \in SUBSET (Keys \X Data) /\ R \in SUBSET (Keys \X Data) /\ x \in Keys \X Data
      BY <2>8
    <3>3. /\ k < x[1] => Without(L \cup {x} \cup R, k) = Without(L, k) \cup {x} \cup R
          /\ x[1] < k => Without(L \cup {x} \cup R, k) = L \cup {x} \cup Without(R, k)
          /\ k = x[1] => Without(L \cup {x} \cup R, k) = L \cup R
          /\ Below(Without(L, k), x[1]) /\ Above(Without(R, k), x[1])
      BY <3>1, <3>2, WithoutParts
    <3> QED BY <2>8, <3>1, <3>3
  <2>12. CASE r = Crash
    <3>1. DeleteLeft(Delete, t, k) = Crash /\ FixUp(Crash) = Crash /\ Crash # Nil
      BY <2>3, <2>5, <2>10, <2>12, FixUpWith, NodeIsNotNil DEF r
    <3>2. v = Crash
      BY <1>3, <3>1 DEF v
    <3>3. Crash \notin AllTrees
      BY Parts, NodeIsNotNil
    <3>4. \A y \in L : y[1] # k
      BY <2>9, <2>12 DEF Removed, L
    <3>5. Without(L, k) = L
      BY <3>4 DEF Without
    <3>6. Without(Entries[t], k) = Entries[t]
      BY <2>5, <2>8, <2>11, <3>5
    <3>7. \A y \in Entries[t] : y[1] # k
      BY <3>6 DEF Without
    <3> QED BY <3>2, <3>7 DEF Removed, v
  <2>13. CASE r # Crash
    <3>1. Holds(r, Without(L, k)) /\ Bal(r, h) /\ (Red(r) => Red(u.left))
      BY <2>1, <2>9, <2>13 DEF Removed, L
    <3>2. /\ DeleteLeft(Delete, t, k) = Node(u.key, u.data, u.red, r, u.right)
          /\ DeleteLeft(Delete, t, k) # Nil
      BY <2>3, <2>5, <2>10, <2>13, FixUpWith, NodeIsNotNil DEF r
    <3>3. v = FixUp(Node(u.key, u.data, u.red, r, u.right))
      BY <1>3, <3>2 DEF v
    <3>4. Holds(v, Without(L, k) \cup {<<u.key, u.data>>} \cup R) /\ v # Crash
      BY <2>6, <2>8, <2>11, <3>1, <3>3, FixUpHolds
    <3>5. Holds(v, Without(Entries[t], k))
      BY <2>5, <2>8, <2>11, <3>4 DEF x
    <3>6. Kept(t, i, v)
      BY <2>4, <3>1, <3>3 DEF LeftBack
    <3> QED BY <3>4, <3>5, <3>6, NodeRemoved DEF i, v
  <2> QED BY <2>12, <2>13
<1> QED BY <1>4, <1>5

\* The three ways of a key at a node, as Without sees them.
LEMMA WithoutAt ==
  ASSUME NEW u \in AllTrees, u # Nil, Ordered[u], NEW k \in Keys
  PROVE  LET L == Entries[u.left]
             R == Entries[u.right]
             x == <<u.key, u.data>>
         IN /\ k < u.key => Without(Entries[u], k) = Without(L, k) \cup {x} \cup R
            /\ u.key < k => Without(Entries[u], k) = L \cup {x} \cup Without(R, k)
            /\ k = u.key => Without(Entries[u], k) = L \cup R
            /\ Below(Without(L, k), u.key) /\ Above(Without(R, k), u.key)
<1> DEFINE L == Entries[u.left]
           R == Entries[u.right]
           x == <<u.key, u.data>>
<1>1. /\ L \in SUBSET (Keys \X Data) /\ R \in SUBSET (Keys \X Data)
      /\ x \in Keys \X Data /\ Below(L, x[1]) /\ Above(R, x[1])
  BY EntryParts
<1>2. Entries[u] = L \cup {x} \cup R /\ x[1] = u.key
  BY EntryParts
<1> HIDE DEF L, R, x
<1>3. /\ k < x[1] => Without(L \cup {x} \cup R, k) = Without(L, k) \cup {x} \cup R
      /\ x[1] < k => Without(L \cup {x} \cup R, k) = L \cup {x} \cup Without(R, k)
      /\ k = x[1] => Without(L \cup {x} \cup R, k) = L \cup R
      /\ Below(Without(L, k), x[1]) /\ Above(Without(R, k), x[1])
  BY <1>1, WithoutParts
<1> QED BY <1>2, <1>3 DEF L, R, x

\* A key is absent if a deletion would change nothing.
LEMMA AbsentIs ==
  ASSUME NEW E, NEW k
  PROVE  Without(E, k) = E <=> \A x \in E : x[1] # k
BY DEF Without

LEMMA LeanRightKey ==
  ASSUME NEW t \in AllTrees, t # Nil, Ordered[t]
  PROVE  LeanRight(t).key <= t.key
<1>1. t.key \in Int /\ t.left \in AllTrees
  BY Parts, TreeAssumption
<1>2. CASE Red(t.left)
  <2>1. t.left # Nil
    BY <1>2 DEF Red
  <2>2. LeanRight(t).key = t.left.key
    BY <1>2, <2>1, RotRightIs, NodeFields DEF LeanRight
  <2>3. <<t.left.key, t.left.data>> \in Entries[t.left]
    BY <1>1, <2>1, OfParts
  <2>4. Below(Entries[t.left], t.key)
    BY OfParts
  <2>5. t.left.key < t.key
    BY <2>3, <2>4 DEF Below
  <2>6. t.left.key \in Int
    BY <1>1, <2>1, Parts, TreeAssumption
  <2> QED BY <1>1, <2>2, <2>5, <2>6
<1>3. CASE ~Red(t.left)
  BY <1>1, <1>3 DEF LeanRight
<1> QED BY <1>2, <1>3

\* The entry that takes the place of the one at the top.
LEMMA SuccessorHolds ==
  ASSUME NEW t, NEW n, NEW u \in AllTrees, u # Nil, Ordered[u], NEW h,
         u.right \in Trees, u.right # Nil, Bal(u.right, h), Thick(u.right), RightBack(t, n, u, h)
  PROVE  /\ Successor(u) # Nil /\ FixUp(Successor(u)) # Crash
         /\ Holds(FixUp(Successor(u)), Without(Entries[u], u.key))
         /\ Kept(t, n, FixUp(Successor(u)))
<1> DEFINE m == FindMin[u.right]
           r == DelMin[u.right]
           L == Entries[u.left]
           R == Entries[u.right]
<1>1. u.key \in Keys /\ u.key \in Int /\ u.red \in {0, 1} /\ u.left \in AllTrees /\ u.right \in AllTrees
  BY Parts, TreeAssumption
<1>2. /\ Below(L, u.key) /\ Above(R, u.key) /\ Holds(u.left, L) /\ Ordered[u.right]
      /\ R \in SUBSET (Keys \X Data)
  BY EntryParts DEF Holds
<1>3. PICK e : First(R, e) /\ Left(u.right, h, r, R \ {e})
  BY <1>2, DelMinIs
<1>4. First(R, Entry(m))
  BY <1>2, FindMinIs
<1>5. e = Entry(m)
  BY <1>2, <1>3, <1>4, FirstIsOne
<1>6. /\ r = Crash => Successor(u) = Crash
      /\ r # Crash => Successor(u) = Node(m.key, m.data, u.red, u.left, r)
      /\ m.key \in Keys /\ m.data \in Data
  BY SuccessorIs
<1>7. /\ r # Crash /\ Holds(r, R \ {e}) /\ Bal(r, h) /\ (Red(r) => Red(u.right))
  BY <1>3 DEF Left
<1> HIDE DEF m, r
<1>8. Successor(u) = Node(m.key, m.data, u.red, u.left, r)
  BY <1>6, <1>7
<1>9. u.key < m.key /\ m.key \in Int
  <2>1. Entry(m) \in R
    BY <1>4 DEF First
  <2>2. u.key < m.key
    BY <1>2, <2>1 DEF Above, Entry
  <2> QED BY <1>6, <2>2, TreeAssumption
<1>10. Below(L, m.key)
  BY <1>1, <1>2, <1>9, BelowAbove
<1>11. Above(R \ {e}, m.key)
  BY <1>3, <1>5 DEF First, Above, Entry
<1> HIDE DEF L, R
<1>12. LET v == FixUp(Node(m.key, m.data, u.red, u.left, r)) IN
         Holds(v, L \cup {<<m.key, m.data>>} \cup (R \ {e})) /\ v # Crash
  BY <1>1, <1>2, <1>6, <1>7, <1>10, <1>11, FixUpHolds
<1>13. L \cup {<<m.key, m.data>>} \cup (R \ {e}) = L \cup R
  BY <1>3, <1>5 DEF First, Entry
<1>14. L \cup R = Without(Entries[u], u.key)
  BY <1>1, WithoutAt DEF L, R
<1>15. Kept(t, n, FixUp(Node(m.key, m.data, u.red, u.left, r)))
  BY <1>6, <1>7 DEF RightBack
<1> QED BY <1>8, <1>12, <1>13, <1>14, <1>15, NodeIsNotNil

\* A step to the right, or the node itself.
LEMMA RemovedRight ==
  ASSUME NEW t \in Trees, t # Nil, Ordered[t], NEW n, Bal(t, n),
         NEW k \in Keys, ~(k < t.key), RemovedBelow(t, k)
  PROVE  Removed(t, n, k, Delete[t][k])
<1> DEFINE i == n - 1 + t.red
           v == Delete[t][k]
           w == LeanRight(t)
           d == DeleteRight(Delete, w, k, k = t.key)
<1>1. t \in AllTrees /\ t.key \in Int /\ k \in Int /\ t.red \in {0, 1}
  BY TreesAreTrees, Parts, TreeAssumption
<1>2. Kids(t, i) /\ ~TwoReds(t) /\ i \in Nat
  BY KeptBal
<1>3. v = IF d = Nil THEN Nil ELSE FixUp(d)
  BY DeleteDef DEF DeleteAt
<1>4. w.key <= t.key
  BY <1>1, LeanRightKey
<1>5. CASE w.right = Nil
  <2>1. ~Red(t.left) /\ w = t
    BY <1>5, LeanRightIs DEF LeanRight
  <2>2. t.right = Nil /\ t.left = Nil /\ i = 0
    BY <1>2, <1>5, <2>1, Bottom
  <2>3. Entries[t.left] = {} /\ Entries[t.right] = {}
    BY <2>2, EntriesDef
  <2>4. Entries[t] = {<<t.key, t.data>>}
    BY <1>1, <2>3, OfParts
  <2>5. CASE k = t.key
    <3>1. v = Nil
      BY <1>3, <1>5, <2>5 DEF DeleteRight
    <3>2. Without(Entries[t], k) = {}
      BY <2>4, <2>5 DEF Without
    <3>3. ASSUME Thick(t)
          PROVE  n = 0
      <4>1. Red(t) /\ t.red = 1
        BY <2>1, <3>3 DEF Thick, Red
      <4> QED BY <2>2, <4>1 DEF Bal
    <3>4. Bal(Nil, 0) /\ ~Red(Nil) /\ Holds(Nil, {}) /\ Nil # Crash
      BY BalNil, NilHolds
    <3> QED BY <3>1, <3>2, <3>3, <3>4 DEF Removed
  <2>6. CASE k # t.key
    <3>1. d = Crash
      BY <1>5, <2>6 DEF DeleteRight, MakeRed
    <3>2. v = Crash
      BY <1>3, <3>1, NodeIsNotNil DEF FixUp
    <3>3. \A x \in Entries[t] : x[1] # k
      BY <2>4, <2>6
    <3> QED BY <3>2, <3>3 DEF Removed
  <2> QED BY <2>5, <2>6
<1>6. CASE w.right # Nil
  <2> DEFINE u == MakeRed(w, w.right)
             r == Delete[u.right][k]
             L == Entries[u.left]
             R == Entries[u.right]
             x == <<u.key, u.data>>
  <2>1. /\ u # Crash /\ Same(t, u) /\ u.right # Nil /\ Thick(u.right)
        /\ \E h \in Nat : Bal(u.right, h) /\ RightBack(t, i, u, h)
        /\ u.key = w.key
    BY <1>2, <1>6, DownRight
  <2>2. u.right \in Trees /\ SizeOf[u.right] < SizeOf[t]
    BY <2>1, MakeRedRight
  <2>3. d = IF u.key = k THEN Successor(u) ELSE WithRight(u, Delete[u.right][k])
    BY <1>6, <2>1 DEF DeleteRight
  <2> HIDE DEF u, i, v, w, d
  <2>4. PICK h \in Nat : Bal(u.right, h) /\ RightBack(t, i, u, h)
    BY <2>1
  <2>5. u \in AllTrees /\ u # Nil /\ Ordered[u] /\ Entries[u] = Entries[t]
    BY <2>1 DEF Same
  <2>6. u.key \in Keys /\ u.data \in Data /\ u.red \in {0, 1}
    BY <2>5, Parts
  <2>7. u.key = k \/ u.key < k
    <3>1. u.key \in Int
      BY <2>6, TreeAssumption
    <3> QED BY <1>1, <1>4, <2>1, <3>1
  <2>8. CASE u.key = k
    <3>1. /\ d # Nil /\ FixUp(d) # Crash /\ Holds(FixUp(d), Without(Entries[u], k))
          /\ Kept(t, i, FixUp(d))
      BY <2>1, <2>2, <2>3, <2>4, <2>5, <2>8, SuccessorHolds
    <3>2. v = FixUp(d)
      BY <1>3, <3>1 DEF v, d, w
    <3> QED BY <2>5, <3>1, <3>2, NodeRemoved DEF i, v
  <2>9. CASE u.key < k
    <3>1. /\ R \in SUBSET (Keys \X Data) /\ Below(L, u.key) /\ Above(Without(R, k), u.key)
          /\ Entries[u] = L \cup {x} \cup R /\ Holds(u.left, L)
          /\ Without(Entries[u], k) = L \cup {x} \cup Without(R, k)
          /\ Ordered[u.right]
      BY <2>5, <2>9, EntryParts, WithoutAt DEF Holds
    <3>2. Removed(u.right, h, k, r)
      BY <2>1, <2>2, <2>4, <3>1 DEF RemovedBelow
    <3>3. r \in Maybe
      BY <2>2, DeleteDef
    <3>4. d = WithRight(u, r)
      <4>1. u.key # k
        BY <1>1, <2>6, <2>9, TreeAssumption
      <4> QED BY <2>3, <4>1
    <3> HIDE DEF r, L, R, x
    <3>5. CASE r = Crash
      <4>1. d = Crash /\ FixUp(Crash) = Crash /\ Crash # Nil
        BY <2>5, <3>3, <3>4, <3>5, FixUpWith, NodeIsNotNil
      <4>2. v = Crash
        BY <1>3, <4>1 DEF v, d, w
      <4>3. ~Holds(Crash, Without(R, k))
        <5>1. Crash \notin AllTrees
          BY Parts, NodeIsNotNil
        <5> QED BY <5>1 DEF Holds
      <4>4. \A y \in R : y[1] # k
        BY <3>2, <3>5 DEF Removed, R
      <4>5. Without(Entries[t], k) = Entries[t]
        BY <2>5, <3>1, <4>4, AbsentIs
      <4> QED BY <4>2, <4>5, AbsentIs DEF Removed, v
    <3>6. CASE r # Crash
      <4>1. Holds(r, Without(R, k)) /\ Bal(r, h) /\ (Red(r) => Red(u.right))
        BY <2>1, <3>2, <3>6 DEF Removed, R
      <4>2. d = Node(u.key, u.data, u.red, u.left, r) /\ d # Nil
        BY <2>5, <3>3, <3>4, <3>6, FixUpWith, NodeIsNotNil
      <4>3. v = FixUp(Node(u.key, u.data, u.red, u.left, r))
        BY <1>3, <4>2 DEF v, d, w
      <4>4. Holds(v, L \cup {<<u.key, u.data>>} \cup Without(R, k)) /\ v # Crash
        BY <2>6, <3>1, <4>1, <4>3, FixUpHolds
      <4>5. Holds(v, Without(Entries[t], k))
        BY <2>5, <3>1, <4>4 DEF x
      <4>6. Kept(t, i, v)
        BY <2>4, <2>6, <4>1, <4>3 DEF RightBack
      <4> QED BY <4>4, <4>5, <4>6, NodeRemoved DEF i, v
    <3> QED BY <3>5, <3>6
  <2> QED BY <2>7, <2>8, <2>9
<1> QED BY <1>5, <1>6

\* delete removes its key's entry and keeps the balance but for the root's colour;
\* it crashes only if the key is not there.
LEMMA DeleteIs ==
  ASSUME NEW t0 \in Trees, t0 # Nil, Ordered[t0], NEW n0, Bal(t0, n0), NEW k \in Keys
  PROVE  Removed(t0, n0, k, Delete[t0][k])
<1> DEFINE P == {t \in Trees : t # Nil /\ Ordered[t] => \A n : Bal(t, n) => Removed(t, n, k, Delete[t][k])}
           m == [t \in Trees |-> SizeOf[t]]
<1>1. ASSUME NEW t \in Trees, \A s \in Trees : m[s] < m[t] => s \in P
      PROVE  t \in P
  <2>1. RemovedBelow(t, k)
    BY <1>1 DEF RemovedBelow
  <2> QED BY <2>1, RemovedLeft, RemovedRight
<1>2. m \in [Trees -> Nat]
  BY TreesAreTrees, SizeOfDef
<1> HIDE DEF P, m
<1>3. Trees \subseteq P
  BY <1>1, <1>2, MeasureInduction
<1> QED BY <1>3 DEF P

-----------------------------------------------------------------------------
(***************************************************************************)
(* An ordered tree has a node for each of its keys, and so it fits in      *)
(* Trees; find and rb_foreach.                                             *)
(***************************************************************************)
\* A search tree has as many nodes as keys.
KeysOf(t) == {e[1] : e \in Entries[t]}

\* The keys on the two sides of a node differ, and differ from its own.
LEMMA KeysOfParts ==
  ASSUME NEW t \in AllTrees, t # Nil, Ordered[t]
  PROVE  /\ KeysOf(t) = KeysOf(t.left) \cup {t.key} \cup KeysOf(t.right)
         /\ t.key \notin KeysOf(t.left) /\ t.key \notin KeysOf(t.right)
         /\ KeysOf(t.left) \cap KeysOf(t.right) = {}
         /\ KeysOf(t) \subseteq Keys
<1> DEFINE L == Entries[t.left]
           R == Entries[t.right]
           x == <<t.key, t.data>>
<1>1. /\ L \in SUBSET (Keys \X Data) /\ R \in SUBSET (Keys \X Data)
      /\ x \in Keys \X Data /\ x[1] = t.key
      /\ Below(L, t.key) /\ Above(R, t.key)
      /\ Entries[t] = L \cup {x} \cup R
  BY EntryParts
<1>2. t.key \in Int
  BY <1>1, TreeAssumption
<1>3. \A y \in L : y[1] \in Int /\ y[1] < t.key
  BY <1>1, TreeAssumption DEF Below
<1>4. \A y \in R : y[1] \in Int /\ t.key < y[1]
  BY <1>1, TreeAssumption DEF Above
<1> HIDE DEF L, R, x
<1>5. KeysOf(t) = {e[1] : e \in L} \cup {t.key} \cup {e[1] : e \in R}
  BY <1>1 DEF KeysOf
<1>6. t.key \notin {e[1] : e \in L} /\ t.key \notin {e[1] : e \in R}
  BY <1>2, <1>3, <1>4
<1>7. {e[1] : e \in L} \cap {e[1] : e \in R} = {}
  <2>1. \A a \in L, b \in R : a[1] # b[1]
    BY <1>2, <1>3, <1>4
  <2> QED BY <2>1
<1>8. KeysOf(t) \subseteq Keys
  BY <1>1 DEF KeysOf
<1> QED BY <1>5, <1>6, <1>7, <1>8 DEF KeysOf, L, R

\* One node for each key.
LEMMA SizeIsKeys ==
  ASSUME NEW t0 \in AllTrees, Ordered[t0]
  PROVE  IsFiniteSet(KeysOf(t0)) /\ Cardinality(KeysOf(t0)) = SizeOf[t0]
<1> DEFINE P == {t \in AllTrees : Ordered[t] => IsFiniteSet(KeysOf(t)) /\ Cardinality(KeysOf(t)) = SizeOf[t]}
<1>1. Nil \in P
  <2>1. KeysOf(Nil) = {} /\ SizeOf[Nil] = 0
    BY EntriesDef, SizeOfDef DEF KeysOf
  <2> QED BY <2>1, NilIsTree, FS_EmptySet
<1>2. ASSUME NEW t \in AllTrees \ {Nil}, t.left \in P, t.right \in P
      PROVE  t \in P
  <2> SUFFICES ASSUME Ordered[t]
               PROVE  IsFiniteSet(KeysOf(t)) /\ Cardinality(KeysOf(t)) = SizeOf[t]
    OBVIOUS
  <2> DEFINE A == KeysOf(t.left)
             B == KeysOf(t.right)
             k == t.key
  <2>1. Ordered[t.left] /\ Ordered[t.right] /\ SizeOf[t] = 1 + SizeOf[t.left] + SizeOf[t.right]
    BY OfParts
  <2>2. SizeOf[t.left] \in Nat /\ SizeOf[t.right] \in Nat
    BY <1>2, SizeOfDef
  <2>3. /\ IsFiniteSet(A) /\ Cardinality(A) = SizeOf[t.left]
        /\ IsFiniteSet(B) /\ Cardinality(B) = SizeOf[t.right]
    BY <1>2, <2>1
  <2>4. KeysOf(t) = A \cup {k} \cup B /\ k \notin A /\ k \notin B /\ A \cap B = {}
    BY KeysOfParts
  <2> HIDE DEF A, B, k
  <2>5. IsFiniteSet(A \cup {k}) /\ Cardinality(A \cup {k}) = SizeOf[t.left] + 1
    BY <2>3, <2>4, FS_AddElement
  <2>6. (A \cup {k}) \cap B = {}
    BY <2>4
  <2>7. IsFiniteSet(A \cup {k} \cup B)
        /\ Cardinality(A \cup {k} \cup B) = Cardinality(A \cup {k}) + Cardinality(B)
    <3>1. /\ IsFiniteSet((A \cup {k}) \cup B)
          /\ Cardinality((A \cup {k}) \cup B)
               = Cardinality(A \cup {k}) + Cardinality(B) - Cardinality((A \cup {k}) \cap B)
      BY <2>3, <2>5, FS_Union
    <3>2. Cardinality((A \cup {k}) \cap B) = 0
      BY <2>6, FS_EmptySet
    <3> QED BY <2>2, <2>3, <2>5, <3>1, <3>2
  <2> QED BY <2>1, <2>2, <2>3, <2>4, <2>5, <2>7
<1>3. AllTrees \subseteq P
  <2> HIDE DEF P
  <2> QED BY <1>1, <1>2, TreeInduction
<1> QED BY <1>3

\* ... and no more levels than nodes.
LEMMA LevelIsSize ==
  ASSUME NEW t0 \in AllTrees
  PROVE  t0 \in TreesTo[SizeOf[t0]]
<1> DEFINE P == {t \in AllTrees : t \in TreesTo[SizeOf[t]]}
<1>1. Nil \in P
  BY NilIsTree, NilAt, SizeOfDef
<1>2. ASSUME NEW t \in AllTrees \ {Nil}, t.left \in P, t.right \in P
      PROVE  t \in P
  <2> DEFINE i == SizeOf[t.left]
             j == SizeOf[t.right]
  <2>1. SizeOf[t] = 1 + i + j /\ i \in Nat /\ j \in Nat
    BY <1>2, SizeOfDef
  <2>2. t.left \in TreesTo[i] /\ t.right \in TreesTo[j]
    BY <1>2
  <2> HIDE DEF i, j
  <2>3. i + j \in Nat /\ i <= i + j /\ j <= i + j /\ (i + j) + 1 = SizeOf[t]
    BY <2>1
  <2>4. t.left \in TreesTo[i + j] /\ t.right \in TreesTo[i + j]
    BY <2>1, <2>2, <2>3, TreesMonotone
  <2>5. t.key \in Keys /\ t.data \in Data /\ t.red \in {0, 1}
    BY Parts
  <2>6. Node(t.key, t.data, t.red, t.left, t.right) \in TreesTo[(i + j) + 1]
    BY <2>3, <2>4, <2>5, NodeAt
  <2>7. t = Node(t.key, t.data, t.red, t.left, t.right)
    BY Parts
  <2>8. t \in TreesTo[(i + j) + 1]
    BY <2>6, <2>7, Zenon
  <2> QED BY <2>3, <2>8
<1>3. AllTrees \subseteq P
  <2> HIDE DEF P
  <2> QED BY <1>1, <1>2, TreeInduction
<1> QED BY <1>3

\* An ordered tree is one of the model's.
LEMMA OrderedFits ==
  ASSUME NEW t \in AllTrees, Ordered[t]
  PROVE  t \in Trees
<1>1. KeysOf(t) \subseteq Keys
  BY EntriesDef DEF KeysOf
<1>2. IsFiniteSet(KeysOf(t)) /\ Cardinality(KeysOf(t)) = SizeOf[t]
  BY SizeIsKeys
<1>3. Cardinality(KeysOf(t)) <= Cardinality(Keys)
  BY <1>1, TreeAssumption, FS_Subset
<1>4. SizeOf[t] \in Nat /\ Cardinality(Keys) \in Nat
  BY SizeOfDef, KeysCount
<1>5. t \in TreesTo[SizeOf[t]] /\ SizeOf[t] <= Cardinality(Keys)
  BY <1>2, <1>3, LevelIsSize
<1> QED BY <1>4, <1>5, TreesMonotone DEF Trees

-----------------------------------------------------------------------------
\* Find finds what the tree holds.
LEMMA FindIs ==
  ASSUME NEW t0 \in Trees, Ordered[t0], NEW k \in Keys
  PROVE  /\ \A d : <<k, d>> \in Entries[t0] => Find[t0][k] = d
         /\ (\A e \in Entries[t0] : e[1] # k) => Find[t0][k] = Nil
<1> DEFINE Found(t) == /\ \A d : <<k, d>> \in Entries[t] => Find[t][k] = d
                       /\ (\A e \in Entries[t] : e[1] # k) => Find[t][k] = Nil
           P == {t \in Trees : Ordered[t] => Found(t)}
<1>1. Nil \in P
  BY FindDef, EntriesDef, TreesAreTrees
<1>2. ASSUME NEW t \in Trees \ {Nil}, t.left \in P, t.right \in P
      PROVE  t \in P
  <2> SUFFICES ASSUME Ordered[t]
               PROVE  Found(t)
    OBVIOUS
  <2> DEFINE L == Entries[t.left]
             R == Entries[t.right]
             x == <<t.key, t.data>>
  <2>1. t \in AllTrees
    BY TreesAreTrees
  <2>2. /\ L \in SUBSET (Keys \X Data) /\ R \in SUBSET (Keys \X Data)
        /\ Below(L, t.key) /\ Above(R, t.key)
        /\ Entries[t] = L \cup {x} \cup R
        /\ Ordered[t.left] /\ Ordered[t.right]
    BY <2>1, EntryParts DEF Holds
  <2>3. t.key \in Int /\ k \in Int
    BY <2>1, Parts, TreeAssumption
  <2>4. Find[t][k] = IF k = t.key THEN t.data
                     ELSE IF k < t.key THEN Find[t.left][k] ELSE Find[t.right][k]
    BY FindDef
  <2>5. Found(t.left) /\ Found(t.right)
    BY <1>2, <2>2
  <2>6. ASSUME NEW d
        PROVE  /\ <<k, d>> \in L => k < t.key
               /\ <<k, d>> \in R => t.key < k
               /\ <<k, d>> = x => k = t.key /\ d = t.data
    BY <2>2 DEF Below, Above
  <2>7. x[1] = t.key
    OBVIOUS
  <2> HIDE DEF L, R, x
  <2>8. CASE k = t.key
    BY <2>2, <2>3, <2>4, <2>6, <2>7, <2>8
  <2>9. CASE k < t.key
    BY <2>2, <2>3, <2>4, <2>5, <2>6, <2>9 DEF L
  <2>10. CASE t.key < k
    BY <2>2, <2>3, <2>4, <2>5, <2>6, <2>10 DEF R
  <2> QED BY <2>3, <2>8, <2>9, <2>10
<1>3. Trees \subseteq P
  <2> HIDE DEF P
  <2> QED BY <1>1, <1>2, ClosedSets, ClosedInduction
<1> QED BY <1>3

\* What rb_foreach comes to: the entries, in order, one for each node.
InOrder(s, E) ==
  /\ \A i \in 1..Len(s) : s[i] \in E
  /\ \A i, j \in 1..Len(s) : i < j => s[i][1] < s[j][1]

LEMMA Joined ==
  ASSUME NEW S, NEW a \in Seq(S), NEW b \in Seq(S), NEW x \in S
  PROVE  LET s == a \o <<x>> \o b IN
           /\ Len(s) = Len(a) + 1 + Len(b)
           /\ \A i \in 1..Len(s) : s[i] = IF i <= Len(a) THEN a[i]
                                         ELSE IF i = Len(a) + 1 THEN x ELSE b[i - Len(a) - 1]
OBVIOUS

LEMMA TraverseIs ==
  ASSUME NEW t0 \in Trees, Ordered[t0]
  PROVE  Len(Traverse[t0]) = Size[t0] /\ InOrder(Traverse[t0], Entries[t0])
<1> DEFINE P == {t \in Trees : Ordered[t] => Len(Traverse[t]) = Size[t] /\ InOrder(Traverse[t], Entries[t])}
<1>1. Nil \in P
  BY TraverseDef, SizeDef, TreesAreTrees DEF InOrder
<1>2. ASSUME NEW t \in Trees \ {Nil}, t.left \in P, t.right \in P
      PROVE  t \in P
  <2> SUFFICES ASSUME Ordered[t]
               PROVE  Len(Traverse[t]) = Size[t] /\ InOrder(Traverse[t], Entries[t])
    OBVIOUS
  <2> DEFINE L == Entries[t.left]
             R == Entries[t.right]
             x == <<t.key, t.data>>
             a == Traverse[t.left]
             b == Traverse[t.right]
             s == a \o <<x>> \o b
  <2>1. t \in AllTrees /\ t.left \in Trees /\ t.right \in Trees
    BY TreesAreTrees
  <2>2. /\ L \in SUBSET (Keys \X Data) /\ R \in SUBSET (Keys \X Data)
        /\ x \in Keys \X Data
        /\ Below(L, t.key) /\ Above(R, t.key) /\ x[1] = t.key
        /\ Entries[t] = L \cup {x} \cup R
        /\ Ordered[t.left] /\ Ordered[t.right]
    BY <2>1, EntryParts DEF Holds
  <2>3. t.key \in Int
    BY <2>1, Parts, TreeAssumption
  <2>4. /\ Traverse[t] = s /\ a \in Seq(Keys \X Data) /\ b \in Seq(Keys \X Data)
        /\ Size[t] = 1 + Size[t.left] + Size[t.right]
        /\ Size[t.left] \in Nat /\ Size[t.right] \in Nat
    BY <2>1, TraverseDef, SizeDef DEF Entry
  <2>5. /\ Len(a) = Size[t.left] /\ InOrder(a, L)
        /\ Len(b) = Size[t.right] /\ InOrder(b, R)
    BY <1>2, <2>2
  <2> HIDE DEF L, R, x, a, b
  <2>6. /\ Len(s) = Len(a) + 1 + Len(b)
        /\ \A i \in 1..Len(s) : s[i] = IF i <= Len(a) THEN a[i]
                                      ELSE IF i = Len(a) + 1 THEN x ELSE b[i - Len(a) - 1]
    BY <2>2, <2>4, Joined
  <2> HIDE DEF s
  <2>7. Len(a) \in Nat /\ Len(b) \in Nat
    BY <2>4
  <2>8. ASSUME NEW i \in 1..Len(s)
        PROVE  /\ i <= Len(a) => s[i] \in L /\ i \in 1..Len(a) /\ s[i] = a[i] /\ s[i][1] < t.key
               /\ i = Len(a) + 1 => s[i] = x
               /\ i > Len(a) + 1 => /\ s[i] \in R /\ i - Len(a) - 1 \in 1..Len(b)
                                    /\ s[i] = b[i - Len(a) - 1] /\ t.key < s[i][1]
    <3>1. i <= Len(a) => i \in 1..Len(a) /\ s[i] = a[i]
      BY <2>6, <2>7
    <3>2. i > Len(a) + 1 => i - Len(a) - 1 \in 1..Len(b) /\ s[i] = b[i - Len(a) - 1]
      BY <2>6, <2>7
    <3>3. i = Len(a) + 1 => s[i] = x
      BY <2>6, <2>7
    <3> QED BY <2>2, <2>5, <3>1, <3>2, <3>3 DEF InOrder, Below, Above
  <2>9. \A y \in L \cup {x} \cup R : y[1] \in Int
    BY <2>2, TreeAssumption
  <2>10. \A i \in 1..Len(s) : s[i] \in L \cup {x} \cup R
    BY <2>7, <2>8
  <2>11. ASSUME NEW i \in 1..Len(s), NEW j \in 1..Len(s), i < j
         PROVE  s[i][1] < s[j][1]
    <3>1. s[i][1] \in Int /\ s[j][1] \in Int
      BY <2>9, <2>10
    <3>2. CASE j <= Len(a)
      BY <2>5, <2>7, <2>8, <2>11, <3>2 DEF InOrder
    <3>3. CASE i <= Len(a) /\ j > Len(a)
      <4>1. s[i][1] < t.key
        BY <2>8, <3>3
      <4>2. s[j][1] = t.key \/ t.key < s[j][1]
        BY <2>2, <2>7, <2>8, <3>3
      <4> QED BY <2>3, <3>1, <4>1, <4>2
    <3>4. CASE i = Len(a) + 1
      BY <2>2, <2>7, <2>8, <2>11, <3>4
    <3>5. CASE i > Len(a) + 1
      <4>1. /\ i - Len(a) - 1 \in 1..Len(b) /\ j - Len(a) - 1 \in 1..Len(b)
            /\ s[i] = b[i - Len(a) - 1] /\ s[j] = b[j - Len(a) - 1]
            /\ i - Len(a) - 1 < j - Len(a) - 1
        BY <2>7, <2>8, <2>11, <3>5
      <4> QED BY <2>5, <4>1 DEF InOrder
    <3> QED BY <2>7, <3>2, <3>3, <3>4, <3>5
  <2>12. Len(s) = Size[t]
    BY <2>4, <2>5, <2>6
  <2> QED BY <2>2, <2>4, <2>10, <2>11, <2>12 DEF InOrder
<1>3. Trees \subseteq P
  <2> HIDE DEF P
  <2> QED BY <1>1, <1>2, ClosedSets, ClosedInduction
<1> QED BY <1>3

-----------------------------------------------------------------------------
(***************************************************************************)
(* The calls.                                                              *)
(***************************************************************************)
\* rb->root->red = 0: the root is the one node whose colour may be wrong.
LEMMA Repainted ==
  ASSUME NEW u, NEW E, Holds(u, E), NEW i, Kids(u, i)
  PROVE  /\ Paint(u, 0) \in Trees /\ Holds(Paint(u, 0), E)
         /\ \E n : Bal(Paint(u, 0), n)
<1>1. /\ u \in AllTrees /\ u # Nil /\ Bal(u.left, i) /\ Bal(u.right, i) /\ ~Red(u.right)
      /\ Ordered[u] /\ Entries[u] = E
  BY DEF Holds, Kids
<1>2. u.key \in Keys /\ u.data \in Data
  BY <1>1, Parts
<1>3. Paint(u, 0) = Node(u.key, u.data, 0, u.left, u.right)
  BY <1>1, PaintIs
<1>4. Bal(Node(u.key, u.data, 0, u.left, u.right), i + 1)
  BY <1>1, <1>2, NodeKids
<1>5. \E n : Bal(Paint(u, 0), n)
  BY <1>3, <1>4, Zenon
<1>6. Same(u, Paint(u, 0))
  BY <1>1, PaintSame
<1>7. Paint(u, 0) \in AllTrees /\ Ordered[Paint(u, 0)] /\ Entries[Paint(u, 0)] = E
  BY <1>1, <1>6 DEF Same
<1> QED BY <1>5, <1>7, OrderedFits DEF Holds

-----------------------------------------------------------------------------
\* The tree holds the map f.
Mirrors(t, f) ==
  /\ f \in [DOMAIN f -> Data] /\ DOMAIN f \subseteq Keys
  /\ \A k \in Keys, d \in Data : <<k, d>> \in Entries[t] <=> k \in DOMAIN f /\ f[k] = d

\* The map and the entries change alike.
LEMMA MirrorsPut ==
  ASSUME NEW t \in AllTrees, NEW u \in AllTrees, NEW f, Mirrors(t, f),
         NEW k \in Keys, NEW d \in Data, Entries[u] = Put(Entries[t], <<k, d>>)
  PROVE  Mirrors(u, [l \in DOMAIN f \cup {k} |-> IF l = k THEN d ELSE f[l]])
<1> DEFINE g == [l \in DOMAIN f \cup {k} |-> IF l = k THEN d ELSE f[l]]
<1>1. g \in [DOMAIN g -> Data] /\ DOMAIN g = DOMAIN f \cup {k}
  BY DEF Mirrors
<1>2. ASSUME NEW l \in Keys, NEW c \in Data
      PROVE  <<l, c>> \in Entries[u] <=> l \in DOMAIN g /\ g[l] = c
  <2>1. <<l, c>> \in Entries[u] <=> (l # k /\ <<l, c>> \in Entries[t]) \/ (l = k /\ c = d)
    BY DEF Put, Without
  <2>2. CASE l = k
    BY <2>1, <2>2
  <2>3. CASE l # k
    BY <2>1, <2>3 DEF Mirrors
  <2> QED BY <2>2, <2>3
<1> QED BY <1>1, <1>2 DEF Mirrors

LEMMA MirrorsWithout ==
  ASSUME NEW t \in AllTrees, NEW u \in AllTrees, NEW f, Mirrors(t, f),
         NEW k \in Keys, Entries[u] = Without(Entries[t], k)
  PROVE  Mirrors(u, [l \in DOMAIN f \ {k} |-> f[l]])
<1> DEFINE g == [l \in DOMAIN f \ {k} |-> f[l]]
<1>1. g \in [DOMAIN g -> Data] /\ DOMAIN g = DOMAIN f \ {k}
  BY DEF Mirrors
<1>2. ASSUME NEW l \in Keys, NEW c \in Data
      PROVE  <<l, c>> \in Entries[u] <=> l \in DOMAIN g /\ g[l] = c
  <2>1. <<l, c>> \in Entries[u] <=> l # k /\ <<l, c>> \in Entries[t]
    BY DEF Without
  <2> QED BY <2>1 DEF Mirrors
<1> QED BY <1>1, <1>2 DEF Mirrors

LEMMA MirrorsKeys ==
  ASSUME NEW t \in AllTrees, NEW f, Mirrors(t, f)
  PROVE  DOMAIN f = KeysOf(t)
<1>1. ASSUME NEW k \in DOMAIN f
      PROVE  k \in KeysOf(t)
  <2>1. <<k, f[k]>> \in Entries[t]
    BY <1>1 DEF Mirrors
  <2> QED BY <2>1 DEF KeysOf
<1>2. ASSUME NEW e \in Entries[t]
      PROVE  e[1] \in DOMAIN f
  <2>1. e \in Keys \X Data
    BY EntriesType
  <2>2. <<e[1], e[2]>> \in Entries[t] /\ e[1] \in Keys /\ e[2] \in Data
    BY <2>1
  <2> QED BY <2>2 DEF Mirrors
<1> QED BY <1>1, <1>2 DEF KeysOf

-----------------------------------------------------------------------------
\* What each call leaves, unless it has crashed.
Good(t, f) == t \in Trees /\ Ordered[t] /\ (\E n : Bal(t, n)) /\ Mirrors(t, f)

TreeInv == crashed \in BOOLEAN /\ (~crashed => Good(tree, dict))

\* The calls, one by one.
LEMMA GoodNil == Good(Nil, [k \in {} |-> Nil])
<1>1. Mirrors(Nil, [k \in {} |-> Nil])
  BY EntriesDef DEF Mirrors
<1> QED BY <1>1, BalNil, OrderedDef, TreesAreTrees DEF Good

LEMMA Inserted ==
  ASSUME NEW t \in Trees, Ordered[t], NEW n, Bal(t, n), NEW e \in Keys \X Data
  PROVE  LET v == Paint(Insert[t][e], 0) IN
           /\ v \in Trees /\ v \in AllTrees /\ Ordered[v] /\ (\E m : Bal(v, m))
           /\ Entries[v] = Put(Entries[t], e)
<1> DEFINE u == Insert[t][e]
           v == Paint(u, 0)
<1>1. Almost(u, n)
  BY InsertBal
<1>2. Holds(u, Put(Entries[t], e))
  BY InsertHolds
<1>3. u # Nil
  BY InsertDef
<1> HIDE DEF u
<1>4. \E i : Kids(u, i)
  BY <1>1, <1>3, BalKids DEF Almost
<1>5. v \in Trees /\ Holds(v, Put(Entries[t], e)) /\ \E m : Bal(v, m)
  BY <1>2, <1>4, Repainted
<1> HIDE DEF v
<1>6. v \in AllTrees /\ Ordered[v] /\ Entries[v] = Put(Entries[t], e)
  BY <1>5 DEF Holds
<1> QED BY <1>5, <1>6 DEF u, v

LEMMA GoodInsert ==
  ASSUME NEW t, NEW f, Good(t, f), NEW k \in Keys, NEW d \in Data
  PROVE  Good(Paint(Insert[t][<<k, d>>], 0),
              [l \in DOMAIN f \cup {k} |-> IF l = k THEN d ELSE f[l]])
<1> DEFINE e == <<k, d>>
           v == Paint(Insert[t][e], 0)
           g == [l \in DOMAIN f \cup {k} |-> IF l = k THEN d ELSE f[l]]
<1>1. t \in Trees /\ t \in AllTrees /\ Ordered[t] /\ Mirrors(t, f) /\ e \in Keys \X Data
  BY TreesAreTrees DEF Good
<1>2. PICK n : Bal(t, n)
  BY DEF Good
<1> HIDE DEF e
<1>3. /\ v \in Trees /\ v \in AllTrees /\ Ordered[v] /\ (\E m : Bal(v, m))
      /\ Entries[v] = Put(Entries[t], e)
  BY <1>1, <1>2, Inserted
<1> HIDE DEF v
<1>4. Mirrors(v, g)
  BY <1>1, <1>3, MirrorsPut DEF e
<1> HIDE DEF g
<1>5. Good(v, g)
  BY <1>3, <1>4 DEF Good
<1> QED BY <1>5 DEF v, g, e

\* A deletion crashes if its key is not there or was the last one.
LEMMA GoodDelete ==
  ASSUME NEW t, NEW f, Good(t, f), NEW k \in Keys
  PROVE  LET v == Delete[t][k]
             g == [l \in DOMAIN f \ {k} |-> f[l]]
         IN /\ v \in {Nil, Crash} => g = f \/ DOMAIN g = {}
            /\ v \notin {Nil, Crash} => Good(Paint(v, 0), g)
<1> DEFINE v == Delete[t][k]
           g == [l \in DOMAIN f \ {k} |-> f[l]]
<1>1. t \in Trees /\ t \in AllTrees /\ Ordered[t] /\ Mirrors(t, f)
  BY TreesAreTrees DEF Good
<1>2. DOMAIN f = KeysOf(t) /\ f \in [DOMAIN f -> Data]
  BY <1>1, MirrorsKeys DEF Mirrors
<1>3. (\A x \in Entries[t] : x[1] # k) => g = f
  <2>1. (\A x \in Entries[t] : x[1] # k) => k \notin DOMAIN f
    BY <1>2 DEF KeysOf
  <2> QED BY <1>2, <2>1
<1>4. CASE t = Nil
  <2>1. v = Nil
    BY <1>4, DeleteDef
  <2>2. Entries[t] = {}
    BY <1>4, EntriesDef
  <2> QED BY <1>3, <2>1, <2>2
<1>5. CASE t # Nil
  <2>1. PICK n : Bal(t, n)
    BY DEF Good
  <2>2. Removed(t, n, k, v)
    BY <1>1, <1>5, <2>1, DeleteIs
  <2> HIDE DEF v, g
  <2>3. CASE v = Crash
    <3>1. \A x \in Entries[t] : x[1] # k
      BY <2>2, <2>3 DEF Removed
    <3> QED BY <1>3, <2>3, <3>1 DEF v, g
  <2>4. CASE v # Crash
    <3>1. Holds(v, Without(Entries[t], k)) /\ (v = Nil \/ \E i \in Nat : Kids(v, i))
      BY <2>2, <2>4 DEF Removed
    <3>2. v \in AllTrees /\ Entries[v] = Without(Entries[t], k)
      BY <3>1 DEF Holds
    <3>3. CASE v = Nil
      <4>1. Mirrors(v, g)
        BY <1>1, <3>2, MirrorsWithout DEF g
      <4>2. DOMAIN g = KeysOf(v)
        BY <3>2, <4>1, MirrorsKeys
      <4>3. KeysOf(v) = {}
        BY <3>3, EntriesDef DEF KeysOf
      <4> QED BY <3>3, <4>2, <4>3 DEF v, g
    <3>4. CASE v # Nil
      <4>1. PICK i \in Nat : Kids(v, i)
        BY <3>1, <3>4
      <4> DEFINE u == Paint(v, 0)
      <4>2. u \in Trees /\ Holds(u, Without(Entries[t], k)) /\ \E m : Bal(u, m)
        BY <3>1, <4>1, Repainted
      <4>3. u \in AllTrees /\ Ordered[u] /\ Entries[u] = Without(Entries[t], k)
        BY <4>2 DEF Holds
      <4> HIDE DEF u
      <4>4. Mirrors(u, g)
        BY <1>1, <4>3, MirrorsWithout DEF g
      <4>5. Good(u, g)
        BY <4>2, <4>3, <4>4 DEF Good
      <4> QED BY <2>4, <3>4, <4>5 DEF u, v, g
    <3> QED BY <3>3, <3>4
  <2> QED BY <2>3, <2>4
<1> QED BY <1>4, <1>5

-----------------------------------------------------------------------------
\* The invariant: the tree holds the map, in order and balanced, until a call crashes.
LEMMA TreeInvInit == Init => TreeInv
BY GoodNil DEF Init, TreeInv

LEMMA TreeInvNext == TreeInv /\ [Next]_vars => TreeInv'
<1> SUFFICES ASSUME TreeInv, [Next]_vars
             PROVE  TreeInv'
  OBVIOUS
<1>1. ASSUME NEW k \in Keys, NEW d \in Data, RBInsert(k, d)
      PROVE  TreeInv'
  <2>1. ~crashed /\ crashed' = crashed /\ Good(tree, dict)
    BY <1>1 DEF RBInsert, TreeInv
  <2>2. /\ tree' = Paint(Insert[tree][<<k, d>>], 0)
        /\ dict' = [l \in DOMAIN dict \cup {k} |-> IF l = k THEN d ELSE dict[l]]
    BY <1>1 DEF RBInsert
  <2>3. Good(Paint(Insert[tree][<<k, d>>], 0),
             [l \in DOMAIN dict \cup {k} |-> IF l = k THEN d ELSE dict[l]])
    BY <2>1, GoodInsert
  <2>4. Good(tree', dict')
    BY <2>2, <2>3, Zenon
  <2> QED BY <2>1, <2>4 DEF TreeInv, Good, Mirrors
<1>2. ASSUME NEW k \in Keys, RBDelete(k)
      PROVE  TreeInv'
  <2>1. ~crashed /\ Good(tree, dict)
    BY <1>2 DEF RBDelete, TreeInv
  <2>2. \/ crashed' = TRUE
        \/ /\ Delete[tree][k] \notin {Nil, Crash} /\ tree' = Paint(Delete[tree][k], 0)
           /\ crashed' = crashed /\ dict' = [l \in DOMAIN dict \ {k} |-> dict[l]]
    BY <1>2 DEF RBDelete
  <2>3. CASE crashed' = TRUE
    BY <2>3 DEF TreeInv
  <2>4. CASE /\ Delete[tree][k] \notin {Nil, Crash} /\ tree' = Paint(Delete[tree][k], 0)
             /\ crashed' = crashed /\ dict' = [l \in DOMAIN dict \ {k} |-> dict[l]]
    <3>1. Good(tree', dict')
      BY <2>1, <2>4, GoodDelete, Zenon
    <3> QED BY <2>1, <2>4, <3>1 DEF TreeInv, Good, Mirrors
  <2> QED BY <2>2, <2>3, <2>4
<1>3. CASE RBClear
  BY <1>3, GoodNil DEF RBClear, TreeInv, Good, Mirrors
<1>4. CASE UNCHANGED vars
  BY <1>4 DEF vars, TreeInv, Good, Mirrors
<1> QED BY <1>1, <1>2, <1>3, <1>4 DEF Next

\* Whatever the calls, until one crashes the tree is a balanced search tree that
\* holds the map they have built.
THEOREM TreeIsInvariant == Spec => []TreeInv
BY TreeInvInit, TreeInvNext, PTL DEF Spec

\* So rb_find returns the last data inserted for each key, and rb_foreach comes to
\* every key once and in order (rbtree.c:364-368).
THEOREM TreeFindsAll == Spec => []FindsAll
<1>1. TreeInv => FindsAll
  <2> SUFFICES ASSUME TreeInv, ~crashed
               PROVE  /\ \A k \in Keys : Find[tree][k] = IF k \in DOMAIN dict THEN dict[k] ELSE Nil
                      /\ \A i, j \in 1..Len(Traverse[tree]) : i < j =>
                           Traverse[tree][i][1] < Traverse[tree][j][1]
                      /\ Len(Traverse[tree]) = Cardinality(DOMAIN dict) /\ Size[tree] = Len(Traverse[tree])
    BY DEF FindsAll
  <2>1. tree \in Trees /\ tree \in AllTrees /\ Ordered[tree] /\ Mirrors(tree, dict)
    BY TreesAreTrees DEF TreeInv, Good
  <2>2. DOMAIN dict = KeysOf(tree)
    BY <2>1, MirrorsKeys
  <2>3. ASSUME NEW k \in Keys
        PROVE  Find[tree][k] = IF k \in DOMAIN dict THEN dict[k] ELSE Nil
    <3>1. CASE k \in DOMAIN dict
      <4>1. dict[k] \in Data /\ <<k, dict[k]>> \in Entries[tree]
        BY <2>1, <3>1 DEF Mirrors
      <4> QED BY <2>1, <3>1, <4>1, FindIs
    <3>2. CASE k \notin DOMAIN dict
      <4>1. \A e \in Entries[tree] : e[1] # k
        BY <2>2, <3>2 DEF KeysOf
      <4> QED BY <2>1, <3>2, <4>1, FindIs
    <3> QED BY <3>1, <3>2
  <2>4. Len(Traverse[tree]) = Size[tree] /\ InOrder(Traverse[tree], Entries[tree])
    BY <2>1, TraverseIs
  <2>5. Size[tree] = Cardinality(DOMAIN dict)
    BY <2>1, <2>2, SizeIsKeys, SizeAgree
  <2> QED BY <2>3, <2>4, <2>5 DEF InOrder
<1> QED BY <1>1, TreeIsInvariant, PTL

\* The tree stays a left-leaning red-black tree (rbtree.c:346, 360-361).
THEOREM TreeIsBalanced == Spec => []Balanced
<1>1. TreeInv => Balanced
  BY BlacksAgree DEF TreeInv, Good, Balanced, Bal
<1> QED BY <1>1, TreeIsInvariant, PTL

\* Only a deletion of a missing key, or of the last one, dereferences null
\* (rbtree.c:341, 360); what delete frees at the bottom has no left side
\* either, as its comment asks (rbtree.c:351).
THEOREM TreeDeleteIsSafe == Spec => DeleteIsSafe
<1>1. TreeInv /\ [Next]_vars => [crashed' => dict' = dict \/ DOMAIN dict' = {}]_vars
  <2> SUFFICES ASSUME TreeInv, Next, crashed'
               PROVE  dict' = dict \/ DOMAIN dict' = {}
    OBVIOUS
  <2>1. PICK k \in Keys : RBDelete(k)
    <3>1. ~crashed /\ \A k \in Keys, d \in Data : ~RBInsert(k, d)
      BY DEF Next, RBDelete, RBInsert, RBClear
    <3>2. ~RBClear
      BY <3>1 DEF RBClear
    <3> QED BY <3>1, <3>2 DEF Next
  <2>2. ~crashed /\ Good(tree, dict) /\ dict' = [l \in DOMAIN dict \ {k} |-> dict[l]]
    BY <2>1 DEF RBDelete, TreeInv
  <2>3. Delete[tree][k] \in {Nil, Crash}
    BY <2>1, <2>2 DEF RBDelete
  <2> QED BY <2>2, <2>3, GoodDelete, Zenon
<1> QED BY <1>1, TreeIsInvariant, PTL DEF Spec, DeleteIsSafe

-----------------------------------------------------------------------------
(***************************************************************************)
(* The iterator, and the copy that is made with it.                        *)
(***************************************************************************)
\* The iterator in the middle of its walk.
At(rs, t, s) == [rstack |-> rs, iter |-> t, seen |-> s]

\* One pass of rb_next.
LEMMA AtFields ==
  ASSUME NEW rs, NEW t, NEW s
  PROVE  /\ At(rs, t, s).rstack = rs /\ At(rs, t, s).iter = t /\ At(rs, t, s).seen = s
         /\ At(rs, t, s) \in Walks
              <=> (/\ rs \in Seq(Trees \ {Nil}) /\ t \in Trees /\ s \in Seq(Keys \X Data))
BY DEF At, Walks

LEMMA PassIs ==
  ASSUME NEW rs \in Seq(Trees \ {Nil}), NEW t \in Trees, t # Nil, NEW s \in Seq(Keys \X Data)
  PROVE  /\ Pass(At(rs, t, s)) = At(<<t>> \o rs, t.left, s)
         /\ Pass(At(<<t>> \o rs, Nil, s)) = At(rs, t.right, Append(s, Entry(t)))
         /\ Pass(At(<<>>, Nil, s)) = At(<<>>, Nil, s)
<1>1. Head(<<t>> \o rs) = t /\ Tail(<<t>> \o rs) = rs /\ <<t>> \o rs # <<>>
  <2> DEFINE T == Trees \ {Nil}
  <2>1. t \in T /\ rs \in Seq(T)
    OBVIOUS
  <2> HIDE DEF T
  <2> QED BY <2>1
<1>2. Pass(At(rs, t, s)) = At(<<t>> \o rs, t.left, s)
  BY DEF Pass, At
<1>3. Pass(At(<<t>> \o rs, Nil, s)) = At(rs, t.right, Append(s, Entry(t)))
  BY <1>1 DEF Pass, At
<1>4. Pass(At(<<>>, Nil, s)) = At(<<>>, Nil, s)
  BY DEF Pass, At
<1> QED BY <1>2, <1>3, <1>4

LEMMA PassType ==
  ASSUME NEW w \in Walks
  PROVE  Pass(w) \in Walks
<1> DEFINE T == Trees \ {Nil}
<1>1. /\ w.rstack \in Seq(T) /\ w.iter \in Trees /\ w.seen \in Seq(Keys \X Data)
      /\ Walks = [rstack : Seq(T), iter : Trees, seen : Seq(Keys \X Data)]
  BY DEF Walks
<1>2. T \subseteq Trees /\ \A t \in T : t.left \in Trees /\ t.right \in Trees /\ Entry(t) \in Keys \X Data
  BY TreesAreTrees, Parts DEF Entry
<1>3. w.iter # Nil => w.iter \in T
  BY <1>1
<1> HIDE DEF T
<1>4. CASE w.iter # Nil
  <2>1. <<w.iter>> \o w.rstack \in Seq(T)
    BY <1>1, <1>3, <1>4
  <2> QED BY <1>1, <1>2, <1>3, <1>4, <2>1 DEF Pass
<1>5. CASE w.iter = Nil /\ w.rstack = <<>>
  BY <1>5 DEF Pass
<1>6. CASE w.iter = Nil /\ w.rstack # <<>>
  <2>1. Head(w.rstack) \in T /\ Tail(w.rstack) \in Seq(T)
    BY <1>1, <1>6
  <2>2. Append(w.seen, Entry(Head(w.rstack))) \in Seq(Keys \X Data)
    BY <1>1, <1>2, <2>1
  <2> QED BY <1>1, <1>2, <1>6, <2>1, <2>2 DEF Pass
<1> QED BY <1>4, <1>5, <1>6

WalkStep(f, n) == [w \in Walks |-> IF n = 0 THEN w ELSE f[n - 1][Pass(w)]]

\* The walk, pass by pass.
LEMMA WalkDef ==
  /\ Walk \in [Nat -> [Walks -> Walks]]
  /\ \A w \in Walks : Walk[0][w] = w
  /\ \A n \in Nat : \A w \in Walks : Walk[n + 1][w] = Walk[n][Pass(w)]
<1> DEFINE S == [Walks -> Walks]
           G == [p \in Nat \X [Nat -> S] |-> WalkStep(p[2], p[1])]
           m == [n \in Nat |-> n]
<1>1. ASSUME NEW n \in Nat, NEW f, \A i \in Nat : i < n => f[i] \in S
      PROVE  WalkStep(f, n) \in S
  <2>1. CASE n = 0
    BY <2>1 DEF WalkStep
  <2>2. CASE n # 0
    <3>1. f[n - 1] \in S
      BY <1>1, <2>2
    <3> QED BY <2>2, <3>1, PassType DEF WalkStep
  <2> QED BY <2>1, <2>2
<1>2. G \in Calls(Nat, S)
  <2>1. \A p \in Nat \X [Nat -> S] : p[1] \in Nat /\ p[2] \in [Nat -> S]
    OBVIOUS
  <2> HIDE DEF S
  <2> QED BY <1>1, <2>1 DEF Calls
<1>3. GoDown(Nat, S, m, G)
  <2> SUFFICES ASSUME NEW n \in Nat, NEW f \in [Nat -> S], NEW g \in [Nat -> S],
                      \A i \in Nat : m[i] < m[n] => f[i] = g[i]
               PROVE  G[<<n, f>>] = G[<<n, g>>]
    BY DEF GoDown
  <2>1. G[<<n, f>>] = WalkStep(f, n) /\ G[<<n, g>>] = WalkStep(g, n)
    OBVIOUS
  <2>2. n # 0 => f[n - 1] = g[n - 1]
    <3>1. n # 0 => n - 1 \in Nat /\ m[n - 1] < m[n]
      OBVIOUS
    <3> QED BY <3>1
  <2>3. WalkStep(f, n) = WalkStep(g, n)
    BY <2>2 DEF WalkStep
  <2> QED BY <2>1, <2>3
<1>4. S # {}
  <2>1. [w \in Walks |-> w] \in S
    OBVIOUS
  <2> QED BY <2>1
<1>5. Solvable(Nat, S, G)
  <2>1. m \in [Nat -> Nat]
    OBVIOUS
  <2> HIDE DEF S, G, m
  <2> QED BY <1>2, <1>3, <1>4, <2>1, Recursion
<1>6. PICK f \in [Nat -> S] : \A n \in Nat : f[n] = G[<<n, f>>]
  BY <1>5 DEF Solvable
<1>7. f = [n \in Nat |-> WalkStep(f, n)]
  <2>1. \A n \in Nat : G[<<n, f>>] = WalkStep(f, n)
    OBVIOUS
  <2> HIDE DEF G, S
  <2> QED BY <1>6, <2>1
<1>8. Walk = CHOOSE g : g = [n \in Nat |-> WalkStep(g, n)]
  BY DEF Walk, WalkStep
<1>9. Walk = [n \in Nat |-> WalkStep(Walk, n)]
  BY <1>7, <1>8
<1>10. Nat \subseteq {n \in Nat : Walk[n] \in S}
  <2> DEFINE P == {n \in Nat : Walk[n] \in S}
  <2>1. ASSUME NEW n \in Nat, \A i \in Nat : m[i] < m[n] => i \in P
        PROVE  n \in P
    <3>1. \A i \in Nat : i < n => Walk[i] \in S
      BY <2>1
    <3> QED BY <1>1, <1>9, <3>1
  <2>2. m \in [Nat -> Nat]
    OBVIOUS
  <2> HIDE DEF P, m
  <2>3. Nat \subseteq P
    BY <2>1, <2>2, MeasureInduction
  <2> QED BY <2>3 DEF P
<1>11. \A w \in Walks : Walk[0][w] = w
  <2>1. Walk[0] = WalkStep(Walk, 0)
    BY <1>9
  <2> QED BY <2>1 DEF WalkStep
<1>12. ASSUME NEW n \in Nat, NEW w \in Walks
       PROVE  Walk[n + 1][w] = Walk[n][Pass(w)]
  <2>1. Walk[n + 1] = WalkStep(Walk, n + 1)
    BY <1>9
  <2> QED BY <2>1 DEF WalkStep
<1>13. Walk \in [Nat -> S]
  <2> HIDE DEF S
  <2> QED BY <1>9, <1>10
<1> QED BY <1>11, <1>12, <1>13

-----------------------------------------------------------------------------
\* What was seen before a node, and then its left side, the node, its right side.
On(s, a, x, b) == Append(s \o a, x) \o b
Whole(a, x, b) == a \o <<x>> \o b

\* What the iterator has returned when it has come back from the two sides of a node.
LEMMA OnIs ==
  ASSUME NEW S, NEW s \in Seq(S), NEW a \in Seq(S), NEW b \in Seq(S), NEW x \in S
  PROVE  On(s, a, x, b) = s \o Whole(a, x, b)
<1>1. s \o a \in Seq(S) /\ <<x>> \in Seq(S) /\ a \o <<x>> \in Seq(S)
  OBVIOUS
<1>2. Append(s \o a, x) = (s \o a) \o <<x>>
  BY <1>1, AppendIsConcat
<1>3. (s \o a) \o <<x>> = s \o (a \o <<x>>)
  BY <1>1, ConcatAssociative
<1>4. (s \o (a \o <<x>>)) \o b = s \o (a \o <<x>> \o b)
  BY <1>1, ConcatAssociative
<1> QED BY <1>2, <1>3, <1>4 DEF On, Whole

\* Two passes for a node: the iterator comes to what rb_foreach comes to.
LEMMA WalkIs ==
  ASSUME NEW t0 \in Trees
  PROVE  \A n \in Nat : \A rs \in Seq(Trees \ {Nil}) : \A s \in Seq(Keys \X Data) :
           Walk[2 * Size[t0] + n][At(rs, t0, s)] = Walk[n][At(rs, Nil, s \o Traverse[t0])]
<1> DEFINE T == Trees \ {Nil}
           D == Keys \X Data
           Goal(t) == \A n \in Nat : \A rs \in Seq(T) : \A s \in Seq(D) :
                        Walk[2 * Size[t] + n][At(rs, t, s)] = Walk[n][At(rs, Nil, s \o Traverse[t])]
           P == {t \in Trees : Goal(t)}
<1>1. Nil \in P
  <2>1. \A n \in Nat : 2 * Size[Nil] + n = n
    BY SizeDef
  <2>2. \A s \in Seq(D) : s \o Traverse[Nil] = s
    BY TraverseDef
  <2> HIDE DEF T, D
  <2> QED BY <2>1, <2>2, TreesAreTrees
<1>2. ASSUME NEW t \in Trees \ {Nil}, t.left \in P, t.right \in P
      PROVE  t \in P
  <2> SUFFICES ASSUME NEW n \in Nat, NEW rs \in Seq(T), NEW s \in Seq(D)
               PROVE  Walk[2 * Size[t] + n][At(rs, t, s)] = Walk[n][At(rs, Nil, s \o Traverse[t])]
    OBVIOUS
  <2> DEFINE L == 2 * Size[t.left]
             R == 2 * Size[t.right]
             a == Traverse[t.left]
             b == Traverse[t.right]
             x == Entry(t)
             ts == <<t>> \o rs
             sx == Append(s \o a, x)
  <2>1. t \in T /\ t.left \in Trees /\ t.right \in Trees /\ x \in D /\ Nil \in Trees
    BY TreesAreTrees, Parts DEF Entry
  <2>2. a \in Seq(D) /\ b \in Seq(D) /\ Traverse[t] = a \o <<x>> \o b
    BY <2>1, TraverseDef
  <2>3. L \in Nat /\ R \in Nat /\ 2 * Size[t] + n = (L + ((R + n) + 1)) + 1
    <3>1. Size[t.left] \in Nat /\ Size[t.right] \in Nat /\ Size[t] = 1 + Size[t.left] + Size[t.right]
      BY <2>1, SizeDef
    <3>2. \A i, j \in Nat : 2 * (1 + i + j) + n = (2 * i + ((2 * j + n) + 1)) + 1
      OBVIOUS
    <3>3. L \in Nat /\ R \in Nat
      BY <3>1
    <3>4. 2 * (1 + Size[t.left] + Size[t.right]) + n = (L + ((R + n) + 1)) + 1
      BY <3>1, <3>2
    <3> HIDE DEF L, R
    <3> QED BY <3>1, <3>3, <3>4
  <2>4. Goal(t.left) /\ Goal(t.right)
    BY <1>2
  <2>5. /\ Pass(At(rs, t, s)) = At(ts, t.left, s)
        /\ Pass(At(ts, Nil, s \o a)) = At(rs, t.right, sx)
    <3>1. s \o a \in Seq(D)
      BY <2>2
    <3> HIDE DEF a
    <3> QED BY <2>1, <3>1, PassIs
  <2> HIDE DEF D
  <2>6. s \o a \in Seq(D) /\ sx \in Seq(D) /\ sx \o b = s \o Traverse[t]
    <3> HIDE DEF a, b, x
    <3>1. a \in Seq(D) /\ b \in Seq(D) /\ x \in D
      BY <2>1, <2>2
    <3>2. s \o a \in Seq(D) /\ sx \in Seq(D)
      BY <3>1
    <3>3. On(s, a, x, b) = s \o Whole(a, x, b)
      BY <3>1, OnIs
    <3>4. sx \o b = s \o (a \o <<x>> \o b)
      BY <3>3 DEF On, Whole
    <3> QED BY <2>2, <3>2, <3>4
  <2> HIDE DEF T
  <2>7. ts \in Seq(T)
    BY <2>1
  <2>8. At(rs, t, s) \in Walks /\ At(ts, Nil, s \o a) \in Walks
    <3> HIDE DEF a, ts
    <3> QED BY <2>1, <2>6, <2>7, AtFields DEF T, D
  <2> HIDE DEF L, R, a, b, x, ts, sx
  <2>9. Walk[2 * Size[t] + n][At(rs, t, s)] = Walk[L + ((R + n) + 1)][At(ts, t.left, s)]
    <3>1. L + ((R + n) + 1) \in Nat
      BY <2>3
    <3>2. Walk[(L + ((R + n) + 1)) + 1][At(rs, t, s)] = Walk[L + ((R + n) + 1)][Pass(At(rs, t, s))]
      BY <2>8, <3>1, WalkDef
    <3> QED BY <2>3, <2>5, <3>2
  <2>10. Walk[L + ((R + n) + 1)][At(ts, t.left, s)] = Walk[(R + n) + 1][At(ts, Nil, s \o a)]
    <3>1. (R + n) + 1 \in Nat
      BY <2>3
    <3> QED BY <2>4, <2>7, <3>1 DEF L, a
  <2>11. Walk[(R + n) + 1][At(ts, Nil, s \o a)] = Walk[R + n][At(rs, t.right, sx)]
    <3>1. R + n \in Nat
      BY <2>3
    <3>2. Walk[(R + n) + 1][At(ts, Nil, s \o a)] = Walk[R + n][Pass(At(ts, Nil, s \o a))]
      BY <2>8, <3>1, WalkDef
    <3> QED BY <2>5, <3>2
  <2>12. Walk[R + n][At(rs, t.right, sx)] = Walk[n][At(rs, Nil, sx \o b)]
    BY <2>4, <2>6 DEF R, b
  <2> QED BY <2>6, <2>9, <2>10, <2>11, <2>12
<1>3. Trees \subseteq P
  <2> HIDE DEF P
  <2> QED BY <1>1, <1>2, ClosedSets, ClosedInduction
<1> QED BY <1>3

LEMMA IteratedIs ==
  ASSUME NEW t \in Trees
  PROVE  Iterated(t) = At(<<>>, Nil, Traverse[t])
<1>1. Begin(t) = At(<<>>, t, <<>>)
  BY DEF Begin, At
<1>2. 2 * Size[t] + 0 = 2 * Size[t] /\ <<>> \o Traverse[t] = Traverse[t]
      /\ Traverse[t] \in Seq(Keys \X Data)
  <2>1. Size[t] \in Nat /\ Traverse[t] \in Seq(Keys \X Data)
    BY SizeDef, TraverseDef
  <2> QED BY <2>1
<1>3. Walk[2 * Size[t] + 0][At(<<>>, t, <<>>)] = Walk[0][At(<<>>, Nil, <<>> \o Traverse[t])]
  <2>1. 0 \in Nat /\ <<>> \in Seq(Trees \ {Nil}) /\ <<>> \in Seq(Keys \X Data)
    OBVIOUS
  <2> QED BY <2>1, WalkIs, Zenon
<1>4. At(<<>>, Nil, Traverse[t]) \in Walks
  <2>1. <<>> \in Seq(Trees \ {Nil}) /\ Nil \in Trees
    BY TreesAreTrees
  <2> QED BY <1>2, <2>1, AtFields, Zenon
<1>5. Walk[0][At(<<>>, Nil, Traverse[t])] = At(<<>>, Nil, Traverse[t])
  BY <1>4, WalkDef
<1> QED BY <1>1, <1>2, <1>3, <1>5 DEF Iterated

\* What a sequence of insertions makes.
Built == {t \in Trees : Ordered[t] /\ \E n : Bal(t, n)}
Pairs == Seq(Keys \X Data)
Last(s) == s[Len(s)]
Rest(s) == SubSeq(s, 1, Len(s) - 1)
InsertStep(f, s) == IF s = <<>> THEN Nil ELSE Paint(Insert[f[Rest(s)]][Last(s)], 0)

LEMMA BuiltOn ==
  ASSUME NEW t \in Built, NEW e \in Keys \X Data
  PROVE  Paint(Insert[t][e], 0) \in Built /\ Entries[Paint(Insert[t][e], 0)] = Put(Entries[t], e)
<1> DEFINE v == Paint(Insert[t][e], 0)
<1>1. t \in Trees /\ Ordered[t]
  BY DEF Built
<1>2. PICK n : Bal(t, n)
  BY DEF Built
<1>3. /\ v \in Trees /\ v \in AllTrees /\ Ordered[v] /\ (\E m : Bal(v, m))
      /\ Entries[v] = Put(Entries[t], e)
  BY <1>1, <1>2, Inserted
<1> HIDE DEF v
<1>4. v \in Built /\ Entries[v] = Put(Entries[t], e)
  BY <1>3 DEF Built
<1> QED BY <1>4 DEF v

LEMMA RestIs ==
  ASSUME NEW s \in Pairs, s # <<>>
  PROVE  /\ Rest(s) \in Pairs /\ Len(Rest(s)) = Len(s) - 1 /\ Len(Rest(s)) < Len(s)
         /\ Last(s) \in Keys \X Data /\ Len(s) \in Nat /\ Len(s) > 0
         /\ \A i \in 1..Len(s) - 1 : Rest(s)[i] = s[i]
<1> DEFINE D == Keys \X Data
           n == Len(s)
<1>1. n \in Nat /\ n > 0 /\ \A i \in 1..n : s[i] \in D
  BY DEF Pairs
<1> HIDE DEF D, n
<1>2. \A i \in 1..n-1 : s[i] \in D
  BY <1>1
<1> DEFINE r == SubSeq(s, 1, n - 1)
<1>3. /\ r \in Seq(D)
      /\ Len(r) = IF 1 <= n - 1 THEN n - 1 - 1 + 1 ELSE 0
      /\ \A i \in 1..n-1-1+1 : r[i] = s[1 + i - 1]
  BY <1>1, <1>2, SubSeqProperties
<1>4. Rest(s) = r
  BY DEF Rest, n
<1> HIDE DEF r
<1>5. Len(r) = n - 1 /\ \A i \in 1..n-1 : r[i] = s[i]
  BY <1>1, <1>3
<1> QED BY <1>1, <1>3, <1>4, <1>5 DEF Pairs, Last, D, n

\* The copy, as its definition says.
LEMMA InsertAllDef ==
  /\ InsertAll \in [Pairs -> Built]
  /\ \A s \in Pairs : InsertAll[s] = InsertStep(InsertAll, s)
<1> DEFINE G == [p \in Pairs \X [Pairs -> Built] |-> InsertStep(p[2], p[1])]
           m == [s \in Pairs |-> Len(s)]
<1>0. m \in [Pairs -> Nat]
  BY DEF Pairs
<1>1. Nil \in Built
  BY TreesAreTrees, OrderedDef, BalNil DEF Built
<1>2. ASSUME NEW s \in Pairs, NEW f, \A r \in Pairs : m[r] < m[s] => f[r] \in Built
      PROVE  InsertStep(f, s) \in Built
  <2>1. CASE s = <<>>
    BY <1>1, <2>1 DEF InsertStep
  <2>2. CASE s # <<>>
    <3>1. Rest(s) \in Pairs /\ m[Rest(s)] < m[s] /\ Last(s) \in Keys \X Data
      BY <2>2, RestIs
    <3>2. f[Rest(s)] \in Built
      BY <1>2, <3>1
    <3> QED BY <2>2, <3>1, <3>2, BuiltOn DEF InsertStep
  <2> QED BY <2>1, <2>2
<1>3. G \in Calls(Pairs, Built)
  <2>1. \A p \in Pairs \X [Pairs -> Built] : p[1] \in Pairs /\ p[2] \in [Pairs -> Built]
    OBVIOUS
  <2> QED BY <1>2, <2>1 DEF Calls
<1>4. GoDown(Pairs, Built, m, G)
  <2> SUFFICES ASSUME NEW s \in Pairs, NEW f \in [Pairs -> Built], NEW g \in [Pairs -> Built],
                      \A r \in Pairs : m[r] < m[s] => f[r] = g[r]
               PROVE  G[<<s, f>>] = G[<<s, g>>]
    BY DEF GoDown
  <2>1. G[<<s, f>>] = InsertStep(f, s) /\ G[<<s, g>>] = InsertStep(g, s)
    OBVIOUS
  <2>2. s # <<>> => f[Rest(s)] = g[Rest(s)]
    <3>1. s # <<>> => Rest(s) \in Pairs /\ m[Rest(s)] < m[s]
      BY RestIs
    <3> QED BY <3>1
  <2>3. InsertStep(f, s) = InsertStep(g, s)
    BY <2>2 DEF InsertStep
  <2> QED BY <2>1, <2>3
<1>5. Solvable(Pairs, Built, G)
  <2> HIDE DEF G, m
  <2> QED BY <1>0, <1>1, <1>3, <1>4, Recursion
<1>6. PICK f \in [Pairs -> Built] : \A s \in Pairs : f[s] = G[<<s, f>>]
  BY <1>5 DEF Solvable
<1>7. f = [s \in Pairs |-> InsertStep(f, s)]
  <2>1. \A s \in Pairs : G[<<s, f>>] = InsertStep(f, s)
    OBVIOUS
  <2> HIDE DEF G
  <2> QED BY <1>6, <2>1
<1>8. InsertAll = CHOOSE g : g = [s \in Pairs |-> InsertStep(g, s)]
  BY DEF InsertAll, InsertStep, Pairs, Rest, Last
<1>9. InsertAll = [s \in Pairs |-> InsertStep(InsertAll, s)]
  BY <1>7, <1>8
<1>10. Pairs \subseteq {s \in Pairs : InsertAll[s] \in Built}
  <2> DEFINE P == {s \in Pairs : InsertAll[s] \in Built}
  <2>1. ASSUME NEW s \in Pairs, \A r \in Pairs : m[r] < m[s] => r \in P
        PROVE  s \in P
    <3>1. InsertAll[s] = InsertStep(InsertAll, s)
      BY <1>9
    <3>2. \A r \in Pairs : m[r] < m[s] => InsertAll[r] \in Built
      BY <2>1
    <3>3. InsertAll[s] \in Built
      BY <1>2, <3>1, <3>2
    <3> QED BY <3>3
  <2> HIDE DEF P, m
  <2>2. Pairs \subseteq P
    BY <1>0, <2>1, MeasureInduction
  <2> QED BY <2>2 DEF P
<1> QED BY <1>9, <1>10

-----------------------------------------------------------------------------
\* Keys that come in order are all kept.
Sorted(s) == \A i, j \in 1..Len(s) : i < j => s[i][1] < s[j][1]
Within(s) == {s[i] : i \in 1..Len(s)}

LEMMA SortedRest ==
  ASSUME NEW s \in Pairs, s # <<>>, Sorted(s)
  PROVE  /\ Sorted(Rest(s)) /\ Within(s) = Within(Rest(s)) \cup {Last(s)}
         /\ \A x \in Within(Rest(s)) : x[1] # Last(s)[1]
<1> DEFINE r == Rest(s)
           n == Len(s)
<1>1. /\ r \in Pairs /\ Len(r) = n - 1 /\ n \in Nat /\ n > 0
      /\ \A i \in 1..n-1 : r[i] = s[i]
  BY RestIs
<1>2. \A i \in 1..n : s[i] \in Keys \X Data
  BY DEF Pairs
<1> HIDE DEF r, n
<1>3. Last(s) = s[n] /\ n \in 1..n
  BY <1>1 DEF Last, n
<1>4. \A i \in 1..n-1 : i \in 1..n /\ i < n
  BY <1>1
<1>5. Sorted(r)
  BY <1>1, <1>4 DEF Sorted, n
<1>6. Within(s) = Within(r) \cup {Last(s)}
  <2>1. \A i \in 1..n : i = n \/ i \in 1..n-1
    BY <1>1
  <2>2. Within(s) = {s[i] : i \in 1..n} /\ Within(r) = {s[i] : i \in 1..n-1}
    BY <1>1 DEF Within, n
  <2> QED BY <1>3, <1>4, <2>1, <2>2
<1>7. ASSUME NEW i \in 1..n-1
      PROVE  r[i][1] # Last(s)[1]
  <2>1. s[i][1] < s[n][1]
    BY <1>3, <1>4 DEF Sorted, n
  <2>2. s[i][1] \in Int /\ s[n][1] \in Int
    BY <1>2, <1>3, <1>4, TreeAssumption
  <2> QED BY <1>1, <1>3, <2>1, <2>2
<1> QED BY <1>1, <1>5, <1>6, <1>7 DEF Within, r

LEMMA InsertAllHolds ==
  ASSUME NEW s0 \in Pairs, Sorted(s0)
  PROVE  Entries[InsertAll[s0]] = Within(s0)
<1> DEFINE m == [s \in Pairs |-> Len(s)]
           P == {s \in Pairs : Sorted(s) => Entries[InsertAll[s]] = Within(s)}
<1>1. m \in [Pairs -> Nat]
  BY DEF Pairs
<1>2. ASSUME NEW s \in Pairs, \A r \in Pairs : m[r] < m[s] => r \in P
      PROVE  s \in P
  <2> SUFFICES ASSUME Sorted(s)
               PROVE  Entries[InsertAll[s]] = Within(s)
    OBVIOUS
  <2>1. CASE s = <<>>
    <3>1. InsertAll[s] = Nil
      BY <2>1, InsertAllDef DEF InsertStep
    <3>2. Within(s) = {}
      BY <2>1 DEF Within
    <3> QED BY <3>1, <3>2, EntriesDef
  <2>2. CASE s # <<>>
    <3> DEFINE r == Rest(s)
               e == Last(s)
               t == InsertAll[r]
    <3>1. r \in Pairs /\ m[r] < m[s] /\ e \in Keys \X Data
      BY <2>2, RestIs
    <3>2. Sorted(r) /\ Within(s) = Within(r) \cup {e} /\ \A x \in Within(r) : x[1] # e[1]
      BY <2>2, SortedRest
    <3>3. InsertAll[s] = Paint(Insert[t][e], 0)
      BY <2>2, InsertAllDef DEF InsertStep
    <3>4. t \in Built /\ Entries[t] = Within(r)
      BY <1>2, <3>1, <3>2, InsertAllDef
    <3> HIDE DEF r, e, t
    <3>5. Entries[InsertAll[s]] = Put(Entries[t], e)
      BY <3>1, <3>3, <3>4, BuiltOn
    <3>6. Put(Within(r), e) = Within(r) \cup {e}
      BY <3>2 DEF Put, Without
    <3> QED BY <3>2, <3>4, <3>5, <3>6
  <2> QED BY <2>1, <2>2
<1>3. Pairs \subseteq P
  <2> HIDE DEF m, P
  <2> QED BY <1>1, <1>2, MeasureInduction
<1> QED BY <1>3

\* Two sequences in order of the same pairs are the same.
LEMMA SortedSame ==
  ASSUME NEW a \in Pairs, NEW b \in Pairs, Sorted(a), Sorted(b),
         Len(a) = Len(b), Within(a) = Within(b)
  PROVE  a = b
<1> DEFINE n == Len(a)
           Bad == {i \in 1..n : a[i] # b[i]}
<1>1. /\ n \in Nat /\ Len(b) = n
      /\ \A i \in 1..n : a[i] \in Keys \X Data /\ b[i] \in Keys \X Data
  BY DEF Pairs
<1>2. \A i \in 1..n : a[i][1] \in Int /\ b[i][1] \in Int
  BY <1>1, TreeAssumption
<1>3. (\A i \in 1..n : \E p \in 1..n : a[i] = b[p]) /\ (\A i \in 1..n : \E q \in 1..n : b[i] = a[q])
  BY <1>1 DEF Within
<1>4. \A i, j \in 1..n : i < j => a[i][1] < a[j][1] /\ b[i][1] < b[j][1]
  BY <1>1 DEF Sorted
<1> HIDE DEF n
<1>5. CASE Bad # {}
  <2>1. Bad \subseteq Nat
    BY <1>1
  <2>2. PICK k \in Bad : \A i \in Bad : k <= i
    BY <1>5, <2>1, Least
  <2>3. k \in 1..n /\ a[k] # b[k] /\ \A i \in 1..n : i < k => a[i] = b[i]
    BY <1>1, <2>2
  <2>4. PICK p \in 1..n : a[k] = b[p]
    BY <1>3, <2>3
  <2>5. PICK q \in 1..n : b[k] = a[q]
    BY <1>3, <2>3
  <2>6. ~(p < k) /\ p # k
    BY <1>2, <1>4, <2>3, <2>4
  <2>7. ~(q < k) /\ q # k
    BY <1>2, <1>4, <2>3, <2>5
  <2>8. k < p /\ k < q
    BY <1>1, <2>3, <2>6, <2>7
  <2>9. b[k][1] < b[p][1] /\ a[k][1] < a[q][1]
    BY <1>4, <2>3, <2>8
  <2> QED BY <1>2, <2>3, <2>4, <2>5, <2>9
<1>6. CASE Bad = {}
  <2>1. \A i \in 1..n : a[i] = b[i]
    BY <1>6
  <2> QED BY <1>1, <2>1, SeqEqual DEF n, Pairs
<1> QED BY <1>5, <1>6

-----------------------------------------------------------------------------
\* rb_foreach comes to every entry.
LEMMA TraverseAll ==
  ASSUME NEW t0 \in Trees
  PROVE  Entries[t0] \subseteq Within(Traverse[t0])
<1> DEFINE P == {t \in Trees : Entries[t] \subseteq Within(Traverse[t])}
<1>1. Nil \in P
  BY TreesAreTrees, EntriesDef
<1>2. ASSUME NEW t \in Trees \ {Nil}, t.left \in P, t.right \in P
      PROVE  t \in P
  <2> DEFINE a == Traverse[t.left]
             b == Traverse[t.right]
             x == Entry(t)
             s == a \o <<x>> \o b
  <2>1. t \in AllTrees /\ t.left \in Trees /\ t.right \in Trees /\ x \in Keys \X Data
    BY TreesAreTrees, Parts DEF Entry
  <2>2. Traverse[t] = s /\ a \in Pairs /\ b \in Pairs
    BY <2>1, TraverseDef DEF Pairs
  <2>3. Entries[t] = Entries[t.left] \cup {x} \cup Entries[t.right]
    BY <2>1, EntriesDef
  <2>4. Entries[t.left] \subseteq Within(a) /\ Entries[t.right] \subseteq Within(b)
    BY <1>2
  <2> HIDE DEF a, b, x
  <2>5. /\ Len(s) = Len(a) + 1 + Len(b)
        /\ \A i \in 1..Len(s) : s[i] = IF i <= Len(a) THEN a[i]
                                      ELSE IF i = Len(a) + 1 THEN x ELSE b[i - Len(a) - 1]
    BY <2>1, <2>2, Joined DEF Pairs
  <2>6. Len(a) \in Nat /\ Len(b) \in Nat
    BY <2>2 DEF Pairs
  <2> HIDE DEF s
  <2>7. ASSUME NEW i \in 1..Len(a)
        PROVE  a[i] \in Within(s)
    <3>1. i \in 1..Len(s) /\ s[i] = a[i]
      BY <2>5, <2>6
    <3> QED BY <3>1 DEF Within
  <2>8. ASSUME NEW i \in 1..Len(b)
        PROVE  b[i] \in Within(s)
    <3> DEFINE j == i + Len(a) + 1
    <3>1. j \in 1..Len(s) /\ j - Len(a) - 1 = i /\ ~(j <= Len(a)) /\ j # Len(a) + 1
      BY <2>5, <2>6
    <3>2. s[j] = b[i]
      BY <2>5, <3>1
    <3> QED BY <3>1, <3>2 DEF Within
  <2>9. x \in Within(s)
    <3>1. Len(a) + 1 \in 1..Len(s) /\ ~(Len(a) + 1 <= Len(a))
      BY <2>5, <2>6
    <3>2. s[Len(a) + 1] = x
      BY <2>5, <3>1
    <3> QED BY <3>1, <3>2 DEF Within
  <2>10. Within(a) \subseteq Within(s) /\ Within(b) \subseteq Within(s)
    BY <2>7, <2>8 DEF Within
  <2> QED BY <2>2, <2>3, <2>4, <2>9, <2>10
<1>3. Trees \subseteq P
  <2> HIDE DEF P
  <2> QED BY <1>1, <1>2, ClosedSets, ClosedInduction
<1> QED BY <1>3

LEMMA TraverseHolds ==
  ASSUME NEW t \in Trees, Ordered[t]
  PROVE  /\ Traverse[t] \in Pairs /\ Sorted(Traverse[t]) /\ Within(Traverse[t]) = Entries[t]
         /\ Len(Traverse[t]) = Cardinality(KeysOf(t))
<1> DEFINE s == Traverse[t]
<1>1. Len(s) = Size[t] /\ InOrder(s, Entries[t])
  BY TraverseIs
<1>2. Entries[t] \subseteq Within(s)
  BY TraverseAll
<1>3. s \in Pairs
  BY TraverseDef DEF Pairs
<1>4. Size[t] = Cardinality(KeysOf(t))
  BY TreesAreTrees, SizeIsKeys, SizeAgree
<1> HIDE DEF s
<1>5. Sorted(s) /\ Within(s) = Entries[t]
  BY <1>1, <1>2 DEF InOrder, Sorted, Within
<1> QED BY <1>1, <1>3, <1>4, <1>5 DEF s

\* The iterator and rb_foreach agree, and rb_copy makes a balanced tree with the
\* same entries (rbtree.c:120-132, 206-227).
THEOREM TreeCopyIsFaithful == Spec => []CopyIsFaithful
<1>1. TreeInv => CopyIsFaithful
  <2> SUFFICES ASSUME TreeInv, ~crashed
               PROVE  LET w == Iterated(tree)
                          copy == InsertAll[w.seen]
                      IN /\ w.iter = Nil /\ w.rstack = <<>> /\ w.seen = Traverse[tree]
                         /\ Traverse[copy] = Traverse[tree]
                         /\ Blacks[copy] # -1
    BY DEF CopyIsFaithful
  <2> DEFINE s == Traverse[tree]
             copy == InsertAll[s]
  <2>1. tree \in Trees /\ Ordered[tree]
    BY DEF TreeInv, Good
  <2>2. Iterated(tree).rstack = <<>> /\ Iterated(tree).iter = Nil /\ Iterated(tree).seen = s
    BY <2>1, IteratedIs, AtFields
  <2>3. s \in Pairs /\ Sorted(s) /\ Within(s) = Entries[tree] /\ Len(s) = Cardinality(KeysOf(tree))
    BY <2>1, TraverseHolds
  <2> HIDE DEF s
  <2>4. Entries[copy] = Within(s)
    BY <2>3, InsertAllHolds
  <2>5. copy \in Built
    BY <2>3, InsertAllDef
  <2> HIDE DEF copy
  <2>6. copy \in Trees /\ Ordered[copy] /\ \E n : Bal(copy, n)
    BY <2>5 DEF Built
  <2>7. /\ Traverse[copy] \in Pairs /\ Sorted(Traverse[copy])
        /\ Within(Traverse[copy]) = Entries[copy]
        /\ Len(Traverse[copy]) = Cardinality(KeysOf(copy))
    BY <2>6, TraverseHolds
  <2>8. KeysOf(copy) = KeysOf(tree)
    BY <2>3, <2>4 DEF KeysOf
  <2>9. Traverse[copy] = s
    BY <2>3, <2>4, <2>7, <2>8, SortedSame
  <2>10. Blacks[copy] # -1
    BY <2>6, BlacksAgree DEF Bal
  <2> QED BY <2>2, <2>9, <2>10 DEF s, copy
<1> QED BY <1>1, TreeIsInvariant, PTL
=============================================================================
