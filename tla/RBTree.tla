------------------------------- MODULE RBTree -------------------------------
(***************************************************************************)
(* The search tree of src/rbtree.c, which maps watch descriptors to        *)
(* resources: a left-leaning red-black tree whose nodes are changed in     *)
(* place.  Here a tree is a value, Nil for the null pointer; a function    *)
(* that changes a tree returns the changed one, or Crash if it             *)
(* dereferences a null pointer on the way.  Memory that is leaked is left  *)
(* out (del_min frees its null child in place of the node).                *)
(***************************************************************************)
EXTENDS Integers, Sequences, FiniteSets

CONSTANTS Keys,   \* watch descriptors
          Data

\* cmpint subtracts (rbtree.c:251); the difference of two descriptors is an int.
ASSUME TreeAssumption == Keys \subseteq Int /\ IsFiniteSet(Keys)

VARIABLES tree,    \* rb->root
          crashed,
          dict     \* history: what was inserted and not deleted

vars == <<tree, crashed, dict>>

-----------------------------------------------------------------------------
Nil == [null |-> TRUE]
Crash == [crash |-> TRUE]

NodesOver(T) == [key : Keys, data : Data, red : {0, 1}, left : T, right : T]

\* The trees of at most n levels.
TreesTo[n \in Nat] == IF n = 0 THEN {Nil} ELSE {Nil} \cup NodesOver(TreesTo[n - 1])

\* A search tree has no more levels than there are keys.
Trees == TreesTo[Cardinality(Keys)]

Leaf(k, d) == [key |-> k, data |-> d, red |-> 1, left |-> Nil, right |-> Nil]

\* is_red
Red(t) == t # Nil /\ t.red = 1
Paint(t, red) == [t EXCEPT !.red = red]
WithLeft(t, l) == IF l = Crash THEN Crash ELSE [t EXCEPT !.left = l]
WithRight(t, r) == IF r = Crash THEN Crash ELSE [t EXCEPT !.right = r]

RotLeft(a) ==
  LET b == a.right IN
    WithLeft(Paint(b, a.red), WithRight(Paint(a, 1), b.left))

RotRight(a) ==
  LET b == a.left IN
    WithRight(Paint(b, a.red), WithLeft(Paint(a, 1), b.right))

Flip(t) == Paint(t, 1 - t.red)
ColorFlip(t) ==
  IF t.left = Nil \/ t.right = Nil THEN Crash
  ELSE WithRight(WithLeft(Flip(t), Flip(t.left)), Flip(t.right))

\* Lean red links to the left; make two in a row a 4-node; split it.
LeanLeft(t) == IF Red(t.right) THEN RotLeft(t) ELSE t
RaiseLeft(t) == IF Red(t.left) /\ Red(t.left.left) THEN RotRight(t) ELSE t
Split(t) == IF Red(t.left) /\ Red(t.right) THEN ColorFlip(t) ELSE t

\* delete: a red link on the way to the right.
LeanRight(t) == IF Red(t.left) THEN RotRight(t) ELSE t

\* Mutant: 4-nodes are left as they are.
FixUp_NoSplit(t) == IF t = Crash THEN Crash ELSE RaiseLeft(LeanLeft(t))

\* The tail of insert, and fix_up.
FixUp(t) == IF t = Crash THEN Crash ELSE Split(RaiseLeft(LeanLeft(t)))

\* Mutant: without the rotations.
MoveRedLeft_FlipOnly(t) == ColorFlip(t)

\* Push a red link to the left.
MoveRedLeft(t) ==
  LET f == ColorFlip(t) IN
    IF f = Crash \/ ~Red(f.right.left) THEN f
    ELSE ColorFlip(RotLeft(WithRight(f, RotRight(f.right))))

\* The calls of move_red_left, on the way down to a child that is no 3-node;
\* the test dereferences the child.
MakeRed(t, child) ==
  IF child = Nil THEN Crash
  ELSE IF ~Red(child) /\ ~Red(child.left) THEN MoveRedLeft(t) ELSE t

Insert[t \in Trees] == [e \in Keys \X Data |->
  IF t = Nil THEN Leaf(e[1], e[2])
  ELSE FixUp(IF e[1] < t.key THEN WithLeft(t, Insert[t.left][e])
             ELSE IF e[1] > t.key THEN WithRight(t, Insert[t.right][e])
             ELSE [t EXCEPT !.data = e[2]])]

FindMin[t \in Trees \ {Nil}] == IF t.left = Nil THEN t ELSE FindMin[t.left]

DelMin[t \in Trees \ {Nil}] ==
  IF t.left = Nil THEN Nil
  ELSE LET u == MakeRed(t, t.left) IN
    IF u = Crash THEN Crash ELSE FixUp(WithLeft(u, DelMin[u.left]))

\* Mutant: the data stays behind.
Successor_KeyOnly(t) ==
  IF t.right = Nil THEN Crash
  ELSE WithRight([t EXCEPT !.key = FindMin[t.right].key], DelMin[t.right])

\* The key's node takes the place of the least one on its right.
Successor(t) ==
  IF t.right = Nil THEN Crash
  ELSE LET m == FindMin[t.right] IN
    WithRight([[t EXCEPT !.key = m.key] EXCEPT !.data = m.data], DelMin[t.right])

\* The two sides of delete, which calls itself: del.
DeleteLeft(del, t, k) ==
  LET u == MakeRed(t, t.left) IN
    IF u = Crash THEN Crash ELSE WithLeft(u, del[u.left][k])

\* "found" is the comparison with the node that was on top before the rotation.
DeleteRight(del, t, k, found) ==
  IF found /\ t.right = Nil THEN Nil
  ELSE LET u == MakeRed(t, t.right) IN
    IF u = Crash THEN Crash
    ELSE IF u.key = k THEN Successor(u)
    ELSE WithRight(u, del[u.right][k])

Delete[t \in Trees] == [k \in Keys |->
  IF t = Nil THEN Nil
  ELSE LET u == IF k < t.key THEN DeleteLeft(Delete, t, k)
                ELSE DeleteRight(Delete, LeanRight(t), k, k = t.key)
       IN IF u = Nil THEN Nil ELSE FixUp(u)]

Find[t \in Trees] == [k \in Keys |->
  IF t = Nil THEN Nil
  ELSE IF k = t.key THEN t.data
  ELSE Find[IF k < t.key THEN t.left ELSE t.right][k]]

\* What rb_foreach comes to.
Entry(t) == <<t.key, t.data>>
Traverse[t \in Trees] ==
  IF t = Nil THEN <<>> ELSE Traverse[t.left] \o <<Entry(t)>> \o Traverse[t.right]

Size[t \in Trees] == IF t = Nil THEN 0 ELSE 1 + Size[t.left] + Size[t.right]

\* The iterator, and what it has returned: the nodes on its stack are those
\* whose left side is behind us.
Walks == [rstack : Seq(Trees \ {Nil}), iter : Trees, seen : Seq(Keys \X Data)]

\* One pass of the loop in rb_next.
Pass(w) ==
  IF w.iter # Nil
  THEN [rstack |-> <<w.iter>> \o w.rstack, iter |-> w.iter.left, seen |-> w.seen]
  ELSE IF w.rstack = <<>> THEN w
  ELSE [rstack |-> Tail(w.rstack), iter |-> Head(w.rstack).right,
        seen |-> Append(w.seen, Entry(Head(w.rstack)))]

Walk[n \in Nat] == [w \in Walks |-> IF n = 0 THEN w ELSE Walk[n - 1][Pass(w)]]

\* Mutant: the iterator starts below the root.
Begin_Below(t) == [rstack |-> <<>>, iter |-> IF t = Nil THEN Nil ELSE t.left, seen |-> <<>>]

\* rb_begin
Begin(t) == [rstack |-> <<>>, iter |-> t, seen |-> <<>>]

\* rb_next until it returns null: two passes for a node.
Iterated(t) == Walk[2 * Size[t]][Begin(t)]

\* rb_copy: insert what the iterator finds in an empty tree.
InsertAll[s \in Seq(Keys \X Data)] ==
  IF s = <<>> THEN Nil
  ELSE Paint(Insert[InsertAll[SubSeq(s, 1, Len(s) - 1)]][s[Len(s)]], 0)

-----------------------------------------------------------------------------
Init == tree = Nil /\ crashed = FALSE /\ dict = [k \in {} |-> Nil]

RBInsert(k, d) ==
  /\ ~crashed
  /\ tree' = Paint(Insert[tree][<<k, d>>], 0)
  /\ dict' = [l \in DOMAIN dict \cup {k} |-> IF l = k THEN d ELSE dict[l]]
  /\ UNCHANGED crashed

\* rb->root->red = 0 dereferences the root that is left.
RBDelete(k) ==
  /\ ~crashed
  /\ dict' = [l \in DOMAIN dict \ {k} |-> dict[l]]
  /\ LET t == Delete[tree][k] IN
       IF t \in {Nil, Crash}
       THEN crashed' = TRUE /\ UNCHANGED tree
       ELSE tree' = Paint(t, 0) /\ UNCHANGED crashed

RBClear ==
  /\ ~crashed
  /\ tree' = Nil
  /\ dict' = [k \in {} |-> Nil]
  /\ UNCHANGED crashed

Next == \/ \E k \in Keys : RBDelete(k) \/ \E d \in Data : RBInsert(k, d)
        \/ RBClear

Spec == Init /\ [][Next]_vars

-----------------------------------------------------------------------------
\* The tree is the map that the calls have built: each key is found with the
\* data it was last inserted with, though a deletion moves keys and data from
\* one node to another (rbtree.c:364-368), and rb_foreach comes to every key
\* once, in order.
FindsAll ==
  ~crashed => LET s == Traverse[tree] IN
    /\ \A k \in Keys : Find[tree][k] = IF k \in DOMAIN dict THEN dict[k] ELSE Nil
    /\ \A i, j \in 1..Len(s) : i < j => s[i][1] < s[j][1]
    /\ Len(s) = Cardinality(DOMAIN dict) /\ Size[tree] = Len(s)

\* The number of black nodes on every path to the bottom, -1 if they differ or
\* a red link leans right or follows another.
Blacks[t \in Trees] ==
  IF t = Nil THEN 0
  ELSE IF \/ Blacks[t.left] = -1 \/ Blacks[t.left] # Blacks[t.right]
          \/ Red(t.right) \/ (Red(t) /\ Red(t.left))
       THEN -1 ELSE Blacks[t.left] + (IF Red(t) THEN 0 ELSE 1)

\* The tree stays a left-leaning red-black tree, though delete pushes red links
\* to the left where the comments speak of the right (rbtree.c:346, 360-361).
Balanced == ~crashed => Blacks[tree] # -1

\* The iterator, which walks with a stack of its own, comes to the nodes in the
\* order rb_foreach does, and a copy made with it holds the same map and is
\* balanced, though its keys came in order (rbtree.c:124-131, 210-227).
CopyIsFaithful ==
  ~crashed => LET w == Iterated(tree)
                  copy == InsertAll[w.seen]
              IN /\ w.iter = Nil /\ w.rstack = <<>> /\ w.seen = Traverse[tree]
                 /\ Traverse[copy] = Traverse[tree]
                 /\ Blacks[copy] # -1

\* A deletion that removes a key and leaves another dereferences no null
\* pointer (those that do: of a key that is not there, and of the last one).
DeleteIsSafe == [][crashed' => dict' = dict \/ DOMAIN dict' = {}]_vars

=============================================================================
