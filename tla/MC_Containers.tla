---------------------------- MODULE MC_Containers ----------------------------
(* Small instances of the two containers for TLC, one at a time.           *)
EXTENDS RBTree, DynArr

VARIABLE which

EightKeys == 1..8
TwoData == {1, 2}

CInit == which \in {"tree", "array"} /\ Init /\ ArrayInit

CNext ==
  \/ which = "tree" /\ Next /\ UNCHANGED <<which, arrayVars>>
  \/ which = "array" /\ ArrayNext /\ UNCHANGED <<which, vars>>

CSpec == CInit /\ [][CNext]_<<which, vars, arrayVars>>
=============================================================================
