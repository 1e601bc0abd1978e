---------------------------- MODULE MC_Managers ----------------------------
(* A small instance for TLC of the managers of a process. *)
EXTENDS Managers, TLC

CONSTANTS m1, m2, m3

ThreeMgrs == {m1, m2, m3}
Symmetry == Permutations(ThreeMgrs)
=============================================================================
