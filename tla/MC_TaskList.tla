---------------------------- MODULE MC_TaskList -----------------------------
(* A small instance of the list of tasks for TLC.                          *)
EXTENDS TaskList

CONSTANTS t1, t2, t3, r1, r2, w1

ThreeTasks == {t1, t2, t3}
TwoResources == {r1, r2}
OneWorker == {w1}
=============================================================================
