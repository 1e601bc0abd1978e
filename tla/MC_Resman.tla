------------------------------ MODULE MC_Resman ------------------------------
(* Small instances of the resource manager for TLC.                        *)
EXTENDS Resman, TLC

CONSTANTS n1, n2, o1, o2, w1, w2

OneName == {n1}
TwoNames == {n1, n2}
OneObj == {o1}
TwoObjs == {o1, o2}
OneWorker == {w1}
TwoWorkers == {w1, w2}

Removing == {"add", "remove"}
WaitingForJob == {"add", "wait_job"}
AllOps == {"add", "remove", "wait_job", "wait_all", "destroy"}

Setup(app, slice, done_func) ==
  [app |-> app, slice |-> slice, done_func |-> done_func]

\* With a time slice a poll may, but need not, stop early: it does what one
\* without does, too.
Polling == {Setup("poll", TRUE, TRUE)}
PollingAll == {Setup("poll", FALSE, TRUE)}
Sleeping == {Setup("wait", FALSE, TRUE)}
NoDoneFunc == {Setup("wait", FALSE, FALSE)}
AnyDoneFunc == Polling \cup Sleeping
AnySetup == AnyDoneFunc \cup NoDoneFunc

\* Workers are alike, and so are the blocks that malloc returns.
Alike == Permutations(TwoWorkers) \cup Permutations(TwoObjs)
         \cup Permutations(TwoNames)
=============================================================================
