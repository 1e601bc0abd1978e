------------------------------ MODULE MC_TPool ------------------------------
(* Small instances of the thread pool for TLC.                             *)
EXTENDS TPool, TLC

CONSTANTS w1, w2, c1, c2, j1, j2, j3, none

TwoWorkers == {w1, w2}
OneWorker == {w1}
TwoClients == {c1, c2}
OneClient == {c1}
TwoJobs == {j1, j2}
ThreeJobs == {j1, j2, j3}

\* What a thread calls, from the least to all of it.
LiveOps == {"enqueue", "batch", "wait", "wait_any"}
AllOps == {"enqueue", "batch", "wait", "wait_any", "timedwait", "drain", "release"}
ReleaseOps == {"enqueue", "release"}

\* tv_usec = 999999 makes tv_nsec overflow when timeout % 1000 is 500.
EarlyInSecond == {0}
AnyInSecond == {0, 999999}
HalfSecond == {500}

Symmetric == Permutations(TwoWorkers) \cup Permutations(TwoClients)
             \cup Permutations(ThreeJobs)
=============================================================================
