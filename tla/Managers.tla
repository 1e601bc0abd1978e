------------------------------- MODULE Managers ------------------------------
(***************************************************************************)
(* The managers of one process, which share a thread pool and its pipe     *)
(* (src/resman.c: the static thread_pool, resman_init, resman_destroy; the *)
(* reference count of src/tpool.c).  Of a manager there are the loads it   *)
(* has with the pool and those that were loaded and wait for their done    *)
(* callback.  thread_pool is set once and never reset, so there is one     *)
(* pool at most; of its workers there is one.  Each manager has a thread   *)
(* of its own and a done callback, is initialised once, and the application *)
(* initialises and destroys them one at a time.  The program is followed   *)
(* up to its first fault.                                                  *)
(***************************************************************************)
EXTENDS Integers, Sequences, FiniteSets

CONSTANTS Mgrs, NoMgr,
          MaxInits,  \* a bound on the calls of resman_init
          MaxLoads   \* a bound on the loads that are added

ASSUME MgrsAssumption == IsFiniteSet(Mgrs) /\ NoMgr \notin Mgrs

VARIABLES
  nref,         \* of the pool
  state,        \* of the pool: "none", "running", "stopping" or "stopped"
  loads,        \* its queue: the manager of each job
  at, for,      \* where its worker is, and the manager whose job it has
  wake,         \* is there a byte in its pipe?
  mgr,          \* where each manager is
  done,         \* its loads that wait for a callback
  busy,         \* the manager whose resman_destroy waits for the worker
  poolfault,    \* "none", "stopped_pool" or "freed_manager"
  ninits, nloads,
  failed,       \* history: has a resman_init failed after the addref?
  idle,         \* history: managers with no load added since a wait_all
  hasty,        \* history: managers that were destroyed while not idle
  reborn,       \* history: managers that got a pool that was stopped
  robbed,       \* history: ... whose pipe another emptied since they polled
  cut           \* history: done loads that their last poll had no time for

pool == <<nref, state, loads, at, for, wake>>
mgrsHistory == <<failed, idle, hasty, reborn, robbed, cut>>
mgrsVars == <<pool, mgr, done, busy, poolfault, ninits, nloads, mgrsHistory>>

Up(m) == mgr[m] \in {"up", "select", "scan"}
Users == {m \in Mgrs : Up(m)}
Goto(m, pc) == mgr' = [mgr EXCEPT ![m] = pc]

\* A call, by a manager that is in no other; most use the pool.
Calls(m) == poolfault = "none" /\ mgr[m] = "up"
CallsPool(m) == Calls(m) /\ state = "running"

\* The mutex that adding, waiting and the last release lock was destroyed.
StoppedPool(m) ==
  /\ Calls(m) /\ state = "stopped"
  /\ poolfault' = "stopped_pool"
  /\ UNCHANGED <<pool, mgr, done, busy, ninits, nloads, mgrsHistory>>

-----------------------------------------------------------------------------
(* resman_init.                                                            *)

\* Mutant: the creator's reference is counted, too.
NewRef_Counted == IF state = "none" THEN 2 ELSE nref + 1

\* calloc, and the addref.
NewRef == IF state = "none" THEN 1 ELSE nref + 1

\* The first one creates the pool.
InitCall(m) ==
  /\ poolfault = "none" /\ busy = NoMgr
  /\ mgr[m] = "none" /\ ninits < MaxInits /\ ninits' = ninits + 1
  /\ nref' = NewRef
  /\ state' = IF state = "none" THEN "running" ELSE state
  /\ UNCHANGED <<loads, at, for, wake, done, busy, poolfault, nloads, idle, hasty, robbed,
                 cut>>

InitOk(m) ==
  /\ InitCall(m)
  /\ Goto(m, "up")
  /\ reborn' = IF state = "stopped" THEN reborn \cup {m} ELSE reborn
  /\ UNCHANGED failed

\* An array or the file monitor cannot be had: the reference stays.
InitFails(m) ==
  /\ InitCall(m)
  /\ failed' = TRUE
  /\ UNCHANGED <<mgr, reborn>>

-----------------------------------------------------------------------------
(* The worker.                                                             *)

TakeLoad ==
  /\ poolfault = "none" /\ state = "running" /\ at = "idle" /\ loads # <<>>
  /\ at' = "work" /\ for' = Head(loads) /\ loads' = Tail(loads)
  /\ UNCHANGED <<nref, state, wake, mgr, done, busy, poolfault, ninits, nloads, mgrsHistory>>

\* work_func locks and flags a resource of the manager; if that is gone,
\* what was freed.
FlagLoad ==
  /\ poolfault = "none" /\ at = "work"
  /\ \/ /\ Up(for)
        /\ at' = "report" /\ done' = [done EXCEPT ![for] = @ + 1]
        /\ UNCHANGED poolfault
     \/ /\ ~Up(for)
        /\ poolfault' = "freed_manager" /\ UNCHANGED <<at, done>>
  /\ UNCHANGED <<nref, state, loads, for, wake, mgr, busy, ninits, nloads, mgrsHistory>>

\* Mutant: a byte only when the queue is empty.
ReportLoad_Last ==
  /\ poolfault = "none" /\ at = "report"
  /\ at' = "idle" /\ for' = NoMgr
  /\ wake' = (wake \/ loads = <<>>)
  /\ UNCHANGED <<nref, state, loads, mgr, done, busy, poolfault, ninits, nloads, mgrsHistory>>

\* --nactive, and a byte in the pipe.
ReportLoad ==
  /\ poolfault = "none" /\ at = "report"
  /\ at' = "idle" /\ for' = NoMgr
  /\ wake' = TRUE
  /\ UNCHANGED <<nref, state, loads, mgr, done, busy, poolfault, ninits, nloads, mgrsHistory>>

-----------------------------------------------------------------------------
(* The calls of a manager.                                                 *)

AddLoad(m) ==
  /\ CallsPool(m) /\ nloads < MaxLoads
  /\ nloads' = nloads + 1
  /\ loads' = Append(loads, m)
  /\ idle' = idle \ {m}
  /\ UNCHANGED <<nref, state, at, for, wake, mgr, done, busy, poolfault, ninits,
                 failed, hasty, reborn, robbed, cut>>

\* Mutant: the job of the worker does not count.
NoJobs_Queue == loads = <<>>

NoJobs == loads = <<>> /\ at = "idle"

\* resman_wait_all, for the loads of all managers.
WaitForAll(m) ==
  /\ CallsPool(m) /\ NoJobs
  /\ idle' = idle \cup {m}
  /\ UNCHANGED <<pool, mgr, done, busy, poolfault, ninits, nloads, failed, hasty,
                 reborn, robbed, cut>>

\* resman_wait: select.
Sleep(m) ==
  /\ CallsPool(m)
  /\ Goto(m, "select")
  /\ UNCHANGED <<pool, done, busy, poolfault, ninits, nloads, mgrsHistory>>

Wake(m) ==
  /\ poolfault = "none" /\ mgr[m] = "select" /\ wake
  /\ Goto(m, "up")
  /\ UNCHANGED <<pool, done, busy, poolfault, ninits, nloads, mgrsHistory>>

\* resman_poll empties the pipe of all managers,
EmptyPipe(m) ==
  /\ CallsPool(m)
  /\ wake' = FALSE
  /\ Goto(m, "scan")
  /\ robbed' = IF wake THEN robbed \cup (Users \ {m}) ELSE robbed
  /\ UNCHANGED <<nref, state, loads, at, for, done, busy, poolfault, ninits, nloads,
                 failed, idle, hasty, reborn, cut>>

\* and then calls back for its own loads that are done, all of them,
Callbacks(m) ==
  /\ poolfault = "none" /\ mgr[m] = "scan"
  /\ Goto(m, "up")
  /\ done' = [done EXCEPT ![m] = 0] /\ cut' = [cut EXCEPT ![m] = 0]
  /\ robbed' = robbed \ {m}
  /\ UNCHANGED <<pool, busy, poolfault, ninits, nloads, failed, idle, hasty, reborn>>

\* or at least one, until the time slice is over: the others stay flagged.
CutShort(m) ==
  /\ poolfault = "none" /\ mgr[m] = "scan"
  /\ Goto(m, "up")
  /\ \E left \in 1..done[m]-1 :
       done' = [done EXCEPT ![m] = left] /\ cut' = [cut EXCEPT ![m] = left]
  /\ UNCHANGED <<pool, busy, poolfault, ninits, nloads, failed, idle, hasty, reborn,
                 robbed>>

-----------------------------------------------------------------------------
(* resman_destroy frees the resources, and releases the pool.              *)

\* Mutant: one user is left.
IsLastRef_Early == nref <= 2

IsLastRef == nref <= 1

DestroyMgr(m) ==
  /\ Calls(m) /\ busy = NoMgr
  /\ nref' = nref - 1
  /\ hasty' = IF m \in idle THEN hasty ELSE hasty \cup {m}
  /\ UNCHANGED <<at, for, wake, done, poolfault, ninits, nloads, failed, idle, reborn, robbed,
                 cut>>

Release(m) ==
  /\ DestroyMgr(m) /\ ~IsLastRef
  /\ Goto(m, "gone")
  /\ UNCHANGED <<state, loads, busy>>

\* resman_tpool_destroy empties the queue, and waits for the worker.
ReleaseLast(m) ==
  /\ DestroyMgr(m) /\ IsLastRef /\ state = "running"
  /\ Goto(m, "leaving")
  /\ state' = "stopping" /\ loads' = <<>> /\ busy' = m

\* thread_pool still points to it.
PoolStops(m) ==
  /\ poolfault = "none" /\ mgr[m] = "leaving" /\ at = "idle"
  /\ Goto(m, "gone")
  /\ state' = "stopped" /\ busy' = NoMgr
  /\ UNCHANGED <<nref, loads, at, for, wake, done, poolfault, ninits, nloads, mgrsHistory>>

MgrsInit ==
  /\ nref = 0 /\ state = "none" /\ loads = <<>> /\ at = "idle" /\ for = NoMgr /\ wake = FALSE
  /\ mgr = [m \in Mgrs |-> "none"] /\ done = [m \in Mgrs |-> 0]
  /\ busy = NoMgr /\ poolfault = "none" /\ ninits = 0 /\ nloads = 0
  /\ failed = FALSE /\ idle = Mgrs /\ hasty = {} /\ reborn = {} /\ robbed = {}
  /\ cut = [m \in Mgrs |-> 0]

MgrsNext ==
  \/ TakeLoad \/ FlagLoad \/ ReportLoad
  \/ \E m \in Mgrs :
       \/ InitOk(m) \/ InitFails(m) \/ StoppedPool(m)
       \/ AddLoad(m) \/ WaitForAll(m) \/ Sleep(m) \/ Wake(m) \/ EmptyPipe(m)
       \/ Callbacks(m) \/ CutShort(m) \/ Release(m) \/ ReleaseLast(m) \/ PoolStops(m)

MgrsSpec == MgrsInit /\ [][MgrsNext]_mgrsVars

-----------------------------------------------------------------------------
\* A manager's pool runs, whatever the other managers do, unless the manager
\* got a pool that was stopped before it came (resman.c:72, 86; tpool.c:169).
PoolRuns == \A m \in Mgrs : Up(m) /\ m \notin reborn => state = "running"

\* The pool is stopped with its last manager, unless a resman_init that failed
\* has kept a reference (resman.c:86-126, 148).
LastStopsPool ==
  ~failed /\ busy = NoMgr /\ Users = {} => state \in {"none", "stopped"}

\* When a manager was destroyed right after wait_all, no job of it is left in
\* the pool that others go on using (resman.c:142-148, 258).
GoneHasNoJobs ==
  \A m \in Mgrs : mgr[m] = "gone" /\ m \notin hasty =>
    /\ \A k \in 1..Len(loads) : loads[k] # m
    /\ ~(at = "work" /\ for = m)

\* A manager that sleeps in resman_wait on a finished load has a byte to wake
\* it, or will have, unless another manager has emptied their pipe, or the load
\* is one that its own last poll left when its time slice was over
\* (resman.c:288, 336-339, 449).
SleeperWakes ==
  \A m \in Mgrs : mgr[m] = "select" /\ done[m] > cut[m] /\ m \notin robbed =>
    wake \/ (at = "report" /\ for = m)

=============================================================================
