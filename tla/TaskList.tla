------------------------------ MODULE TaskList -------------------------------
(***************************************************************************)
(* The list of free tasks of a manager (resman.c): resman_reload pops a    *)
(* task under the manager's lock, work_func pushes it back under the lock  *)
(* of the resource it was for.  The two exclude nobody, so a step here is  *)
(* one access to the head of the list.                                     *)
(***************************************************************************)
EXTENDS Integers, Sequences, FiniteSets

CONSTANTS Tasks,      \* the struct task blocks that malloc can return
          Resources, Workers, NULL,
          MaxReloads  \* a bound on the calls of resman_reload

VARIABLES tasks,     \* rman->tasks
          next, res, \* the fields of each task
          unused,    \* blocks that malloc has not returned yet
          mpc, mtask, mres, \* the main thread inside resman_reload
          queue,     \* the tasks in the pool
          wpc, wtask, wres,  \* where a worker is, its task, the task's resource
          holder,    \* the worker that has the lock of each resource
          reloads

main == <<mpc, mtask, mres, reloads>>
vars == <<tasks, next, res, unused, main, queue, wpc, wtask, wres, holder>>

-----------------------------------------------------------------------------
\* resman_reload locks the manager; alloc_task reads the head.
AllocRead(r) ==
  /\ mpc = "idle" /\ reloads < MaxReloads
  /\ mres' = r /\ reloads' = reloads + 1
  /\ \/ tasks # NULL /\ mtask' = tasks /\ mpc' = "pop" /\ UNCHANGED unused
     \/ /\ tasks = NULL
        /\ mtask' \in unused /\ unused' = unused \ {mtask'}
        /\ mpc' = "enqueue"
  /\ UNCHANGED <<tasks, next, res, queue, wpc, wtask, wres, holder>>

AllocWrite ==
  /\ mpc = "pop"
  /\ tasks' = next[mtask]
  /\ mpc' = "enqueue"
  /\ UNCHANGED <<next, res, unused, mtask, mres, reloads, queue, wpc, wtask, wres, holder>>

Enqueue ==
  /\ mpc = "enqueue"
  /\ res' = [res EXCEPT ![mtask] = mres]
  /\ queue' = Append(queue, mtask)
  /\ mpc' = "idle" /\ mtask' = NULL
  /\ UNCHANGED <<tasks, next, unused, mres, reloads, wpc, wtask, wres, holder>>

\* work_func: the task's resource is read, and then locked.
Take(w) ==
  /\ wpc[w] = "idle" /\ queue # <<>>
  /\ wtask' = [wtask EXCEPT ![w] = Head(queue)]
  /\ wres' = [wres EXCEPT ![w] = res[Head(queue)]]
  /\ queue' = Tail(queue)
  /\ wpc' = [wpc EXCEPT ![w] = "lock"]
  /\ UNCHANGED <<tasks, next, res, unused, main, holder>>

FreeRead(w) ==
  /\ wpc[w] = "lock" /\ holder[wres[w]] = NULL
  /\ holder' = [holder EXCEPT ![wres[w]] = w]
  /\ next' = [next EXCEPT ![wtask[w]] = tasks]
  /\ wpc' = [wpc EXCEPT ![w] = "push"]
  /\ UNCHANGED <<tasks, res, unused, main, queue, wtask, wres>>

FreeWrite(w) ==
  /\ wpc[w] = "push"
  /\ tasks' = wtask[w]
  /\ wpc' = [wpc EXCEPT ![w] = "idle"] /\ wtask' = [wtask EXCEPT ![w] = NULL]
  /\ holder' = [r \in Resources |-> IF holder[r] = w THEN NULL ELSE holder[r]]
  /\ UNCHANGED <<next, res, unused, main, queue, wres>>

Init ==
  /\ tasks = NULL /\ next = [t \in Tasks |-> NULL] /\ res = [t \in Tasks |-> NULL]
  /\ unused = Tasks
  /\ mpc = "idle" /\ mtask = NULL /\ mres = NULL /\ reloads = 0
  /\ queue = <<>>
  /\ wpc = [w \in Workers |-> "idle"] /\ wtask = [w \in Workers |-> NULL]
  /\ wres = [w \in Workers |-> NULL]
  /\ holder = [r \in Resources |-> NULL]

Next == \/ \E r \in Resources : AllocRead(r)
        \/ AllocWrite \/ Enqueue
        \/ \E w \in Workers : Take(w) \/ FreeRead(w) \/ FreeWrite(w)

Spec == Init /\ [][Next]_vars

-----------------------------------------------------------------------------
\* A task is for one job at a time: resman_reload does not hand out one that is
\* still in the queue, or that a worker has yet to free.  (If it does, one
\* resource is loaded twice and another stays pending for ever.)
TaskInOneJob ==
  /\ \A j, k \in 1..Len(queue) : queue[j] = queue[k] => j = k
  /\ \A k \in 1..Len(queue) : queue[k] # mtask /\ \A w \in Workers : queue[k] # wtask[w]

=============================================================================
