------------------------------- MODULE Resman -------------------------------
(***************************************************************************)
(* The resource manager (src/resman.c): the thread that calls resman_*,    *)
(* the workers that run work_func, and the struct resource blocks they     *)
(* share.  The pool is the one JobPool specifies: a queue, jobs that       *)
(* start in order, waits that return when few enough are left.             *)
(*                                                                         *)
(* Fields of a resource are written by both sides, some under its lock and *)
(* some not; a step is a stretch of code whose effect the other side sees  *)
(* at once.  The program is followed up to the first step that             *)
(* dereferences NULL or a freed block ("fault"): what it does then is not  *)
(* defined.                                                                *)
(***************************************************************************)
EXTENDS Integers, Sequences, FiniteSets

CONSTANTS Names,     \* file names
          Objs,      \* the struct resource blocks that malloc can return
          Workers,   \* the worker threads of the pool
          NULL,
          Ops,       \* the calls the application makes, besides its main loop
          Confs,     \* how the application may have set things up
          MaxEvents  \* how often files change on disk

\* The main loop calls resman_poll, or resman_wait and then resman_poll; is
\* RESMAN_OPT_TIMESLICE positive, and is there a done_func?
Setups == [app : {"poll", "wait"}, slice : BOOLEAN, done_func : BOOLEAN]

ASSUME ResmanAssumption ==
  /\ NULL \notin Names \cup Objs \cup Workers
  /\ Confs \subseteq Setups
  /\ MaxEvents \in Nat
  /\ IsFiniteSet(Objs) /\ IsFiniteSet(Workers)

VARIABLES
  conf,    \* how the application has set things up
  slot,    \* rman->res, the array of resource pointers
  obj,     \* the contents of each block
  block,   \* "unused", "live" or "freed"
  lock,    \* the worker that holds the lock of each resource, or NULL
  queue,   \* the tasks in the pool's queue, each by its resource
  wpc, wobj,     \* where each worker is, and the resource of its task
  mpc, i, target, \* where the main thread is; its local variables
  wake,    \* is there a byte in the pool's wait pipe?
  event,   \* the unread inotify event, or NULL
  nresmap, \* how many keys the tree of watches has
  stale,   \* history: files changed since they were last read
  nevents, \* history: file changes so far
  fault    \* "none", "null_deref" or "use_after_free"

shared == <<slot, obj, block, lock, queue>>
worker == <<wpc, wobj>>
main == <<mpc, i, target>>
files == <<event, stale, nevents>>
vars == <<conf, shared, worker, main, wake, nresmap, files, fault>>

\* Mutant: the file is watched from the start.
NewRes_Watched(n) ==
  [name |-> n, pending |-> FALSE, done |-> FALSE, del |-> FALSE, loads |-> 0,
   result |-> 0, timer |-> "off", watch |-> "on", good |-> FALSE,
   asked |-> FALSE]

\* memset(res, 0, ...) and the name.  timer is reload_timeout: off, armed (in
\* the future) or due.  watch is nfd: off, on, or left set when the watch was
\* dropped.  History: good, a load has succeeded; asked, the caller removed it.
NewRes(n) ==
  [name |-> n, pending |-> FALSE, done |-> FALSE, del |-> FALSE, loads |-> 0,
   result |-> 0, timer |-> "off", watch |-> "off", good |-> FALSE,
   asked |-> FALSE]

Ids == 1..Len(slot)
Live == {o \in Objs : block[o] = "live"}
Queued == {queue[k] : k \in 1..Len(queue)}
PendingJobs == Len(queue) + Cardinality({w \in Workers : wpc[w] # "idle"})

Set(o, field, v) == obj' = [obj EXCEPT ![o] = [@ EXCEPT ![field] = v]]
MainGoto(label) == mpc' = label /\ UNCHANGED <<i, target>>
NextIndex == i' = i + 1 /\ UNCHANGED <<mpc, target>>

-----------------------------------------------------------------------------
(* Workers: work_func, between the pool's taking and reporting of the job. *)

\* A worker that is at "from" goes on to "to" if its resource still exists.
Work(w, from, to) ==
  /\ wpc[w] = from
  /\ block[wobj[w]] = "live"
  /\ wpc' = [wpc EXCEPT ![w] = to]
  /\ UNCHANGED <<conf, slot, block, queue, wobj, main, wake, event, nevents,
                 fault>>

\* The worker is inside work_func, and its resource is gone.
UseAfterFree(w) ==
  /\ wpc[w] \notin {"idle", "report"}
  /\ block[wobj[w]] = "freed"
  /\ fault' = "use_after_free"
  /\ UNCHANGED <<conf, shared, worker, main, wake, nresmap, files>>

\* thread_func takes the first job.
Take(w) ==
  /\ wpc[w] = "idle" /\ queue # <<>>
  /\ wpc' = [wpc EXCEPT ![w] = "begin"]
  /\ wobj' = [wobj EXCEPT ![w] = Head(queue)]
  /\ queue' = Tail(queue)
  /\ UNCHANGED <<conf, slot, obj, block, lock, main, wake, nresmap, files, fault>>

\* Lock, free the task, unlock.
BeginTask(w) ==
  /\ Work(w, "begin", "load")
  /\ lock[wobj[w]] = NULL
  /\ UNCHANGED <<obj, lock, nresmap, stale>>

\* load_func reads the file; its result is stored without the lock.
Load(w) ==
  /\ Work(w, "load", "loaded")
  /\ \E r \in {0, -1} :
       obj' = [obj EXCEPT ![wobj[w]].result = r, ![wobj[w]].good = @ \/ r = 0]
  /\ stale' = stale \ {obj[wobj[w]].name}
  /\ UNCHANGED <<lock, nresmap>>

\* Mutant: the resource stays pending.
ClearPending_Not(w) ==
  /\ Work(w, "loaded", "flag")
  /\ lock[wobj[w]] = NULL
  /\ lock' = [lock EXCEPT ![wobj[w]] = w]
  /\ UNCHANGED <<obj, nresmap, stale>>

ClearPending(w) ==
  /\ Work(w, "loaded", "flag")
  /\ lock[wobj[w]] = NULL
  /\ lock' = [lock EXCEPT ![wobj[w]] = w]
  /\ Set(wobj[w], "pending", FALSE)
  /\ UNCHANGED <<nresmap, stale>>

\* resman_start_watch: once, and never again after the watch was dropped.  The
\* file, which has just been read, is still there.
StartWatch(r) == IF r.watch = "off" THEN [r EXCEPT !.watch = "on"] ELSE r

\* Resource o becomes r, and its watch, if new, a key of nresmap.
Store(o, r) ==
  /\ obj' = [obj EXCEPT ![o] = r]
  /\ nresmap' = IF r.watch # obj[o].watch THEN nresmap + 1 ELSE nresmap

\* What work_func does with a finished load.
Flagged(r) ==
  IF conf.done_func THEN [r EXCEPT !.done = TRUE]
  ELSE IF r.result # -1 THEN StartWatch(r)
  ELSE IF r.loads = 0 THEN [r EXCEPT !.del = TRUE]
  ELSE r

FlagDone(w) ==
  /\ Work(w, "flag", "unlock")
  /\ Store(wobj[w], Flagged(obj[wobj[w]]))
  /\ UNCHANGED <<lock, stale>>

Unlock(w) ==
  /\ Work(w, "unlock", "report")
  /\ lock' = [lock EXCEPT ![wobj[w]] = NULL]
  /\ UNCHANGED <<obj, nresmap, stale>>

\* Back in thread_func: --nactive and a byte in the pipe.
Report(w) ==
  /\ wpc[w] = "report"
  /\ wpc' = [wpc EXCEPT ![w] = "idle"]
  /\ wobj' = [wobj EXCEPT ![w] = NULL]
  /\ wake' = TRUE
  /\ UNCHANGED <<conf, shared, main, nresmap, files, fault>>

WorkerStep(w) ==
  /\ fault = "none"
  /\ \/ Take(w) \/ BeginTask(w) \/ Load(w) \/ ClearPending(w) \/ FlagDone(w)
     \/ Unlock(w) \/ Report(w) \/ UseAfterFree(w)

-----------------------------------------------------------------------------
(* The main thread: resman_add, resman_remove.                             *)

Call(op) == mpc = "idle" /\ op \in Ops

\* Mutant: a resource that is to be deleted is not found.
Stops_NotRemoved(n) ==
  {k \in Ids : slot[k] = NULL \/ (obj[slot[k]].name = n /\ ~obj[slot[k]].del)}

\* find_resource stops at the name, and at an erased slot: strcmp of
\* rman->res[i]->name.
Stops(n) == {k \in Ids : slot[k] = NULL \/ obj[slot[k]].name = n}
FirstStop(n) == CHOOSE k \in Stops(n) : \A l \in Stops(n) : k <= l

NullDeref(n) ==
  /\ Call("add")
  /\ Stops(n) # {} /\ slot[FirstStop(n)] = NULL
  /\ fault' = "null_deref"
  /\ UNCHANGED <<conf, shared, worker, main, wake, nresmap, files>>

\* Not found, so no slot is erased: add_resource appends, and resman_reload
\* queues the first load.
Add(n, o) ==
  /\ Call("add")
  /\ Stops(n) = {}
  /\ block[o] = "unused"
  /\ block' = [block EXCEPT ![o] = "live"]
  /\ obj' = [obj EXCEPT ![o] = [NewRes(n) EXCEPT !.pending = TRUE]]
  /\ slot' = Append(slot, o)
  /\ queue' = Append(queue, o)
  /\ UNCHANGED <<conf, lock, worker, main, wake, nresmap, files, fault>>

Remove(k) ==
  /\ Call("remove")
  /\ slot[k] # NULL
  /\ obj' = [obj EXCEPT ![slot[k]].del = TRUE, ![slot[k]].asked = TRUE]
  /\ UNCHANGED <<conf, slot, block, lock, queue, worker, main, wake, nresmap, files,
                 fault>>

-----------------------------------------------------------------------------
(* resman_poll.                                                            *)

Poll ==
  /\ mpc = "idle" /\ conf.app = "poll"
  /\ mpc' = "sweep" /\ i' = 1 /\ UNCHANGED target
  /\ UNCHANGED <<conf, shared, worker, wake, nresmap, files, fault>>

\* rb_deletei dereferences NULL when the key is not there, and when it is the
\* only one; resman_stop_watch calls it for every resource whose nfd is set.
CanStopWatch(r) == r.watch = "off" \/ (r.watch = "on" /\ nresmap > 1)

\* remove_resource: the watch, the lock and the block go, the slot is NULL.
RemoveResource(k) ==
  LET r == obj[slot[k]] IN
    \/ /\ CanStopWatch(r)
       /\ block' = [block EXCEPT ![slot[k]] = "freed"]
       /\ slot' = [slot EXCEPT ![k] = NULL]
       /\ nresmap' = IF r.watch = "on" THEN nresmap - 1 ELSE nresmap
       /\ UNCHANGED fault
    \/ /\ ~CanStopWatch(r)
       /\ fault' = "null_deref"
       /\ UNCHANGED <<block, slot, nresmap>>

\* The first loop: delete_pending && !pending, read without the lock.
Deletable(k) ==
  slot[k] # NULL /\ obj[slot[k]].del /\ ~obj[slot[k]].pending

Sweep ==
  /\ mpc = "sweep" /\ i \in Ids
  /\ \/ Deletable(i) /\ RemoveResource(i)
     \/ ~Deletable(i) /\ UNCHANGED <<slot, block, nresmap, fault>>
  /\ NextIndex
  /\ UNCHANGED <<conf, obj, lock, queue, worker, wake, files>>

\* resman_check_watch, when the watch of the event is in the tree.
Watched == event # NULL /\ block[event.obj] = "live" /\ obj[event.obj].watch = "on"

CheckWatch ==
  /\ mpc = "sweep" /\ i \notin Ids
  /\ MainGoto("drain")
  /\ event' = NULL
  /\ UNCHANGED <<conf, slot, block, lock, worker, wake, stale, nevents>>

NoEvent ==
  /\ CheckWatch /\ ~Watched
  /\ UNCHANGED <<obj, queue, nresmap, fault>>

\* A change arms the timer of the delayed reload.
Modified ==
  /\ CheckWatch /\ Watched /\ event.kind = "modified"
  /\ Set(event.obj, "timer", "armed")
  /\ UNCHANGED <<queue, nresmap, fault>>

\* A new file under the old name is watched, by one more key of the tree, and
\* read at once.
Replaced ==
  /\ CheckWatch /\ Watched /\ event.kind = "replaced"
  /\ Set(event.obj, "pending", TRUE)
  /\ queue' = Append(queue, event.obj)
  /\ nresmap' = nresmap + 1
  /\ UNCHANGED fault

\* Of a file that is gone the watch is dropped.
Deleted ==
  /\ CheckWatch /\ Watched /\ event.kind = "deleted"
  /\ Set(event.obj, "watch", "dropped")
  /\ IF nresmap > 1 THEN nresmap' = nresmap - 1 /\ UNCHANGED fault
     ELSE fault' = "null_deref" /\ UNCHANGED nresmap
  /\ UNCHANGED queue

\* Empty the pipe; without a done_func that is all.
Drain ==
  /\ mpc = "drain"
  /\ wake' = FALSE
  /\ mpc' = (IF conf.done_func THEN "scan" ELSE "idle")
  /\ i' = 1 /\ UNCHANGED target
  /\ UNCHANGED <<conf, shared, worker, nresmap, files, fault>>

\* The second loop, under the lock of each resource.  The application's
\* done_func returns -1 exactly when the load failed.
Scan(o) ==
  /\ mpc = "scan" /\ i \in Ids
  /\ o # NULL /\ slot[i] = o /\ lock[o] = NULL
  /\ UNCHANGED <<conf, lock, worker, wake, files>>

\* Mutant: no reload while another one is pending.
ScanReload_IfIdle(o) ==
  /\ Scan(o) /\ ~obj[o].done /\ obj[o].timer = "due"
  /\ obj' = [obj EXCEPT ![o].timer = "off", ![o].pending = TRUE]
  /\ queue' = IF obj[o].pending THEN queue ELSE Append(queue, o)
  /\ NextIndex
  /\ UNCHANGED <<slot, block, nresmap, fault>>

\* The delayed reload.
ScanReload(o) ==
  /\ Scan(o) /\ ~obj[o].done /\ obj[o].timer = "due"
  /\ obj' = [obj EXCEPT ![o].timer = "off", ![o].pending = TRUE]
  /\ queue' = Append(queue, o)
  /\ NextIndex
  /\ UNCHANGED <<slot, block, nresmap, fault>>

ScanSkip(o) ==
  /\ Scan(o) /\ ~obj[o].done /\ obj[o].timer # "due"
  /\ NextIndex
  /\ UNCHANGED <<slot, block, obj, queue, nresmap, fault>>

\* Mutant: also a resource that was good before.
ScanFailed_Always(o) ==
  /\ Scan(o) /\ obj[o].done /\ obj[o].result = -1
  /\ Set(o, "done", FALSE)
  /\ RemoveResource(i)
  /\ NextIndex
  /\ UNCHANGED queue

\* The first load has failed.
ScanFailed(o) ==
  /\ Scan(o) /\ obj[o].done /\ obj[o].result = -1 /\ obj[o].loads = 0
  /\ Set(o, "done", FALSE)
  /\ RemoveResource(i)
  /\ NextIndex
  /\ UNCHANGED queue

\* With a positive time slice the loop may stop after any done callback.
ScanDone(o) ==
  /\ Scan(o) /\ obj[o].done /\ (obj[o].result # -1 \/ obj[o].loads > 0)
  /\ Store(o, StartWatch([obj[o] EXCEPT !.done = FALSE, !.loads = @ + 1]))
  /\ NextIndex \/ (conf.slice /\ MainGoto("idle"))
  /\ UNCHANGED <<slot, block, queue, fault>>

ScanNull ==
  /\ mpc = "scan" /\ i \in Ids /\ slot[i] = NULL
  /\ NextIndex
  /\ UNCHANGED <<conf, shared, worker, wake, nresmap, files, fault>>

\* Mutant: the pipe is emptied once more, after the loop.
ScanEnd_Drains ==
  /\ mpc = "scan" /\ i \notin Ids
  /\ MainGoto("idle")
  /\ wake' = FALSE
  /\ UNCHANGED <<conf, shared, worker, nresmap, files, fault>>

ScanEnd ==
  /\ mpc = "scan" /\ i \notin Ids
  /\ MainGoto("idle")
  /\ UNCHANGED <<conf, shared, worker, wake, nresmap, files, fault>>

-----------------------------------------------------------------------------
(* The calls that wait.                                                    *)

\* resman_wait: select on the pool's pipe and on inotify; the application
\* polls when it returns.
Wait ==
  /\ mpc = "idle" /\ conf.app = "wait"
  /\ MainGoto("select")
  /\ UNCHANGED <<conf, shared, worker, wake, nresmap, files, fault>>

Select ==
  /\ mpc = "select"
  /\ wake \/ event # NULL
  /\ mpc' = "sweep" /\ i' = 1 /\ UNCHANGED target
  /\ UNCHANGED <<conf, shared, worker, wake, nresmap, files, fault>>

WaitAll ==
  /\ Call("wait_all")
  /\ MainGoto("wait_all")
  /\ UNCHANGED <<conf, shared, worker, wake, nresmap, files, fault>>

AllDone ==
  /\ mpc = "wait_all" /\ PendingJobs = 0
  /\ MainGoto("idle")
  /\ UNCHANGED <<conf, shared, worker, wake, nresmap, files, fault>>

\* resman_wait_job(k): while it is pending, wait until there is one job less
\* than the pool had when it was counted.
WaitJob(k) ==
  /\ Call("wait_job")
  /\ slot[k] # NULL
  /\ mpc' = "test" /\ i' = k /\ UNCHANGED target
  /\ UNCHANGED <<conf, shared, worker, wake, nresmap, files, fault>>

TestPending ==
  /\ mpc = "test"
  /\ lock[slot[i]] = NULL
  /\ MainGoto(IF obj[slot[i]].pending THEN "count" ELSE "idle")
  /\ UNCHANGED <<conf, shared, worker, wake, nresmap, files, fault>>

CountJobs ==
  /\ mpc = "count"
  /\ target' = PendingJobs - 1
  /\ mpc' = "wait_pending" /\ UNCHANGED i
  /\ UNCHANGED <<conf, shared, worker, wake, nresmap, files, fault>>

WaitPending ==
  /\ mpc = "wait_pending" /\ PendingJobs <= target
  /\ MainGoto("test")
  /\ UNCHANGED <<conf, shared, worker, wake, nresmap, files, fault>>

-----------------------------------------------------------------------------
(* resman_destroy: the resources are freed, then the pool is released,     *)
(* which empties the queue and joins the workers.                          *)

Destroy ==
  /\ Call("destroy")
  /\ block' = [o \in Objs |-> IF o \in Live THEN "freed" ELSE block[o]]
  /\ slot' = <<>>
  /\ MainGoto("release")
  /\ UNCHANGED <<conf, obj, lock, queue, worker, wake, nresmap, files, fault>>

Release ==
  /\ mpc = "release"
  /\ queue' = <<>>
  /\ MainGoto("join")
  /\ UNCHANGED <<conf, slot, obj, block, lock, worker, wake, nresmap, files, fault>>

Join ==
  /\ mpc = "join"
  /\ \A w \in Workers : wpc[w] = "idle"
  /\ MainGoto("gone")
  /\ UNCHANGED <<conf, shared, worker, wake, nresmap, files, fault>>

MainStep ==
  /\ fault = "none"
  /\ \/ Sweep \/ NoEvent \/ Modified \/ Replaced \/ Deleted \/ Drain
     \/ \E o \in Objs : ScanReload(o) \/ ScanSkip(o) \/ ScanFailed(o) \/ ScanDone(o)
     \/ ScanNull \/ ScanEnd
     \/ Select \/ AllDone \/ TestPending \/ CountJobs \/ WaitPending
     \/ Release \/ Join

MainLoop == fault = "none" /\ (Poll \/ Wait)

MainCall ==
  /\ fault = "none"
  /\ \/ \E n \in Names : NullDeref(n) \/ \E o \in Objs : Add(n, o)
     \/ \E k \in Ids : Remove(k) \/ WaitJob(k)
     \/ WaitAll \/ Destroy

-----------------------------------------------------------------------------
(* The world outside: files change, time passes.  inotify reports a change *)
(* of a file that is watched; events come one at a time.                   *)

FileEvent(o, kind) ==
  /\ fault = "none"
  /\ nevents < MaxEvents /\ event = NULL
  /\ block[o] = "live" /\ obj[o].watch = "on"
  /\ event' = [obj |-> o, kind |-> kind]
  /\ stale' = IF kind = "deleted" THEN stale ELSE stale \cup {obj[o].name}
  /\ nevents' = nevents + 1
  /\ UNCHANGED <<conf, shared, worker, main, wake, nresmap, fault>>

\* 128 ms later.  A poll reads the clock once, before its second loop.
TimeUp(o) ==
  /\ fault = "none"
  /\ mpc # "scan" /\ block[o] = "live" /\ obj[o].timer = "armed"
  /\ Set(o, "timer", "due")
  /\ UNCHANGED <<conf, slot, block, lock, queue, worker, main, wake, nresmap, files,
                 fault>>

Init ==
  /\ conf \in Confs
  /\ slot = <<>> /\ queue = <<>>
  /\ obj = [o \in Objs |-> NULL]
  /\ block = [o \in Objs |-> "unused"]
  /\ lock = [o \in Objs |-> NULL]
  /\ wpc = [w \in Workers |-> "idle"] /\ wobj = [w \in Workers |-> NULL]
  /\ mpc = "idle" /\ i = 1 /\ target = 0
  /\ wake = FALSE /\ event = NULL /\ nresmap = 0 /\ stale = {} /\ nevents = 0
  /\ fault = "none"

Next ==
  \/ \E w \in Workers : WorkerStep(w)
  \/ MainStep \/ MainLoop \/ MainCall
  \/ \E o \in Objs : TimeUp(o) \/ \E kind \in {"modified", "replaced", "deleted"} :
       FileEvent(o, kind)

Spec == Init /\ [][Next]_vars

\* Threads run, loads end, time passes, and the application keeps calling its
\* main loop.
FairSpec ==
  /\ Spec
  /\ \A w \in Workers : SF_vars(WorkerStep(w))
  /\ SF_vars(MainStep) /\ SF_vars(MainLoop)
  /\ \A o \in Objs : SF_vars(TimeUp(o))

-----------------------------------------------------------------------------
(* Safety.                                                                 *)

WorkerLabels == {"idle", "begin", "load", "loaded", "flag", "unlock", "report"}
MainLabels == {"idle", "sweep", "drain", "scan", "select", "wait_all", "test",
               "count", "wait_pending", "release", "join", "gone"}

Resource ==
  [name : Names, pending : BOOLEAN, done : BOOLEAN, del : BOOLEAN,
   loads : Nat, result : {0, -1}, timer : {"off", "armed", "due"},
   watch : {"off", "on", "dropped"}, good : BOOLEAN, asked : BOOLEAN]

\* The type of each variable; a block has contents once it was allocated, and
\* the keys of nresmap are at least the resources that are watched.
TypeOK ==
  /\ conf \in Confs
  /\ slot \in Seq(Objs \cup {NULL})
  /\ block \in [Objs -> {"unused", "live", "freed"}]
  /\ \A o \in Objs : IF block[o] = "unused" THEN obj[o] = NULL ELSE obj[o] \in Resource
  /\ lock \in [Objs -> Workers \cup {NULL}]
  /\ queue \in Seq(Objs)
  /\ wpc \in [Workers -> WorkerLabels] /\ wobj \in [Workers -> Objs \cup {NULL}]
  /\ mpc \in MainLabels /\ i \in Nat /\ target \in Int
  /\ wake \in BOOLEAN
  /\ event \in [obj : Objs, kind : {"modified", "replaced", "deleted"}] \cup {NULL}
  /\ nresmap >= Cardinality({o \in Live : obj[o].watch = "on"}) \/ fault # "none"
  /\ stale \subseteq Names /\ nevents \in 0..MaxEvents
  /\ fault \in {"none", "null_deref", "use_after_free"}

Destroyed == mpc \in {"release", "join", "gone"}

\* A name is in one slot, and the slots hold just the blocks that are not
\* freed: what find and add return is the resource that is loaded and polled,
\* even while it waits for its deletion (resman.c:463, 274).
OneBlockPerName ==
  /\ Live = {slot[k] : k \in Ids} \ {NULL}
  /\ \A k, l \in Ids : slot[k] # NULL /\ slot[l] # NULL
       /\ obj[slot[k]].name = obj[slot[l]].name => k = l

\* The workers that have yet to clear o's pending flag, or to flag it done.
Loading(o) == {w \in Workers : wobj[w] = o /\ wpc[w] \in {"begin", "load", "loaded"}}
Flagging(o) == {w \in Workers : wobj[w] = o /\ wpc[w] = "flag"}

\* A resource that is pending has a job that will say it no longer is, though
\* reload sets the flag without the lock and several reloads may overlap
\* (resman.c:526, 564): wait_job and the deletion both count on it.
PendingIsCovered ==
  \A o \in Live : obj[o].pending => o \in Queued \/ Loading(o) # {}

\* Until its first done callback a resource has one load, queued, worked on or
\* waiting for the callback: nobody else writes the result that callback gets,
\* or restarts what is about to be removed.
OneFirstLoad ==
  conf.done_func => \A o \in Live : obj[o].loads = 0 =>
    Cardinality({k \in 1..Len(queue) : queue[k] = o})
    + Cardinality(Loading(o) \cup Flagging(o))
    + (IF obj[o].done THEN 1 ELSE 0) = 1

\* With a done_func the manager frees nothing on its own account that a task
\* in the queue or a worker inside work_func still points to.
FreedIsUnused ==
  conf.done_func =>
    \A o \in Objs : block[o] = "freed" /\ ~obj[o].asked /\ ~Destroyed =>
      o \notin Queued /\ \A w \in Workers : wobj[w] = o => wpc[w] = "report"

\* A resource that was loaded once is removed only if the caller says so: a
\* failed reload keeps it ("keep it around in case it gets valid again",
\* resman.c:318-321, 568-571).
GoodIsKept ==
  \A o \in Objs : obj[o] # NULL /\ obj[o].good /\ ~obj[o].asked /\ ~Destroyed =>
    block[o] = "live" /\ ~obj[o].del

\* ... as it is when there is a done_func.
GoodIsKeptWhenDone == conf.done_func => GoodIsKept

\* The application does not sleep in resman_wait on a finished load whose
\* callback is still to come, unless the worker has yet to write its byte:
\* poll empties the pipe before it looks (resman.c:288, 304).
NoLostDone ==
  mpc = "select" /\ ~conf.slice =>
    \A o \in Live : obj[o].done =>
      wake \/ \E w \in Workers : wobj[w] = o /\ wpc[w] \in {"unlock", "report"}

\* What is deleted is off the queue and the workers (resman.c:273).
DeletedIsOffTheWorkers ==
  \A o \in Objs : block[o] = "freed" /\ obj[o].asked =>
    o \notin Queued /\ \A w \in Workers : wobj[w] = o => wpc[w] = "report"

(* Liveness.                                                               *)

Over == fault # "none" \/ Destroyed

\* Does every done callback get its poll?  (Not if resman_wait is called while
\* one is left over by the time slice.)
Polled == conf.done_func /\ (conf.app = "poll" \/ ~conf.slice)

Unreported == {o \in Live : obj[o].done}
Unloaded == {o \in Live : obj[o].loads = 0}
Doomed == {o \in Live : obj[o].del}

\* A finished load is reported by the done callback of some later poll; and an
\* added resource is loaded and reported, or removed because it failed.
DoneIsReported ==
  Polled => \A o \in Objs :
    /\ o \in Unreported ~> (Over \/ o \notin Unreported)
    /\ o \in Unloaded ~> (Over \/ o \notin Unloaded)

\* A change of a watched file is followed by a load of it, if the application
\* polls and the resource is not to be deleted.
ChangeIsLoaded ==
  Polled /\ conf.app = "poll" => \A n \in Names :
    n \in stale ~> (Over \/ n \notin {obj[o].name : o \in Live} \cap stale)

\* What the caller removes is destroyed by some later poll.
RemovedIsFreed ==
  conf.app = "poll" => \A o \in Objs :
    o \in Doomed ~> (Over \/ o \notin Doomed)

\* resman_wait_job returns.
WaitJobReturns == mpc = "wait_pending" ~> mpc # "wait_pending"

=============================================================================
