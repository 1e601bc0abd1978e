# A verification of libresman

libresman loads an application's files on background threads, calls the
application back in its own thread when a file has been loaded, and loads it
again when it changes on disk. This directory holds TLA+ models of its parts,
the configurations TLC checks them with, and proofs checked by TLAPS. Paths and
line numbers are those of the repository (`src/tpool.c` is the library's file of
that name).

## The system

| Part | Source | State | Operations |
|---|---|---|---|
| Thread pool | `tpool.c` | job list `workq`, `qsize`, `nactive`, `should_quit`, `in_batch`, `nref`, a mutex, two condition variables, the wait pipe | workers: `thread_func`; clients: enqueue, batches, three waits, pending count, addref/release, destroy |
| Resource manager | `resman.c` | array `res` of resources (name, `pending`, `done_pending`, `delete_pending`, `num_loads`, `result`, `reload_timeout`, `nfd`, lock), list of free tasks | `resman_add`, `remove`, `poll`, `wait*`, `destroy`; on a worker: `work_func` |
| File watcher | `filewatch_linux.c` | inotify descriptor, `nresmap` (descriptor to resource), `modset` | start, stop, check |
| Search tree | `rbtree.c` | a left-leaning red-black tree | insert, delete, find, traverse, clear |
| Dynamic array | `dynarr.c` | elements, capacity | push, pop, resize |
| File watcher (Windows) | `filewatch_win32.c` | `watchdirs` (a directory's event, reference count and items), `wait_handles` | start, stop, check; cleaning of paths |
| The rest | `filewatch_dummy.c`, `timer.c`, `examples/`, build files | | |

How they interact. The application's thread calls the manager, which puts tasks
in the pool; a worker runs `work_func`, which calls the application's load
callback and writes flags in the resource, some under its lock and some not; the
pool writes a byte to the wait pipe. `resman_poll`, in the application's thread,
frees what is marked, asks the watcher for changed files, empties the pipe, and
calls the done callback of each resource that is flagged. `resman_wait` sleeps
until the pipe or inotify is readable. The pool is shared by all managers of the
process.

What is hard, with the properties that are about it (`PROJECT.json`, "hazards",
has each at its line):

- threads that sleep and are woken: a broadcast outside the lock, before the
  counter it is about, or before the flag (`NoLostWakeup`, `WaiterNotStranded`,
  `NoLostDone`, `WaitReturns`, `DestroyReturns`); managers that share one pipe
  (`SleeperWakes`);
- counters and lists kept by hand in several critical sections (`Accounting`,
  `Exclusive`, `WaitSound`), or under two different locks (`TaskInOneJob`);
- things read in one critical section and used in the next (`WaitAnySound`,
  `WaitJobReturns`, `DeletedIsOffTheWorkers`);
- reference counting without a lock, and stopping (`DestroyAlone`,
  `StoppedClean`); the pool that managers come to and leave (`PoolRuns`,
  `LastStopsPool`, `GoneHasNoJobs`);
- several reloads of one resource at once, failures, removals while a load runs
  (`OneFirstLoad`, `PendingIsCovered`, `FreedIsUnused`, `GoodIsKeptWhenDone`);
- files that are replaced and deleted while their events wait to be read
  (`TrackedIsWatched`, `FoundIsLive`, `AssertHasCause`, `LoneChangeIsReloaded`),
  and directories shared by resources that come and go (`DirsAreWatched`,
  `ItemsAreLive`, `WinChangeIsReloaded`);
- in-place surgery on a tree (`FindsAll`, `Balanced`, `DeleteIsSafe`), a path
  (`DirectoryIsFound`) and an array (`Fits`, `ImplementsItemStack`).

## The modules

| Module | What it is |
|---|---|
| `JobPool` | What the pool promises, without threads: jobs start in order, at most so many at a time, each once; an idle-wait returns when nothing is queued or running. |
| `TPool` | `tpool.c`. |
| `TPoolProofs` | Proofs about `TPool`: invariants; that it implements `JobPool`. |
| `Resman` | `resman.c` with what the watcher does to a resource. |
| `ResmanProofs` | Proofs about `Resman`: an inductive invariant and what follows; a second one, on top of it, for what is kept. |
| `TaskList` | The manager's list of free tasks, one access to its head at a time. |
| `Managers` | Several managers on the one pool of the process: `resman_init`, `resman_destroy`, the reference count, the shared pipe. |
| `ManagersProofs` | Proofs about `Managers`. |
| `FileWatch`, `FileWatchProofs` | `filewatch_linux.c`, with the disk and inotify as its surroundings; proofs about it. |
| `WinWatch` | `filewatch_win32.c`: the watching of directories. |
| `WinPath` | `filewatch_win32.c`: `clean_path` and the directory of a file. |
| `WinWatchProofs` | Proofs about `WinWatch` and `WinPath`. |
| `Recursions` | Induction along a measure and the existence of recursive functions, for the proofs about paths and trees. |
| `Maps` | A map that is extended in place, for the two watchers. |
| `RBTree`, `RBTreeProofs` | `rbtree.c`, as functions from trees to trees, and the calls as actions; proofs about it. |
| `ItemStack` | What the dynamic array promises: a stack. |
| `DynArr`, `DynArrProofs` | `dynarr.c`, with memory that runs out; that it is a stack, proved. |
| `MC_TPool`, `MC_Resman`, `MC_TaskList`, `MC_Managers` | Small instances for TLC. |
| `MC_Watchers` | `FileWatch`, `WinWatch` and `WinPath`, small; a variable `which` says which one runs. |
| `MC_Containers` | `RBTree` and `DynArr`, likewise. |

**TPool.** A step is a stretch of code that no other thread can see the inside
of. A client's critical section is one step, enabled when the mutex is free. A
worker's is several, because `should_quit` is written without the mutex
and can change between the test at line 370 and the sleep at 372. `pc` is where a thread is;
the threads asleep on a condition variable are those at `asleep`, or at a label
ending in `zz`, and a broadcast moves them all to where they ask for the mutex
again. `Enqueue` and `Signal` are the two halves of `resman_tpool_enqueue`, `ReleaseLoad` and
`ReleaseStore` those of `--nref`. A client that has a batch open does not wait
for, or let go of, the pool: nobody would wake the workers. `finished`,
`dropped`, `mark` and `spurious` are history. A worker's jobs are members of
`Jobs`, each enqueued once; callbacks are the step `RunJob`. The reference
count starts with one reference for each client.

**Resman.** The main thread runs one call at a time; `mpc` says where in it, and
`i` is the loop variable of `resman_poll`. The pool is taken at the level of
`JobPool`: a queue of tasks, workers that take the first. A worker's labels are
the gaps in `work_func` that the other side can look into: between clearing
`pending` and setting `done_pending`, and between that and the unlock. `slot` is
`rman->res`; `block` says which `struct resource` is allocated or freed. `conf`,
chosen at the start, is how the application uses the library: polling always, or
`resman_wait` and then `resman_poll`; with a time slice or not; with a done
callback or not. Its done callback returns -1 exactly when the load failed, and
does not call the library. The program is followed up to its first dereference
of NULL or of a freed block, which sets `fault` and ends the run: a worker in a
freed resource (`UseAfterFree`), `find_resource` at an erased slot
(`NullDeref`), and the deletion of the only watch, or of one that is not there,
from the tree (`RemoveResource`, `Deleted`; `RBTree` shows that exactly these deletions
crash). A file that has been loaded is still there when its watch is
started. inotify events are taken one at a time; the buffer with several of them
is in `FileWatch`.

**TaskList.** `rman->tasks` is popped by `resman_reload` with the manager's lock
(`AllocRead`, `AllocWrite`) and pushed by `work_func` with the lock of the
resource the task was for (`FreeRead`, `FreeWrite`), so a step is one access to the
head of the list. `next` is the link in each task, and malloc gives a block
when the list is empty.

**Managers.** `nref`, `state` and `loads` are the pool, `mgr` is where each manager is,
`done` its loads that have been flagged and not called back. `InitOk` and
`InitFails` are `resman_init` with and without success after the addref,
`Release`, `ReleaseLast` and `PoolStops` are `resman_destroy`. The static
`thread_pool` is set once and never reset, so there is one pool in a run, and
what happens to a manager that gets it stopped is `StoppedPool`, a fault.
`FlagLoad` is a fault when the manager of the job has been freed. Initialising
and destroying is done by one thread at a time, as the application
must with a static pointer without a lock; all other calls interleave. Each manager has
a done callback; a poll (`EmptyPipe`) ends when all its finished loads are called back
(`Callbacks`), or, after at least one, when its time slice is over (`CutShort`), which a manager
has unless it is turned off (`resman.c:131`, 336). The details of
the pool and of loading are in `TPool` and `Resman`. `idle`, `hasty`,
`reborn`, `robbed`, `cut` and `failed` are history, and say which manager, or which of its loads, a
property excepts.

**FileWatch.** The disk: a name leads to an inode or to none, and `Write`, `Replace`
(a new file under the old name) and `Unlink` change that. The kernel: `watching`
maps descriptors to inodes, and goes, with an event, when the inode goes; equal
events in a row are merged. The code: `Start` and `Remove` are
`resman_start_watch` and `resman_stop_watch` at the first load and the removal,
and a check is `Poll`, `Read` (all there is), one of `Modified`, `Restarted`,
`Dropped`, `Unknown` for the event, `Flush` (the pass over `modset`) and `Scan`
(the delayed reloads, at the end of `resman_poll`). A read that returns several
events gives the first; the others are looked for 16 times too far on, among bytes of
the buffer that most reads have not written, or beyond it. What is found there may pass for any
event (`Junk`), several times, until the count of bytes is used up (`JunkEnds`). It may have
IN_CLOSE_WRITE (`Written`), which no watch asks for (`filewatch_linux.c:74`). `Dangling`,
`RemoveCrashes`, and the failing branches of `Dropped` and `Flush` are the faults. `twice` (in the
check at hand, a file was replaced after its watch was renewed), `misread` (... junk was taken for
IN_CLOSE_WRITE), `several` and `stale` are history. `timer` is
`reload_timeout`, with the passing of time as `TimeUp`.

**WinWatch.** A directory in `watchdirs` has a reference count, its items (the
newest first) and an event; `results` is what a completed read has, `backlog` what
happened after it. `StartInDir` and `StartDir` are `resman_start_watch`, called
after every done callback; `StopUnwatched`, `StopDir`, `StopItem` are
`resman_stop_watch`, with the search that never advances `wprev`
(`Unlinked`) and the removal from `wait_handles` that finds nothing.
`CheckPool` and `CheckDir` are what `resman_check_watch` does with the event that
woke it. `Confused` gives the pairs of resources that `strstr` takes for one another.

**WinPath.** `clean_path` one character at a time on one buffer, from the replacement of
slashes (`Slashes`) through `SkipDot`, `SkipDotDot`, `CopyChar` to the cut at the last
backslash (`Cut`). It does not write a NUL at the new end, so the rest of the
old path is part of what `Cut` looks at; `outside` is the search before
the start of the buffer. The characters, the drive and the names are constants; a path is
any sequence of names, `Dot` and `DotDot`, which `Join` puts together. A name may be empty, two
slashes in a row. `Kept` is what should be left, by what the parts mean and not by what the
code does: a ".." takes the last directory that has a name, and the empty ones after it
(`Parent`). `MeetsTwoSlashes` says where the code, which takes an empty name for a directory, differs.

**RBTree.** A tree is a value: `Nil` or a record with two trees in it, of at most as many
levels as there are keys (`Trees`; that no call makes a tree outgrow this is proved). A C function that
calls itself is a recursive function on these trees, the others are operators; colours are 0 and 1
as in the code, and `Crash` is the result of a function that dereferences NULL. `Pass` is one pass of the loop
in `rb_next`, with its stack; an iteration takes two for each node (`Iterated`). `InsertAll`, of what the
iterator has found, is `rb_copy`.

**DynArr.** `buf` is the memory, `nelem` and `max_elem` as in the header; a
failed allocation (`Fail`) leaves everything and sets the history variable `refused`.

## What is checked

`tlc -config X.cfg MC_Y` in this directory. Deadlock is not checked, since in
every run the clients may stop calling, let go of the pool, or end in a fault; that nobody is
stuck is what the liveness properties are for.

| Run | Bounds | Shows |
|---|---|---|
| `tpool` | 2 workers, 2 clients, 3 jobs, every call, pipe of 2 bytes, 1 spurious wake-up; symmetric | the type and safety invariants, `WaitSound`, `WaitAnySound`, and the refinement of `JobPool` |
| `tpool_live` | 1 worker, 2 clients, 2 jobs, batches | every job is done, the waits return |
| `tpool_destroy` | 2 workers, 1 client | see Findings |
| `resman` | 2 names, 2 resources, 2 workers, 1 file change, every call, 3 setups; symmetric | names and slots, the first load, what is kept, the wake-up of `resman_wait` |
| `resman_live` | 1 resource, 2 workers, 2 file changes, 2 setups | the pending flag and what is freed while reloads overlap; loads are reported, changes read, removals done |
| `resman_waitjob`, `resman_delete` | 1 worker, 1 or 2 names | see Findings |
| `tasklist` | 3 tasks, 2 resources, 1 worker, 6 reloads | see Findings |
| `managers` | 3 managers, 4 calls of `resman_init`, 3 loads; symmetric | when the pool runs and stops, what a destroyed manager leaves, who is woken |
| `watchers` | Linux: 2 resources, 2 changes on disk. Windows: 4 resources in 2 directories, one pair confused, 2 changes. Paths of up to 4 parts | what is tracked is watched, nothing leads to what was freed, the assertion, directories and items, changes are reloaded; the directory of a path |
| `watchers_lost` | as `watchers` | see Findings |
| `containers` | tree: 8 keys, 2 data, every sequence of calls; array: 6 elements, allocations that fail | search, order, balance, safe deletion, copies; capacity, and the refinement of `ItemStack` |

Why the bounds are enough. Two workers are needed for a broadcast to wake one too
many, for two reloads of a resource to overlap, and for `Join` to differ from
joining one; two clients for a race of releases and of batches; three jobs so
that the order of the queue shows while one runs. A full pipe is reached with 2 bytes as it is with 64 KiB.
`resman` has one file change because a first load, its watch and one reload
already need it; the second change, needed for overlapping reloads, is in
`resman_live`, where one resource is enough as they overlap on the same one.
The setup with a time slice *may* stop the scan at any done callback and so
contains the polls that do not. Three managers are one that
sleeps, one that takes its byte, and one that comes or goes meanwhile; the fourth call of
`resman_init` is one that fails, or comes to a stopped pool; a load for each manager is
enough to have one in work, one queued and one done, and two finished loads of one manager are
what a time slice cuts. Two changes
on disk are a file replaced twice in one check, a change behind another in the
queue, or the same name deleted and made again; the second resource is there so that its
watch can be dropped while another lives. Three resources in a directory are needed for
an item that is neither first nor second, the fourth for a second directory.
Four parts of a path are two that are
entered and two that are left again, in any order. The task list goes wrong
with two tasks and one worker; the third gives it something to lose.
Arrays of six elements grow through the capacities 1, 2, 4, 8 and shrink
again; the proof is for every size. Eight keys make a tree of three or four levels, with every case of
deletion: left, right, at the bottom, in the middle; eleven keys gave nothing new.

Fairness. A thread that can run does run. It is strong fairness because most
steps need a mutex that others take in between: a thread that keeps asking for it
gets it in the end, which is what a lock that does not starve gives. Each worker and
each client has its own condition, so that none is assumed to be helped by
another. Load callbacks end; a client that opened a batch closes it (weak
fairness of `EndBatch`); time passes (`TimedOut`, `TimeUp`); in `Resman` the
application goes on calling its main loop (`resman.h:80`, `MainLoop`). In
`FileWatch` and `WinWatch` fairness is weak, as nothing there waits for a lock: the
application goes on polling (`CheckStep`, `CheckDirs`), time passes (`TimeUp`), a worker
loads what was queued (`Load`, `WinLoad`), and the done callback of a load, after
which Windows' watch is started, comes (`WinStart`). `WatchFairness` also has it that a check
comes to the end of what it read (`JunkEnds`, strongly fair: each event takes its length from
the count of bytes), so that `watchers_lost` shows a change that is lost and not a check that goes on forever;
`watchers` does not need it (`WatchersSpec` and `EndingSpec` in `MC_Watchers`). No other call is fair, and
no change on disk is.

## Findings

Each is a run that TLC ends with a counterexample.

- `tpool_destroy`: `resman_tpool_destroy` sets `should_quit` and broadcasts
  without the mutex; a worker between its test and its sleep is never woken, and
  the join never ends (`tpool.c:126-128`, 370-372).
- `resman_waitjob`: `resman_wait_job` may wait for -1 pending jobs
  (`resman.c:240-243`).
- `resman_delete`: a poll frees a resource whose lock a worker still holds
  (`resman.c:274`).
- `tasklist`: a task is pushed on the list of free tasks under the lock of its
  resource and popped under the manager's (`resman.c:50`, 521, 558): one task may serve
  two jobs, or get lost.
- `watchers_lost`: `ev += evsize` on a `struct inotify_event*`
  (`filewatch_linux.c:150`): when one read returns several events only the first is
  seen, as the second is looked for 16 times too far on, and a change may stay without a load.

Seen while modelling, without a run of their own:

- the wait pipe's write end blocks, and is written with the mutex
  held (`tpool.c:360`, 396); a client that only waits, and never polls, waits forever once
  the pipe is full (`tpool_live` leaves room in it: with a pipe of one byte and a client
  that never empties it TLC finds a wait that does not return);
- `tv_nsec` is not normalised (`tpool.c:321`): when it reaches a second,
  `pthread_cond_timedwait` fails at once and the loop spins holding the mutex;
- erased slots are not reusable, and the next lookup dereferences NULL (`resman.c:463`);
- without a done callback a failed *re*load removes the resource
  (`resman.c:572`), and a changed file is never loaded again after a
  plain modification (`resman.c:291`);
- done callbacks that a time slice cut off wait for an unrelated event under
  `resman_wait` (`resman.c:337`), with one manager and with several;
- the destroy callback is called twice for a removed resource (`resman.c:276`, 538);
- removing the only watched resource crashes in `rb_deletei` (`rbtree.c:164`), and the
  last resource of the only directory in `rb_delete` on Windows;
- a manager that is initialised after the last one was destroyed gets the
  stopped pool (`resman.c:82`); a `resman_init` that fails keeps its reference
  (97); a manager that is destroyed with loads in the pool leaves jobs that use freed
  memory (142); one that polls takes the byte that was to wake another (288);
- a file that is replaced again in the check that has just renewed its watch fails the assertion of
  `filewatch_linux.c:172`; so may bytes left in the buffer that are taken for IN_CLOSE_WRITE with
  the key of a file that was replaced;
- on Windows: the event of a directory that is given up stays in `wait_handles` and every
  later wait fails (167), an item that is third or later takes others along
  (199), a resource that is loaded again has two items, `strstr` may reload
  another resource (236), and `clean_path` leaves the rest of the old path
  behind the new one (356) and lets a ".." after two slashes in a row take only the empty name between
  them, so that for `c:\d\\..\f` the directory `c:\d` is watched (337-344);
- IN_CLOSE_WRITE is never asked for (`filewatch_linux.c:74`, 115).

The properties that these would break are stated with the condition that excepts
them, so that they hold, and say, otherwise.

## What is proved

**The pool** (`TPoolProofs`). For every finite set of workers and of clients, every set of jobs, any pipe and any
number of spurious wake-ups (the assumption `PoolAssumption`: workers, clients,
jobs and `NoOne` are told apart, there is a worker, the pipe holds a byte). The
inputs of `timedwait` are arbitrary: `TimeAssumption` is not used.

`IInv` is inductive (`PoolInvariant`). The safety invariants are not, alone:

- `Accounting` needs to know which workers are active: `JobInv` ties the local
  variable `job` to the labels between taking a job and reporting it, and
  `MutexInv` says that only the thread that locked the mutex is in the code under
  it, so that two such stretches never interleave.
- `NoLostWakeup` depends on `EmptyInv`: a worker that has found the queue empty
  and has not slept yet still has the mutex, so the queue stays empty until it
  sleeps; and `in_batch` is set only while some client has a batch open.
- `WaiterNotStranded` depends on `ReportInv`: between the broadcast and the
  decrement of `nactive` the worker has the mutex, so nobody can go to sleep.
- `DestroyAlone` depends on `RefInv`: `nref`, and each copy of it that a release
  in progress has read, is at least the number of clients that still use the pool. A lost update
  can only make `nref` too large, so the pool may leak, and is never
  destroyed early.
- `StoppedClean` depends on `StopInv`, which follows the destroying thread.

There is one lemma per part (`MutexStep`, `JobStep`, ...), with one step per action,
and `NextIInv` puts them together. `WaitIsSound` follows from the invariant: the
test of `resman_tpool_wait` reads counters that `Accounting` ties to the list and the workers.
`WaitAnyIsSound` needs a second invariant, `AnyInv`: as long as no job was settled since
the call, more jobs are pending than the client's target, though it counts and sleeps in two
critical sections. The pending count drops only when a job is settled (`PendingDrops`).
`PoolImplementsJobPool` maps `running` to the jobs that workers hold and
`idlers` to the clients at `wait` or `wait_zz`; every step is a step of `JobPool`
or a stutter (`StepRefines`), and `HeldRoom` shows, by an injection of the held
jobs into the workers, that there is room when a worker takes one.

**The manager** (`ResmanProofs`). For every set of names, of blocks and of workers, any
set of calls and setups and any number of file changes (the assumption `ResmanAssumption`: NULL is
none of them, blocks and workers are finitely many). `ResmanInv` is inductive, and gives
`ResourcesAreUnique`, `PendingHasJob`, `FirstLoadIsSingle`, `FreedIsNotUsed` and
`DoneWakesTheCaller`. Its parts:

- `ResourceType`, `ThreadType`: the types of what the others talk about;
- `SlotsLive`: `OneBlockPerName` block by block: a slot holds a live block, each
  live block has a slot, and no two slots have the same name. `remove_resource`
  erases one slot, and needs it to leave no other to what it frees;
- `Covered` is `PendingIsCovered`, which is inductive beside the others;
- `Fresh`: no task and no worker points to a block that malloc has not returned,
  so a new resource has no job but its own;
- `Locks`: a worker between locking and unlocking a resource is the one that has
  its lock, so no two flag one resource at once;
- `Empty`: once `resman_destroy` has freed the resources none is live;
- `Watch`: until its first done callback a resource has no watch and no timer,
  so nothing reloads it; and only what the caller removed is to be deleted;
- `First`: until then it is queued once, or with one worker, or flagged, and only one
  of these (`OneFirstLoad` without counting, which the provers could not do step by step);
- `FreedOk` is `FreedIsUnused`: it follows from `First` when a failed first load is
  removed;
- `NoDone`: without a done_func nothing is flagged;
- `Lost`: `NoLostDone` at every point of the loop: a flagged load has a byte in
  the pipe, or a worker about to write it, or the poll has not come to its slot yet.

Each action has two lemmas: one says what it does to blocks, threads and queue
(`TakeEffect`), the other goes through the parts of the invariant it
can disturb (`TakeStep`); calls that leave all of this alone share `QuietStep` and
`MainQuiet`. `NextStep` puts them together.

`KeptInv` is added for `LoadedIsKept` (`GoodIsKeptWhenDone`), with `ResmanInv` used in every
step: a resource whose first load has succeeded, and that was not called
back yet, has no other job, so its result is still 0 when the callback reads it
(`FirstGood`); hence what is freed and was not removed had failed (`FreedWasBad`). Only `Load` and
`Add` need an argument of their own; all other steps are instances of
`LeavesKept`. Further on the same ground:

- `ResmanIsTyped`. The part that is not a type is `Keys`: the tree of watches has a key for each
  watched resource. It is counted over the set of watched blocks, which one step changes
  by one block at most, and the guards of `rb_deletei` are what keeps it.
- `WaitAllLoads`: when `resman_wait_all` returns, every resource was loaded and none waits
  for a reload, because `First` and `Covered` give an unloaded or pending resource a job,
  and `PendingJobs` counts all of them.
- `OnlyTheCallerFrees`: with a done_func a worker finds its resource freed only when
  it was removed or the manager destroyed, which is `FreedOk` at the one step that faults.

The last two, and the similar results on faults below, have no run of their own: they
follow from invariants whose consequences the runs check.

**Several managers** (`ManagersProofs`). For every finite set of managers, any number of
inits and loads: `PoolRunsForUsers` rests on counting: `nref` is at least the number of managers
that are up (`RefsCover`), so the last release is the last manager's. It is exactly that number
until a `resman_init` fails (`RefsExact`), hence `LastUserStopsPool`.
`WaitedLeavesNoJobs` holds because a manager in `idle` already has no load queued or in
work (`IdleHasNoJobs`). `SleepersAreWoken` rests on `DoneHasByte`, which is about a manager
that is up, too, as it may come to its `select` with loads done. Both are about loads that were
finished since the last poll: those that it left at the end of its time slice (`cut`) have no byte. `FaultsHaveCauses`: the two faults
happen to the managers in `hasty` and `reborn` and to no other.

**The watcher for Linux** (`FileWatchProofs`). For every finite set of resources, and any number of changes on disk.
`WatchInv` says whom keys, watches and events belong to:

- `OneFile`: no two names lead to one inode;
- `Owned`: what the kernel watches is the present file of the resource its key leads to, under
  its present `nfd`; a file that is watched has one watch (`WdOfFile`);
- `KeysOk`: at most one of the keys that lead to a resource is its `nfd`, the others are left from
  files that were replaced;
- `QueueOk`: between two checks no event leads by such an old key, because the watch went with its last event,
  and a read takes all there is; so none leads to a resource that was freed
  (`QueueLeadsToLive`);
- `TrackedOk`: `TrackedIsWatched` in terms of the set of unread events and the one at hand
  (`TrackedStaysWatched`);
- `ModsetOk`: what is in `modset` is the `nfd` of a resource that the kernel watches, unless the file
  is gone, as long as no file was replaced after its watch was renewed in this check and no junk was taken for
  IN_CLOSE_WRITE; so the assertion needs one of the two (`AssertionHasCause`).

`OnlyJunkDangles`: a freed resource is touched only by way of an event that was made up
of what is found in place of the second of several. Events in a queue are treated as a set
(`EventsIn`), as their order matters to none of this.

**The watcher for Windows** (`WinWatchProofs`). For every finite set of resources, any directories and any pairs that
`strstr` confuses. `WinInv`: each directory has an open event of its own that is waited for
(`EventsOk`); the number of its live resources is at most `nref` (`Counted`), so the last of
them closes it, although a resource that is loaded again is counted twice; each live resource has its directory
(`Covered`). `DirectoriesStayWatched` follows. As long as no resource was started twice, the items are
live and none is there twice (`ItemsOk`), which unlinking keeps although it may lose some: `ItemsStayLive`, and
`OnlyTwiceStartedDangles`.

**Paths on Windows** (also in `WinWatchProofs`). For every alphabet without separators, any drive, names
and number of directories (`PathAssumption`: a name is neither "." nor ".."; it may be empty, two slashes in a
row). The results are about paths that do not climb above the drive and have no ".." after two slashes
in a row (`Ordinary`); there the directory above is the last part (`ParentIs`). `PathInv` (`PathIsCleaned`) relates the buffer to the parts of the path. `Ahead`: what lies at
`ptr` and beyond is as it was, and every other character came from no nearer the beginning. `Copied`: some
number of parts is done, and the first `dest` characters are what is kept of them (`Kept`) and the
part at `ptr` as far as it is copied. From there:

- `DotHere`, `DotDotHere`: the code compares characters at `ptr` and after a slash; what it finds is
  exactly the parts that are "." or "..", never the beginning, the middle or the end of a name, nor the file;
- `PastDotDot`: the search backwards (`PreviousIs`) ends where the last kept part begins, as
  no name has a slash in it; it begins inside the buffer as long as the drive is not taken;
- `MoveAhead`, `MoveCopied`: a copied character overwrites nothing that is still to be read;
- `AtTheEnd`: the last slash of the buffer is the one behind what is kept, if what was removed is no
  longer than the file's name, because what is left behind `dest` then comes out of that name alone.

`DirectoryFound` (`DirectoryIsFound`) follows. That `Join` and `Kept` satisfy their definitions
comes from `UpRecursion`, by induction on the length.

**The array** (`DynArrProofs`). For every set of items and size: `ElementsFit`
rests on the two thresholds (doubled when full, halved at a third) with the rounding of
integer division; `ArrayIsStack` maps the first `nelem` entries of the memory to the stack's items, and
shows push, pop and resize, with and without memory, to be steps of
`ItemStack` or stutters.

**The tree** (`RBTreeProofs`). For every finite set of integer keys and any data (`TreeAssumption`).
What the recursive functions compute is proved for every tree by the least
counterexample: the size or the levels of a tree are naturals, and a set of naturals that
is not empty has a least element (`MeasureInduction` in `Recursions`, and `TreeInduction`; `Recursion` gives
a recursive function that satisfies its definition). `TreeInv` holds after every call,
until one crashes (`TreeIsInvariant`): the tree is one of `Trees`, in order (`Ordered`), balanced
(`Bal`), and has the keys and data of `dict` (`Mirrors`). Its parts need each other:

- `OrderedFits`: in a tree that is in order no key is there twice, so it has at most as many levels as there are
  keys, and the recursive functions are defined on it;
- rotations and colour flips change neither the order nor the entries (`Same`);
- `InsertBal`: insert returns a tree that is balanced but for two red links in a row at the
  top (`Almost`), which `fix_up` one level up repairs, or the root painted black;
- `DeleteIs`: delete goes down only to nodes that are red or have a red left side (`Thick`), and what it
  returns has the entries without the key, and the balance it had. It dereferences NULL only where the key
  is absent or is the last. That depends on the balance: the node freed at the bottom has
  no left side (`Bottom`), which the code asks about (`rbtree.c:351`);
- `WalkIs`: the passes of the iterator over a tree leave its stack as they found it and have returned the tree's
  entries in order; `InsertAllHolds` and `SortedSame`: what is inserted in that order into an empty tree
  gives the same sequence back.

`TreeFindsAll`, `TreeIsBalanced`, `TreeCopyIsFaithful` and `TreeDeleteIsSafe` follow. `TreeInv` speaks of
functions on the set of all trees, too many for TLC, which checks what follows from it.

Left to TLC:

- liveness: fairness and ENABLED are out of the prover's reach;
- `TaskList`, whose one property does not hold.

## Not modelled

- Allocation failures outside the dynamic array, and what its users do with an array
  that did not grow; failures of system calls (`inotify_init`, `pthread_create`,
  the ones of Windows) other than a `resman_init` that fails.
- `resman_tpool_clear` called by anyone but destroy; the free list of work items, which is used
  under the pool's mutex only.
- `nresmap` as memory that two threads change at once, which happens without a done
  callback (`resman.c:578`); reads of `rman->res` by load callbacks
  while it is reallocated (367).
- Accessors (`resman_get_res_*`, setters of callbacks), which read or write one field.
- The destruction of the watchers; two names of one file; more than 64 handles on Windows.
- A file that is renamed away and lives on, as an editor's backup: `Replace` ends the old inode, and its
  watch with it. With the inode alive there would be no IN_IGNORED, and the watch would stay on
  the old file; `TrackedIsWatched` and `LoneChangeIsReloaded` say nothing of that.
- Overflow of the buffer of a completed read on Windows (`RES_BUF_SIZE`, `filewatch_win32.c:29`), or of inotify's queue.
- `filewatch_dummy.c` and `timer.c` have no state; the example and the build files
  are not part of the library.

## Plan

1. `TPool`, `JobPool` and their proofs: done.
2. `Resman` and the proofs of its invariants: done. Left: an abstract specification of
   a resource's life (added, loaded, reported, reloaded, removed) that `Resman` with a
   done_func implements; its jobs given identities, so that its pool can be shown to be `JobPool`.
3. `RBTree`, `DynArr` with their proofs: done.
4. `FileWatch`, `WinWatch` and `WinPath` with their proofs: done. Left: `FileWatch`
   composed with the resources of `Resman`.
5. `Managers` with its proofs: done.
6. `TaskList`: done. Left: a version with the manager's lock taken, shown to be right.
7. `nresmap` as memory shared by the workers and the poll; the array of resources
   likewise.
