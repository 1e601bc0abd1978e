-------------------------------- MODULE TPool --------------------------------
(***************************************************************************)
(* The thread pool (src/tpool.c), one step per stretch of code that no     *)
(* other thread can see the inside of.  A worker is inside thread_func; a  *)
(* client is a thread that calls resman_tpool_*: the thread of a resman,   *)
(* several of which share one pool.                                        *)
(*                                                                         *)
(* A client's critical section that touches nothing outside workq_mutex is *)
(* one step, enabled when the mutex is free.  A worker holds the mutex     *)
(* across several steps, because should_quit is written without it.        *)
(* Malloc failures are left out.                                           *)
(***************************************************************************)
EXTENDS Integers, Sequences, FiniteSets

CONSTANTS Workers,     \* the threads created by resman_tpool_create
          Clients,     \* the threads that call the pool
          Jobs,        \* work items; each is enqueued at most once
          NoOne,       \* no thread, no job
          Ops,         \* the calls that clients make
          PipeCap,     \* bytes that fit in wait_pipe before write() blocks
          MaxSpurious, \* how many spurious wake-ups of a worker there may be
          Usecs,       \* values of tv_usec when timedwait is called
          Millis       \* values of timeout % 1000

ASSUME PoolAssumption ==
  /\ IsFiniteSet(Workers) /\ Workers # {}
  /\ IsFiniteSet(Clients)
  /\ Workers \cap Clients = {}
  /\ NoOne \notin Workers \cup Clients \cup Jobs
  /\ PipeCap \in Nat \ {0}
  /\ MaxSpurious \in Nat

ASSUME TimeAssumption == Usecs \subseteq 0..999999 /\ Millis \subseteq 0..999

Threads == Workers \cup Clients

VARIABLES
  pc,          \* where each thread is
  mutex,       \* the thread that holds workq_mutex, or NoOne
  queue,       \* workq .. workq_tail
  qsize, nactive, should_quit, in_batch, nref,   \* as in the struct
  pipe,        \* bytes in wait_pipe
  job,         \* the local variable job of each worker
  reg,         \* a client's local: the target of wait_pending, or nref as read
  finished,    \* history: jobs that ran and were taken off nactive
  dropped,     \* history: jobs freed by resman_tpool_clear
  batching,    \* the clients that have called begin_batch and owe an end_batch
  mark,        \* history: what was settled when a client called wait_any
  spurious     \* spurious wake-ups so far

flags == <<should_quit, in_batch, nref, batching>>
history == <<finished, dropped, mark, spurious>>
data == <<queue, qsize, nactive, flags, pipe, job, reg, history>>
vars == <<pc, mutex, data>>

-----------------------------------------------------------------------------
(* Condition variables.  The set of threads that sleep on workq_condvar is *)
(* the set of workers at "asleep"; those that sleep on done_condvar are    *)
(* the clients at a "_zz" label.  A broadcast moves all of them to the     *)
(* label at which they want the mutex again.                               *)

DoneWake == [wait_zz |-> "wait", pend_zz |-> "pend", timed_zz |-> "timed"]

BroadcastWork(p) ==
  [t \in Threads |-> IF p[t] = "asleep" THEN "woken" ELSE p[t]]

BroadcastDone(p) ==
  [t \in Threads |-> IF p[t] \in DOMAIN DoneWake THEN DoneWake[p[t]] ELSE p[t]]

Goto(t, label) == pc' = [pc EXCEPT ![t] = label]
Take(t) == mutex = NoOne /\ mutex' = t
Drop(t) == mutex = t /\ mutex' = NoOne

\* send_done_event: a write to a full pipe blocks.
SendDoneEvent == pipe < PipeCap /\ pipe' = pipe + 1

-----------------------------------------------------------------------------
(* Workers: thread_func.                                                   *)

Start(w) ==
  /\ pc[w] = "start"
  /\ Take(w)
  /\ Goto(w, "top")
  /\ UNCHANGED data

\* while(!should_quit) { if(!workq) ...
Top(w) ==
  /\ pc[w] = "top"
  /\ \/ should_quit /\ Goto(w, "exited") /\ Drop(w)
     \/ ~should_quit /\ queue = <<>> /\ Goto(w, "towait") /\ UNCHANGED mutex
     \/ ~should_quit /\ queue # <<>> /\ Goto(w, "next") /\ UNCHANGED mutex
  /\ UNCHANGED data

\* pthread_cond_wait(&workq_condvar): sleeps and releases the mutex.
CondWait(w) ==
  /\ pc[w] = "towait"
  /\ Goto(w, "asleep")
  /\ Drop(w)
  /\ UNCHANGED data

SpuriousWake(w) ==
  /\ pc[w] = "asleep"
  /\ spurious < MaxSpurious
  /\ spurious' = spurious + 1
  /\ Goto(w, "woken")
  /\ UNCHANGED <<mutex, queue, qsize, nactive, flags, pipe, job, reg,
                 finished, dropped, mark>>

\* pthread_cond_wait returns; if(should_quit) break.
Reacquire(w) ==
  /\ pc[w] = "woken"
  /\ mutex = NoOne
  /\ \/ should_quit /\ Goto(w, "exited") /\ UNCHANGED mutex
     \/ ~should_quit /\ Goto(w, "next") /\ mutex' = w
  /\ UNCHANGED data

\* Mutant: the job is not unlinked from the queue.
TakeJob_NotUnlinked(w) ==
  /\ pc[w] = "next" /\ ~should_quit /\ queue # <<>>
  /\ job' = [job EXCEPT ![w] = Head(queue)]
  /\ nactive' = nactive + 1
  /\ Drop(w)
  /\ Goto(w, "work")
  /\ UNCHANGED <<queue, qsize, flags, pipe, reg, history>>

\* while(!should_quit && workq): take the first job, and unlock.
TakeJob(w) ==
  /\ pc[w] = "next" /\ ~should_quit /\ queue # <<>>
  /\ job' = [job EXCEPT ![w] = Head(queue)]
  /\ queue' = Tail(queue)
  /\ nactive' = nactive + 1
  /\ qsize' = qsize - 1
  /\ Drop(w)
  /\ Goto(w, "work")
  /\ UNCHANGED <<flags, pipe, reg, history>>

\* The inner loop ends: go round the outer one, still under the mutex.
GoRound(w) ==
  /\ pc[w] = "next"
  /\ should_quit \/ queue = <<>>
  /\ Goto(w, "top")
  /\ UNCHANGED <<mutex, data>>

\* job->work(job->data), job->done if there is one, free_work_item.
RunJob(w) ==
  /\ pc[w] = "work"
  /\ Goto(w, "relock")
  /\ UNCHANGED <<mutex, data>>

\* Mutant: nobody who waits on done_condvar is woken.
Relock_Silent(w) ==
  /\ pc[w] = "relock"
  /\ Take(w)
  /\ Goto(w, "report")
  /\ UNCHANGED data

\* Lock again; the waiters are woken before nactive is decremented.
Relock(w) ==
  /\ pc[w] = "relock"
  /\ Take(w)
  /\ pc' = [BroadcastDone(pc) EXCEPT ![w] = "report"]
  /\ UNCHANGED data

Report(w) ==
  /\ pc[w] = "report"
  /\ SendDoneEvent
  /\ nactive' = nactive - 1
  /\ job' = [job EXCEPT ![w] = NoOne]
  /\ finished' = finished \cup {job[w]}
  /\ Goto(w, "next")
  /\ UNCHANGED <<mutex, queue, qsize, flags, reg, dropped, mark, spurious>>

WorkerStep(w) ==
  \/ Start(w) \/ Top(w) \/ CondWait(w) \/ Reacquire(w)
  \/ TakeJob(w) \/ GoRound(w)
  \/ RunJob(w) \/ Relock(w) \/ Report(w)

-----------------------------------------------------------------------------
(* Clients: one call at a time.  A client does not wait for, or let go of, *)
(* the pool inside a batch of its own: the workers would never be woken.   *)

Queued == {queue[i] : i \in 1..Len(queue)}
Held == {job[w] : w \in Workers} \ {NoOne}

Call(c, op) ==
  /\ pc[c] = "idle" /\ op \in Ops
  /\ c \in batching => op \in {"enqueue", "batch", "drain"}

Settled == finished \cup dropped

PutJob(c, j, list, size) ==
  /\ Call(c, "enqueue")
  /\ mutex = NoOne
  /\ j \notin Queued \cup Held \cup Settled
  /\ queue' = list
  /\ qsize' = size
  /\ Goto(c, "signal")
  /\ UNCHANGED <<mutex, nactive, flags, pipe, job, reg, history>>

\* Mutants: only the first item is counted; the item goes to the front.
Enqueue_CountsFirst(c, j) ==
  PutJob(c, j, Append(queue, j), IF queue = <<>> THEN qsize + 1 ELSE qsize)
Enqueue_Front(c, j) == PutJob(c, j, <<j>> \o queue, qsize + 1)

\* resman_tpool_enqueue, up to the unlock.
Enqueue(c, j) == PutJob(c, j, Append(queue, j), qsize + 1)

\* Mutant: only the item that finds the queue empty wakes the workers.
Signal_WhenFirst(c) ==
  /\ pc[c] = "signal"
  /\ pc' = [(IF in_batch \/ qsize > 1 THEN pc ELSE BroadcastWork(pc))
             EXCEPT ![c] = "idle"]
  /\ UNCHANGED <<mutex, data>>

\* ... and its end, outside the lock: if(!in_batch) broadcast.
Signal(c) ==
  /\ pc[c] = "signal"
  /\ pc' = [(IF in_batch THEN pc ELSE BroadcastWork(pc)) EXCEPT ![c] = "idle"]
  /\ UNCHANGED <<mutex, data>>

BeginBatch(c) ==
  /\ Call(c, "batch") /\ c \notin batching
  /\ in_batch' = TRUE
  /\ batching' = batching \cup {c}
  /\ UNCHANGED <<pc, mutex, queue, qsize, nactive, should_quit, nref, pipe,
                 job, reg, history>>

\* Mutant: end_batch does not wake the workers.
EndBatch_Silent(c) ==
  /\ Call(c, "batch") /\ c \in batching
  /\ in_batch' = FALSE
  /\ batching' = batching \ {c}
  /\ UNCHANGED <<pc, mutex, queue, qsize, nactive, should_quit, nref, pipe,
                 job, reg, history>>

EndBatch(c) ==
  /\ Call(c, "batch") /\ c \in batching
  /\ in_batch' = FALSE
  /\ batching' = batching \ {c}
  /\ Goto(c, "flush")
  /\ UNCHANGED <<mutex, queue, qsize, nactive, should_quit, nref, pipe, job,
                 reg, history>>

Flush(c) ==
  /\ pc[c] = "flush"
  /\ pc' = [BroadcastWork(pc) EXCEPT ![c] = "idle"]
  /\ UNCHANGED <<mutex, data>>

\* resman_tpool_wait: the loop re-tests whenever the client has the mutex.
CallWait(c) ==
  /\ Call(c, "wait")
  /\ Goto(c, "wait")
  /\ UNCHANGED <<mutex, data>>

\* Mutant: the jobs that are being worked on are forgotten.
WaitTest_QueueOnly(c) ==
  /\ pc[c] = "wait"
  /\ mutex = NoOne
  /\ Goto(c, IF qsize # 0 THEN "wait_zz" ELSE "idle")
  /\ UNCHANGED <<mutex, data>>

WaitTest(c) ==
  /\ pc[c] = "wait"
  /\ mutex = NoOne
  /\ Goto(c, IF nactive # 0 \/ qsize # 0 THEN "wait_zz" ELSE "idle")
  /\ UNCHANGED <<mutex, data>>

\* Mutant: waits for as many jobs as there are now.
CallWaitAny_SameTarget(c) ==
  /\ Call(c, "wait_any")
  /\ mutex = NoOne
  /\ reg' = [reg EXCEPT ![c] = qsize + nactive]
  /\ mark' = [mark EXCEPT ![c] = Settled]
  /\ Goto(c, "pend")
  /\ UNCHANGED <<mutex, queue, qsize, nactive, flags, pipe, job, finished,
                 dropped, spurious>>

\* resman_wait_any: pending_jobs, then wait_pending for one job less.
CallWaitAny(c) ==
  /\ Call(c, "wait_any")
  /\ mutex = NoOne
  /\ reg' = [reg EXCEPT ![c] = qsize + nactive - 1]
  /\ mark' = [mark EXCEPT ![c] = Settled]
  /\ Goto(c, "pend")
  /\ UNCHANGED <<mutex, queue, qsize, nactive, flags, pipe, job, finished,
                 dropped, spurious>>

WaitPendingTest(c) ==
  /\ pc[c] = "pend"
  /\ mutex = NoOne
  /\ Goto(c, IF qsize + nactive > reg[c] THEN "pend_zz" ELSE "idle")
  /\ UNCHANGED <<mutex, data>>

\* resman_tpool_timedwait.  pthread_cond_timedwait refuses a tv_nsec of a
\* second or more with EINVAL, without releasing the mutex.
ValidDeadline(usec, ms) == usec * 1000 + ms * 1000000 < 1000000000

CallTimedWait(c, usec, ms) ==
  /\ Call(c, "timedwait")
  /\ Goto(c, IF ValidDeadline(usec, ms) THEN "timed" ELSE "timed_bad")
  /\ UNCHANGED <<mutex, data>>

TimedTest(c) ==
  /\ pc[c] \in {"timed", "timed_bad"}
  /\ mutex = NoOne
  /\ \/ /\ nactive = 0 /\ qsize = 0
        /\ Goto(c, "idle")
        /\ UNCHANGED mutex
     \/ /\ nactive # 0 \/ qsize # 0
        /\ \/ pc[c] = "timed" /\ Goto(c, "timed_zz") /\ UNCHANGED mutex
           \/ pc[c] = "timed_bad" /\ Goto(c, "spin") /\ mutex' = c
  /\ UNCHANGED data

TimedOut(c) ==
  /\ pc[c] = "timed_zz"
  /\ mutex = NoOne
  /\ Goto(c, "idle")
  /\ UNCHANGED <<mutex, data>>

\* resman_poll empties the (non-blocking) pipe.
Drain(c) ==
  /\ Call(c, "drain")
  /\ pipe' = 0
  /\ UNCHANGED <<pc, mutex, queue, qsize, nactive, flags, job, reg, history>>

-----------------------------------------------------------------------------
(* Release and destroy.  --nref is a plain load and store.                 *)

ReleaseLoad(c) ==
  /\ Call(c, "release")
  /\ reg' = [reg EXCEPT ![c] = nref]
  /\ Goto(c, "release")
  /\ UNCHANGED <<mutex, queue, qsize, nactive, flags, pipe, job, history>>

\* Mutant: destroys when one reference is left.
ReleaseStore_Early(c) ==
  /\ pc[c] = "release"
  /\ nref' = reg[c] - 1
  /\ Goto(c, IF reg[c] - 1 <= 1 THEN "clear" ELSE "gone")
  /\ UNCHANGED <<mutex, queue, qsize, nactive, should_quit, in_batch,
                 batching, pipe, job, reg, history>>

ReleaseStore(c) ==
  /\ pc[c] = "release"
  /\ nref' = reg[c] - 1
  /\ Goto(c, IF reg[c] - 1 <= 0 THEN "clear" ELSE "gone")
  /\ UNCHANGED <<mutex, queue, qsize, nactive, should_quit, in_batch,
                 batching, pipe, job, reg, history>>

\* resman_tpool_clear frees the queued items; their data is not released.
Clear(c) ==
  /\ pc[c] = "clear"
  /\ mutex = NoOne
  /\ queue' = <<>>
  /\ qsize' = 0
  /\ dropped' = dropped \cup Queued
  /\ Goto(c, "quit")
  /\ UNCHANGED <<mutex, nactive, flags, pipe, job, reg, finished, mark,
                 spurious>>

\* should_quit is set, and the workers are woken, without the mutex.
SetQuit(c) ==
  /\ pc[c] = "quit"
  /\ should_quit' = TRUE
  /\ Goto(c, "wakeall")
  /\ UNCHANGED <<mutex, queue, qsize, nactive, in_batch, nref, batching, pipe,
                 job, reg, history>>

WakeAll(c) ==
  /\ pc[c] = "wakeall"
  /\ pc' = [BroadcastWork(pc) EXCEPT ![c] = "join"]
  /\ UNCHANGED <<mutex, data>>

\* Mutant: one worker is joined, not all of them.
Join_One(c) ==
  /\ pc[c] = "join"
  /\ \E w \in Workers : pc[w] = "exited"
  /\ nactive' = 0
  /\ pc' = [BroadcastDone(pc) EXCEPT ![c] = "farewell"]
  /\ UNCHANGED <<mutex, queue, qsize, flags, pipe, job, reg, history>>

\* All pthread_joins return; then nactive = 0 and the waiters are woken.
Join(c) ==
  /\ pc[c] = "join"
  /\ \A w \in Workers : pc[w] = "exited"
  /\ nactive' = 0
  /\ pc' = [BroadcastDone(pc) EXCEPT ![c] = "farewell"]
  /\ UNCHANGED <<mutex, queue, qsize, flags, pipe, job, reg, history>>

Farewell(c) ==
  /\ pc[c] = "farewell"
  /\ SendDoneEvent
  /\ Goto(c, "gone")
  /\ UNCHANGED <<mutex, queue, qsize, nactive, flags, job, reg, history>>

\* What a client does inside a call, once it has made it.
ClientStep(c) ==
  \/ Signal(c) \/ Flush(c) \/ WaitTest(c) \/ WaitPendingTest(c) \/ TimedTest(c)
  \/ ReleaseStore(c) \/ Clear(c) \/ SetQuit(c) \/ WakeAll(c) \/ Join(c)
  \/ Farewell(c)

\* The calls.
ClientCall(c) ==
  \/ \E j \in Jobs : Enqueue(c, j)
  \/ BeginBatch(c) \/ EndBatch(c)
  \/ CallWait(c) \/ CallWaitAny(c)
  \/ \E usec \in Usecs, ms \in Millis : CallTimedWait(c, usec, ms)
  \/ Drain(c) \/ ReleaseLoad(c)

-----------------------------------------------------------------------------
Init ==
  /\ pc = [t \in Threads |-> IF t \in Workers THEN "start" ELSE "idle"]
  /\ mutex = NoOne
  /\ queue = <<>>
  /\ qsize = 0 /\ nactive = 0
  /\ should_quit = FALSE /\ in_batch = FALSE
  /\ nref = Cardinality(Clients)
  /\ pipe = 0
  /\ job = [w \in Workers |-> NoOne]
  /\ reg = [c \in Clients |-> 0]
  /\ finished = {} /\ dropped = {} /\ batching = {}
  /\ mark = [c \in Clients |-> {}]
  /\ spurious = 0

Next ==
  \/ \E w \in Workers : WorkerStep(w) \/ SpuriousWake(w)
  \/ \E c \in Clients : ClientStep(c) \/ ClientCall(c) \/ TimedOut(c)

Spec == Init /\ [][Next]_vars

\* A thread that can run does run, and one that keeps asking for the mutex gets
\* it in the end, however often others take it in between (hence SF); callbacks
\* return, time passes, and a client that opened a batch closes it.  What else
\* clients call is up to them.
Fairness ==
  /\ \A w \in Workers : SF_vars(WorkerStep(w))
  /\ \A c \in Clients :
       SF_vars(ClientStep(c)) /\ WF_vars(EndBatch(c)) /\ SF_vars(TimedOut(c))

FairSpec == Spec /\ Fairness

-----------------------------------------------------------------------------
(* Safety.                                                                 *)

WorkerLabels == {"start", "top", "towait", "asleep", "woken", "next", "work",
                 "relock", "report", "exited"}
Destroying == {"clear", "quit", "wakeall", "join", "farewell"}
ClientLabels == {"idle", "signal", "flush", "wait", "wait_zz", "pend",
                 "pend_zz", "timed", "timed_zz", "timed_bad", "spin",
                 "release", "gone"} \cup Destroying

\* The type of each variable; no counter leaves its range.
TypeOK ==
  /\ pc \in [Threads -> WorkerLabels \cup ClientLabels]
  /\ \A w \in Workers : pc[w] \in WorkerLabels
  /\ \A c \in Clients : pc[c] \in ClientLabels
  /\ mutex \in Threads \cup {NoOne}
  /\ queue \in Seq(Jobs)
  /\ qsize \in Nat /\ nactive \in Nat /\ nref \in Int
  /\ should_quit \in BOOLEAN /\ in_batch \in BOOLEAN
  /\ batching \subseteq Clients
  /\ pipe \in 0..PipeCap
  /\ job \in [Workers -> Jobs \cup {NoOne}]
  /\ reg \in [Clients -> Int]
  /\ finished \subseteq Jobs /\ dropped \subseteq Jobs
  /\ mark \in [Clients -> SUBSET Jobs]
  /\ spurious \in 0..MaxSpurious

Active == {w \in Workers : pc[w] \in {"work", "relock", "report"}}

\* The two counters that every wait call relies on agree, at each moment, with
\* the list and with what the workers are doing, although they are updated in
\* different critical sections (tpool.c:209, 227, 382-383, 397).
Accounting ==
  /\ qsize = Len(queue)
  /\ nactive = Cardinality(Active)

\* A job is at one place: queued once, or with one worker, or settled; so no
\* job is run twice, none is both run and freed by clear, and none is lost.
Exclusive ==
  /\ \A i, k \in 1..Len(queue) : queue[i] = queue[k] => i = k
  /\ \A v, w \in Workers : job[v] = job[w] /\ job[v] # NoOne => v = w
  /\ Queued \cap Held = {} /\ (Queued \cup Held) \cap Settled = {}
  /\ finished \cap dropped = {}

\* No worker sleeps on workq_condvar while there is work, unless a client has
\* a batch open or has yet to broadcast: enqueue broadcasts after it has
\* unlocked, and reads in_batch there (tpool.c:210-214, 185-186).
NoLostWakeup ==
  \A w \in Workers : pc[w] = "asleep" /\ queue # <<>> =>
    \/ batching # {}
    \/ \E c \in Clients : pc[c] \in {"signal", "flush"}

\* Nobody sleeps in resman_tpool_wait when nothing is pending any more, though
\* the worker broadcasts before it decrements nactive (tpool.c:395-397).
WaiterNotStranded ==
  \A c \in Clients : pc[c] \in {"wait_zz", "timed_zz"} => nactive + qsize # 0

\* Whatever --nref loses in a race of two releases (tpool.c:171), the pool is
\* never destroyed by two threads, nor under a thread that still uses it.
DestroyAlone ==
  \A c, d \in Clients : pc[c] \in Destroying /\ c # d => pc[d] = "gone"

\* Once the workers are joined, nothing is queued and no job is half done.
StoppedClean ==
  \A c \in Clients : pc[c] = "farewell" => queue = <<>> /\ Held = {}

(* What makes these inductive.                                             *)

Holding == {"top", "towait", "next", "report", "spin"}

\* The thread whose code runs under the mutex is the one that locked it.
MutexInv == \A t \in Threads : mutex = t <=> pc[t] \in Holding

\* A worker's local job is set exactly while the worker counts as active.
JobInv == \A w \in Workers : w \in Active <=> job[w] # NoOne

\* Between finding the queue empty and sleeping, the mutex keeps it empty.
EmptyInv ==
  /\ \A w \in Workers : pc[w] = "towait" => queue = <<>>
  /\ in_batch => batching # {}

\* Between the broadcast on done_condvar and the decrement of nactive nobody
\* can go to sleep on it.
ReportInv ==
  \A w \in Workers, c \in Clients :
    pc[w] = "report" => pc[c] \notin {"wait_zz", "timed_zz"}

\* The clients that still use the pool; nref, and each copy of it that a
\* release holds, is at least their number.
Live == {c \in Clients : pc[c] \notin Destroying \cup {"gone"}}
RefInv ==
  /\ Cardinality(Live) <= nref
  /\ \A c \in Clients : pc[c] = "release" => Cardinality(Live) <= reg[c]
  /\ \A c \in Clients : pc[c] \in Destroying => Live = {}

\* After clear nothing is queued any more, and a joined worker stays out.
StopInv ==
  \A c \in Clients :
    /\ pc[c] \in Destroying \ {"clear"} => queue = <<>>
    /\ pc[c] = "farewell" => \A w \in Workers : pc[w] = "exited"

\* Together with the invariants above, inductive.
IInv ==
  /\ TypeOK /\ MutexInv /\ JobInv /\ Accounting /\ Exclusive
  /\ EmptyInv /\ NoLostWakeup /\ ReportInv /\ WaiterNotStranded
  /\ RefInv /\ DestroyAlone /\ StopInv

(* What a step may not do.                                                 *)

\* resman_tpool_wait returns only at a moment when nothing is queued and no
\* worker is between taking a job and accounting for it.
WaitSound ==
  [][\A c \in Clients : pc[c] = "wait" /\ pc'[c] = "idle" =>
        queue = <<>> /\ Active = {}]_vars

\* resman_wait_any returns only if some job was settled since it was called,
\* though it counts the pending jobs and starts to wait in two critical
\* sections (resman.c:251-252).
WaitAnySound ==
  [][\A c \in Clients : pc[c] = "pend" /\ pc'[c] = "idle" =>
        Settled # mark[c]]_vars

(* The pool implements JobPool.                                            *)

Idlers == {c \in Clients : pc[c] \in {"wait", "wait_zz"}}

Abstract == INSTANCE JobPool WITH
  MaxRunning <- Cardinality(Workers), running <- Held, idlers <- Idlers

\* Jobs start in the order of submission, at most one per worker at a time,
\* and wait returns only when the pool is idle.
ImplementsJobPool == Abstract!Spec

(* Liveness.                                                               *)

\* Every job that is queued gets done, whatever the clients do afterwards.
EveryJobDone == \A j \in Jobs : j \in Queued ~> j \in finished

\* resman_tpool_wait returns ("wait for all pending jobs", tpool.h:59), and so
\* does resman_wait_any if it was called with a job pending.
WaitReturns ==
  \A c \in Clients :
    /\ pc[c] = "wait" ~> pc[c] = "idle"
    /\ pc[c] = "pend" /\ reg[c] >= 0 ~> pc[c] = "idle"

\* resman_tpool_destroy returns: it stops and joins every worker
\* (tpool.c:128-137).
DestroyReturns == \A c \in Clients : pc[c] = "clear" ~> pc[c] = "gone"

=============================================================================
