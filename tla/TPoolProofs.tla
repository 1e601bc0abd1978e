----------------------------- MODULE TPoolProofs -----------------------------
(***************************************************************************)
(* Proofs about the thread pool, for any number of workers, clients and    *)
(* jobs, any pipe and any number of spurious wake-ups; and that it         *)
(* implements the abstract pool of module JobPool.                         *)
(***************************************************************************)
EXTENDS TPool, FiniteSetTheorems, SequenceTheorems, TLAPS

USE PoolAssumption DEF Threads

(***************************************************************************)
(* What the two broadcasts do to a thread.                                 *)
(***************************************************************************)
LEMMA WorkBroadcast ==
  BroadcastWork(pc) = [t \in Threads |->
    IF pc[t] = "asleep" THEN "woken" ELSE pc[t]]
  BY DEF BroadcastWork

DoneWoken == [t \in Threads |->
  IF pc[t] = "wait_zz" THEN "wait"
  ELSE IF pc[t] = "pend_zz" THEN "pend"
  ELSE IF pc[t] = "timed_zz" THEN "timed"
  ELSE pc[t]]

LEMMA DoneBroadcast == BroadcastDone(pc) = DoneWoken
<1>1. DOMAIN DoneWake = {"wait_zz", "pend_zz", "timed_zz"}
  BY DEF DoneWake
<1>2. /\ DoneWake["wait_zz"] = "wait" /\ DoneWake["pend_zz"] = "pend"
      /\ DoneWake["timed_zz"] = "timed"
  BY DEF DoneWake
<1>. QED
  BY <1>1, <1>2 DEF BroadcastDone, DoneWoken

(***************************************************************************)
(* The sets that are counted are finite.                                   *)
(***************************************************************************)
LEMMA ActiveFinite == IsFiniteSet(Active) /\ Cardinality(Active) \in Nat
<1>1. Active \in SUBSET Workers
  BY DEF Active
<1>. QED
  BY <1>1, FS_Subset, FS_CardinalityType

LEMMA LiveFinite == IsFiniteSet(Live) /\ Cardinality(Live) \in Nat
<1>1. Live \in SUBSET Clients
  BY DEF Live
<1>. QED
  BY <1>1, FS_Subset, FS_CardinalityType

LEMMA QueuedJobs == ASSUME TypeOK PROVE Queued \subseteq Jobs
  BY DEF TypeOK, Queued

(***************************************************************************)
(* Type correctness.  Only taking and reporting a job need more than the types: *)
(* that the counters are positive then.                                    *)
(***************************************************************************)
LEMMA TypeStep ==
  ASSUME IInv, Next
  PROVE  TypeOK'
<1>. USE DEF WorkerLabels, ClientLabels, Destroying
<1>1. ASSUME NEW w \in Workers, Start(w)
      PROVE  TypeOK'
  BY <1>1 DEF Start, Take, Goto, data, flags, history, IInv, TypeOK
<1>2. ASSUME NEW w \in Workers, Top(w)
      PROVE  TypeOK'
  BY <1>2 DEF Top, Drop, Goto, data, flags, history, IInv, TypeOK
<1>3. ASSUME NEW w \in Workers, CondWait(w)
      PROVE  TypeOK'
  BY <1>3 DEF CondWait, Drop, Goto, data, flags, history, IInv, TypeOK
<1>4. ASSUME NEW w \in Workers, Reacquire(w)
      PROVE  TypeOK'
  BY <1>4 DEF Reacquire, Goto, data, flags, history, IInv, TypeOK
<1>5. ASSUME NEW w \in Workers, TakeJob(w)
      PROVE  TypeOK'
<2>1. Head(queue) \in Jobs /\ Tail(queue) \in Seq(Jobs) /\ qsize - 1 \in Nat
  BY <1>5 DEF TakeJob, IInv, TypeOK, Accounting
<2>. QED
  BY <1>5, <2>1 DEF TakeJob, Drop, Goto, flags, history, IInv, TypeOK, WorkerLabels
<1>6. ASSUME NEW w \in Workers, GoRound(w)
      PROVE  TypeOK'
  BY <1>6 DEF GoRound, Goto, data, flags, history, IInv, TypeOK
<1>7. ASSUME NEW w \in Workers, RunJob(w)
      PROVE  TypeOK'
  BY <1>7 DEF RunJob, Goto, data, flags, history, IInv, TypeOK
<1>8. ASSUME NEW w \in Workers, Relock(w)
      PROVE  TypeOK'
<2>. /\ pc[w] = "relock"
     /\ pc' = [t \in Threads |->
               IF t = w THEN "report" ELSE DoneWoken[t]]
  BY <1>8, DoneBroadcast DEF Relock, IInv, TypeOK, DoneWoken
<2>. QED
  BY <1>8 DEF Relock, Take, data, flags, history, IInv, TypeOK, DoneWoken
<1>9. ASSUME NEW w \in Workers, Report(w)
      PROVE  TypeOK'
<2>1. w \in Active /\ job[w] \in Jobs
  BY <1>9 DEF Report, Active, IInv, JobInv, TypeOK
<2>2. nactive - 1 \in Nat
  BY <2>1, ActiveFinite, FS_EmptySet DEF IInv, Accounting
<2>3. /\ pc' \in [Threads -> WorkerLabels \cup ClientLabels]
      /\ \A v \in Workers : pc'[v] \in WorkerLabels
      /\ \A c \in Clients : pc'[c] \in ClientLabels
  BY <1>9 DEF Report, Goto, IInv, TypeOK, WorkerLabels
<2>4. pipe' \in 0..PipeCap
  BY <1>9 DEF Report, SendDoneEvent, IInv, TypeOK
<2>5. job' \in [Workers -> Jobs \cup {NoOne}] /\ finished' \subseteq Jobs
  BY <1>9, <2>1 DEF Report, IInv, TypeOK
<2>. QED
  BY <1>9, <2>2, <2>3, <2>4, <2>5 DEF Report, flags, IInv, TypeOK
<1>10. ASSUME NEW w \in Workers, SpuriousWake(w)
      PROVE  TypeOK'
  BY <1>10 DEF SpuriousWake, Goto, data, flags, history, IInv, TypeOK
<1>11. ASSUME NEW c \in Clients, NEW j \in Jobs, Enqueue(c, j)
      PROVE  TypeOK'
  BY <1>11 DEF Enqueue, PutJob, Call, Goto, data, flags, history, IInv, TypeOK
<1>12. ASSUME NEW c \in Clients, NEW usec \in Usecs, NEW ms \in Millis,
             CallTimedWait(c, usec, ms)
      PROVE  TypeOK'
  BY <1>12 DEF CallTimedWait, Call, Goto, data, flags, history, IInv, TypeOK
<1>13. ASSUME NEW c \in Clients, Signal(c)
      PROVE  TypeOK'
<2>. /\ pc[c] = "signal"
     /\ pc' = [t \in Threads |->
               IF t = c THEN "idle"
               ELSE IF pc[t] = "asleep" /\ ~in_batch THEN "woken" ELSE pc[t]]
  BY <1>13, WorkBroadcast DEF Signal, IInv, TypeOK, DoneWoken
<2>. QED
  BY <1>13 DEF Signal, data, flags, history, IInv, TypeOK
<1>14. ASSUME NEW c \in Clients, Flush(c)
      PROVE  TypeOK'
<2>. /\ pc[c] = "flush"
     /\ pc' = [t \in Threads |->
               IF t = c THEN "idle"
               ELSE IF pc[t] = "asleep" THEN "woken" ELSE pc[t]]
  BY <1>14, WorkBroadcast DEF Flush, IInv, TypeOK, DoneWoken
<2>. QED
  BY <1>14 DEF Flush, data, flags, history, IInv, TypeOK
<1>15. ASSUME NEW c \in Clients, WaitTest(c)
      PROVE  TypeOK'
  BY <1>15 DEF WaitTest, Goto, data, flags, history, IInv, TypeOK
<1>16. ASSUME NEW c \in Clients, WaitPendingTest(c)
      PROVE  TypeOK'
  BY <1>16 DEF WaitPendingTest, Goto, data, flags, history, IInv, TypeOK
<1>17. ASSUME NEW c \in Clients, TimedTest(c)
      PROVE  TypeOK'
  BY <1>17 DEF TimedTest, Goto, data, flags, history, IInv, TypeOK
<1>18. ASSUME NEW c \in Clients, ReleaseStore(c)
      PROVE  TypeOK'
  BY <1>18 DEF ReleaseStore, Goto, data, flags, history, IInv, TypeOK
<1>19. ASSUME NEW c \in Clients, Clear(c)
      PROVE  TypeOK'
  BY <1>19, QueuedJobs DEF Clear, Goto, flags, IInv, TypeOK
<1>20. ASSUME NEW c \in Clients, SetQuit(c)
      PROVE  TypeOK'
  BY <1>20 DEF SetQuit, Goto, data, flags, history, IInv, TypeOK
<1>21. ASSUME NEW c \in Clients, WakeAll(c)
      PROVE  TypeOK'
<2>. /\ pc[c] = "wakeall"
     /\ pc' = [t \in Threads |->
               IF t = c THEN "join"
               ELSE IF pc[t] = "asleep" THEN "woken" ELSE pc[t]]
  BY <1>21, WorkBroadcast DEF WakeAll, IInv, TypeOK, DoneWoken
<2>. QED
  BY <1>21 DEF WakeAll, data, flags, history, IInv, TypeOK
<1>22. ASSUME NEW c \in Clients, Join(c)
      PROVE  TypeOK'
<2>. /\ pc[c] = "join"
     /\ pc' = [t \in Threads |->
               IF t = c THEN "farewell" ELSE DoneWoken[t]]
  BY <1>22, DoneBroadcast DEF Join, IInv, TypeOK, DoneWoken
<2>. QED
  BY <1>22 DEF Join, data, flags, history, IInv, TypeOK, DoneWoken
<1>23. ASSUME NEW c \in Clients, Farewell(c)
      PROVE  TypeOK'
  BY <1>23 DEF Farewell, SendDoneEvent, Goto, data, flags, history, IInv, TypeOK
<1>24. ASSUME NEW c \in Clients, BeginBatch(c)
      PROVE  TypeOK'
  BY <1>24 DEF BeginBatch, Call, data, flags, history, IInv, TypeOK
<1>25. ASSUME NEW c \in Clients, EndBatch(c)
      PROVE  TypeOK'
  BY <1>25 DEF EndBatch, Call, Goto, data, flags, history, IInv, TypeOK
<1>26. ASSUME NEW c \in Clients, CallWait(c)
      PROVE  TypeOK'
  BY <1>26 DEF CallWait, Call, Goto, data, flags, history, IInv, TypeOK
<1>27. ASSUME NEW c \in Clients, CallWaitAny(c)
      PROVE  TypeOK'
  BY <1>27, QueuedJobs DEF CallWaitAny, Call, Goto, flags, IInv, TypeOK, Settled
<1>28. ASSUME NEW c \in Clients, Drain(c)
      PROVE  TypeOK'
  BY <1>28 DEF Drain, Call, data, flags, history, IInv, TypeOK
<1>29. ASSUME NEW c \in Clients, ReleaseLoad(c)
      PROVE  TypeOK'
  BY <1>29 DEF ReleaseLoad, Call, Goto, data, flags, history, IInv, TypeOK
<1>30. ASSUME NEW c \in Clients, TimedOut(c)
      PROVE  TypeOK'
  BY <1>30 DEF TimedOut, Goto, data, flags, history, IInv, TypeOK
<1>. QED
  BY <1>1, <1>2, <1>3, <1>4, <1>5, <1>6, <1>7, <1>8, <1>9, <1>10, <1>11, <1>12, <1>13, <1>14, <1>15, <1>16, <1>17, <1>18, <1>19, <1>20, <1>21, <1>22, <1>23, <1>24, <1>25, <1>26, <1>27, <1>28, <1>29, <1>30
     DEF Next, WorkerStep, ClientStep, ClientCall

(***************************************************************************)
(* The mutex is held by the one thread whose code runs under it, and a worker *)
(* has a job exactly while it is active.                                   *)
(***************************************************************************)
LEMMA MutexStep ==
  ASSUME IInv, Next
  PROVE  MutexInv'
<1>. USE DEF WorkerLabels, ClientLabels, Destroying
<1>1. ASSUME NEW w \in Workers, Start(w)
      PROVE  MutexInv'
  BY <1>1 DEF Start, Take, Goto, data, flags, history, IInv, TypeOK, MutexInv, Holding
<1>2. ASSUME NEW w \in Workers, Top(w)
      PROVE  MutexInv'
  BY <1>2 DEF Top, Drop, Goto, data, flags, history, IInv, TypeOK, MutexInv, Holding
<1>3. ASSUME NEW w \in Workers, CondWait(w)
      PROVE  MutexInv'
  BY <1>3 DEF CondWait, Drop, Goto, data, flags, history, IInv, TypeOK, MutexInv, Holding
<1>4. ASSUME NEW w \in Workers, Reacquire(w)
      PROVE  MutexInv'
  BY <1>4 DEF Reacquire, Goto, data, flags, history, IInv, TypeOK, MutexInv, Holding
<1>5. ASSUME NEW w \in Workers, TakeJob(w)
      PROVE  MutexInv'
  BY <1>5 DEF TakeJob, Drop, Goto, data, flags, history, IInv, TypeOK, MutexInv, Holding
<1>6. ASSUME NEW w \in Workers, GoRound(w)
      PROVE  MutexInv'
  BY <1>6 DEF GoRound, Goto, data, flags, history, IInv, TypeOK, MutexInv, Holding
<1>7. ASSUME NEW w \in Workers, RunJob(w)
      PROVE  MutexInv'
  BY <1>7 DEF RunJob, Goto, data, flags, history, IInv, TypeOK, MutexInv, Holding
<1>8. ASSUME NEW w \in Workers, Relock(w)
      PROVE  MutexInv'
<2>. /\ pc[w] = "relock"
     /\ pc' = [t \in Threads |->
               IF t = w THEN "report" ELSE DoneWoken[t]]
  BY <1>8, DoneBroadcast DEF Relock, IInv, TypeOK, DoneWoken
<2>. QED
  BY <1>8 DEF Relock, Take, data, flags, history, IInv, TypeOK, MutexInv, Holding, DoneWoken
<1>9. ASSUME NEW w \in Workers, Report(w)
      PROVE  MutexInv'
  BY <1>9 DEF Report, SendDoneEvent, Goto, data, flags, history, IInv, TypeOK, MutexInv, Holding
<1>10. ASSUME NEW w \in Workers, SpuriousWake(w)
      PROVE  MutexInv'
  BY <1>10 DEF SpuriousWake, Goto, data, flags, history, IInv, TypeOK, MutexInv, Holding
<1>11. ASSUME NEW c \in Clients, NEW j \in Jobs, Enqueue(c, j)
      PROVE  MutexInv'
  BY <1>11 DEF Enqueue, PutJob, Call, Goto, data, flags, history, IInv, TypeOK, MutexInv, Holding
<1>12. ASSUME NEW c \in Clients, NEW usec \in Usecs, NEW ms \in Millis,
             CallTimedWait(c, usec, ms)
      PROVE  MutexInv'
  BY <1>12 DEF CallTimedWait, Call, Goto, data, flags, history, IInv, TypeOK, MutexInv, Holding
<1>13. ASSUME NEW c \in Clients, Signal(c)
      PROVE  MutexInv'
<2>. /\ pc[c] = "signal"
     /\ pc' = [t \in Threads |->
               IF t = c THEN "idle"
               ELSE IF pc[t] = "asleep" /\ ~in_batch THEN "woken" ELSE pc[t]]
  BY <1>13, WorkBroadcast DEF Signal, IInv, TypeOK, DoneWoken
<2>. QED
  BY <1>13 DEF Signal, data, flags, history, IInv, TypeOK, MutexInv, Holding
<1>14. ASSUME NEW c \in Clients, Flush(c)
      PROVE  MutexInv'
<2>. /\ pc[c] = "flush"
     /\ pc' = [t \in Threads |->
               IF t = c THEN "idle"
               ELSE IF pc[t] = "asleep" THEN "woken" ELSE pc[t]]
  BY <1>14, WorkBroadcast DEF Flush, IInv, TypeOK, DoneWoken
<2>. QED
  BY <1>14 DEF Flush, data, flags, history, IInv, TypeOK, MutexInv, Holding
<1>15. ASSUME NEW c \in Clients, WaitTest(c)
      PROVE  MutexInv'
  BY <1>15 DEF WaitTest, Goto, data, flags, history, IInv, TypeOK, MutexInv, Holding
<1>16. ASSUME NEW c \in Clients, WaitPendingTest(c)
      PROVE  MutexInv'
  BY <1>16 DEF WaitPendingTest, Goto, data, flags, history, IInv, TypeOK, MutexInv, Holding
<1>17. ASSUME NEW c \in Clients, TimedTest(c)
      PROVE  MutexInv'
  BY <1>17 DEF TimedTest, Goto, data, flags, history, IInv, TypeOK, MutexInv, Holding
<1>18. ASSUME NEW c \in Clients, ReleaseStore(c)
      PROVE  MutexInv'
  BY <1>18 DEF ReleaseStore, Goto, data, flags, history, IInv, TypeOK, MutexInv, Holding
<1>19. ASSUME NEW c \in Clients, Clear(c)
      PROVE  MutexInv'
  BY <1>19 DEF Clear, Goto, data, flags, history, IInv, TypeOK, MutexInv, Holding
<1>20. ASSUME NEW c \in Clients, SetQuit(c)
      PROVE  MutexInv'
  BY <1>20 DEF SetQuit, Goto, data, flags, history, IInv, TypeOK, MutexInv, Holding
<1>21. ASSUME NEW c \in Clients, WakeAll(c)
      PROVE  MutexInv'
<2>. /\ pc[c] = "wakeall"
     /\ pc' = [t \in Threads |->
               IF t = c THEN "join"
               ELSE IF pc[t] = "asleep" THEN "woken" ELSE pc[t]]
  BY <1>21, WorkBroadcast DEF WakeAll, IInv, TypeOK, DoneWoken
<2>. QED
  BY <1>21 DEF WakeAll, data, flags, history, IInv, TypeOK, MutexInv, Holding
<1>22. ASSUME NEW c \in Clients, Join(c)
      PROVE  MutexInv'
<2>. /\ pc[c] = "join"
     /\ pc' = [t \in Threads |->
               IF t = c THEN "farewell" ELSE DoneWoken[t]]
  BY <1>22, DoneBroadcast DEF Join, IInv, TypeOK, DoneWoken
<2>. QED
  BY <1>22 DEF Join, data, flags, history, IInv, TypeOK, MutexInv, Holding, DoneWoken
<1>23. ASSUME NEW c \in Clients, Farewell(c)
      PROVE  MutexInv'
  BY <1>23 DEF Farewell, SendDoneEvent, Goto, data, flags, history, IInv, TypeOK, MutexInv, Holding
<1>24. ASSUME NEW c \in Clients, BeginBatch(c)
      PROVE  MutexInv'
  BY <1>24 DEF BeginBatch, Call, data, flags, history, IInv, TypeOK, MutexInv, Holding
<1>25. ASSUME NEW c \in Clients, EndBatch(c)
      PROVE  MutexInv'
  BY <1>25 DEF EndBatch, Call, Goto, data, flags, history, IInv, TypeOK, MutexInv, Holding
<1>26. ASSUME NEW c \in Clients, CallWait(c)
      PROVE  MutexInv'
  BY <1>26 DEF CallWait, Call, Goto, data, flags, history, IInv, TypeOK, MutexInv, Holding
<1>27. ASSUME NEW c \in Clients, CallWaitAny(c)
      PROVE  MutexInv'
  BY <1>27 DEF CallWaitAny, Call, Goto, data, flags, history, IInv, TypeOK, MutexInv, Holding
<1>28. ASSUME NEW c \in Clients, Drain(c)
      PROVE  MutexInv'
  BY <1>28 DEF Drain, Call, data, flags, history, IInv, TypeOK, MutexInv, Holding
<1>29. ASSUME NEW c \in Clients, ReleaseLoad(c)
      PROVE  MutexInv'
  BY <1>29 DEF ReleaseLoad, Call, Goto, data, flags, history, IInv, TypeOK, MutexInv, Holding
<1>30. ASSUME NEW c \in Clients, TimedOut(c)
      PROVE  MutexInv'
  BY <1>30 DEF TimedOut, Goto, data, flags, history, IInv, TypeOK, MutexInv, Holding
<1>. QED
  BY <1>1, <1>2, <1>3, <1>4, <1>5, <1>6, <1>7, <1>8, <1>9, <1>10, <1>11, <1>12, <1>13, <1>14, <1>15, <1>16, <1>17, <1>18, <1>19, <1>20, <1>21, <1>22, <1>23, <1>24, <1>25, <1>26, <1>27, <1>28, <1>29, <1>30
     DEF Next, WorkerStep, ClientStep, ClientCall

LEMMA JobStep ==
  ASSUME IInv, Next
  PROVE  JobInv'
<1>. USE DEF WorkerLabels, ClientLabels, Destroying
<1>1. ASSUME NEW w \in Workers, Start(w)
      PROVE  JobInv'
  BY <1>1 DEF Start, Take, Goto, data, flags, history, IInv, TypeOK, JobInv, Active
<1>2. ASSUME NEW w \in Workers, Top(w)
      PROVE  JobInv'
  BY <1>2 DEF Top, Drop, Goto, data, flags, history, IInv, TypeOK, JobInv, Active
<1>3. ASSUME NEW w \in Workers, CondWait(w)
      PROVE  JobInv'
  BY <1>3 DEF CondWait, Drop, Goto, data, flags, history, IInv, TypeOK, JobInv, Active
<1>4. ASSUME NEW w \in Workers, Reacquire(w)
      PROVE  JobInv'
  BY <1>4 DEF Reacquire, Goto, data, flags, history, IInv, TypeOK, JobInv, Active
<1>5. ASSUME NEW w \in Workers, TakeJob(w)
      PROVE  JobInv'
  BY <1>5 DEF TakeJob, Drop, Goto, data, flags, history, IInv, TypeOK, JobInv, Active
<1>6. ASSUME NEW w \in Workers, GoRound(w)
      PROVE  JobInv'
  BY <1>6 DEF GoRound, Goto, data, flags, history, IInv, TypeOK, JobInv, Active
<1>7. ASSUME NEW w \in Workers, RunJob(w)
      PROVE  JobInv'
  BY <1>7 DEF RunJob, Goto, data, flags, history, IInv, TypeOK, JobInv, Active
<1>8. ASSUME NEW w \in Workers, Relock(w)
      PROVE  JobInv'
<2>. /\ pc[w] = "relock"
     /\ pc' = [t \in Threads |->
               IF t = w THEN "report" ELSE DoneWoken[t]]
  BY <1>8, DoneBroadcast DEF Relock, IInv, TypeOK, DoneWoken
<2>. QED
  BY <1>8 DEF Relock, Take, data, flags, history, IInv, TypeOK, JobInv, Active, DoneWoken
<1>9. ASSUME NEW w \in Workers, Report(w)
      PROVE  JobInv'
  BY <1>9 DEF Report, SendDoneEvent, Goto, data, flags, history, IInv, TypeOK, JobInv, Active
<1>10. ASSUME NEW w \in Workers, SpuriousWake(w)
      PROVE  JobInv'
  BY <1>10 DEF SpuriousWake, Goto, data, flags, history, IInv, TypeOK, JobInv, Active
<1>11. ASSUME NEW c \in Clients, NEW j \in Jobs, Enqueue(c, j)
      PROVE  JobInv'
  BY <1>11 DEF Enqueue, PutJob, Call, Goto, data, flags, history, IInv, TypeOK, JobInv, Active
<1>12. ASSUME NEW c \in Clients, NEW usec \in Usecs, NEW ms \in Millis,
             CallTimedWait(c, usec, ms)
      PROVE  JobInv'
  BY <1>12 DEF CallTimedWait, Call, Goto, data, flags, history, IInv, TypeOK, JobInv, Active
<1>13. ASSUME NEW c \in Clients, Signal(c)
      PROVE  JobInv'
<2>. /\ pc[c] = "signal"
     /\ pc' = [t \in Threads |->
               IF t = c THEN "idle"
               ELSE IF pc[t] = "asleep" /\ ~in_batch THEN "woken" ELSE pc[t]]
  BY <1>13, WorkBroadcast DEF Signal, IInv, TypeOK, DoneWoken
<2>. QED
  BY <1>13 DEF Signal, data, flags, history, IInv, TypeOK, JobInv, Active
<1>14. ASSUME NEW c \in Clients, Flush(c)
      PROVE  JobInv'
<2>. /\ pc[c] = "flush"
     /\ pc' = [t \in Threads |->
               IF t = c THEN "idle"
               ELSE IF pc[t] = "asleep" THEN "woken" ELSE pc[t]]
  BY <1>14, WorkBroadcast DEF Flush, IInv, TypeOK, DoneWoken
<2>. QED
  BY <1>14 DEF Flush, data, flags, history, IInv, TypeOK, JobInv, Active
<1>15. ASSUME NEW c \in Clients, WaitTest(c)
      PROVE  JobInv'
  BY <1>15 DEF WaitTest, Goto, data, flags, history, IInv, TypeOK, JobInv, Active
<1>16. ASSUME NEW c \in Clients, WaitPendingTest(c)
      PROVE  JobInv'
  BY <1>16 DEF WaitPendingTest, Goto, data, flags, history, IInv, TypeOK, JobInv, Active
<1>17. ASSUME NEW c \in Clients, TimedTest(c)
      PROVE  JobInv'
  BY <1>17 DEF TimedTest, Goto, data, flags, history, IInv, TypeOK, JobInv, Active
<1>18. ASSUME NEW c \in Clients, ReleaseStore(c)
      PROVE  JobInv'
  BY <1>18 DEF ReleaseStore, Goto, data, flags, history, IInv, TypeOK, JobInv, Active
<1>19. ASSUME NEW c \in Clients, Clear(c)
      PROVE  JobInv'
  BY <1>19 DEF Clear, Goto, data, flags, history, IInv, TypeOK, JobInv, Active
<1>20. ASSUME NEW c \in Clients, SetQuit(c)
      PROVE  JobInv'
  BY <1>20 DEF SetQuit, Goto, data, flags, history, IInv, TypeOK, JobInv, Active
<1>21. ASSUME NEW c \in Clients, WakeAll(c)
      PROVE  JobInv'
<2>. /\ pc[c] = "wakeall"
     /\ pc' = [t \in Threads |->
               IF t = c THEN "join"
               ELSE IF pc[t] = "asleep" THEN "woken" ELSE pc[t]]
  BY <1>21, WorkBroadcast DEF WakeAll, IInv, TypeOK, DoneWoken
<2>. QED
  BY <1>21 DEF WakeAll, data, flags, history, IInv, TypeOK, JobInv, Active
<1>22. ASSUME NEW c \in Clients, Join(c)
      PROVE  JobInv'
<2>. /\ pc[c] = "join"
     /\ pc' = [t \in Threads |->
               IF t = c THEN "farewell" ELSE DoneWoken[t]]
  BY <1>22, DoneBroadcast DEF Join, IInv, TypeOK, DoneWoken
<2>. QED
  BY <1>22 DEF Join, data, flags, history, IInv, TypeOK, JobInv, Active, DoneWoken
<1>23. ASSUME NEW c \in Clients, Farewell(c)
      PROVE  JobInv'
  BY <1>23 DEF Farewell, SendDoneEvent, Goto, data, flags, history, IInv, TypeOK, JobInv, Active
<1>24. ASSUME NEW c \in Clients, BeginBatch(c)
      PROVE  JobInv'
  BY <1>24 DEF BeginBatch, Call, data, flags, history, IInv, TypeOK, JobInv, Active
<1>25. ASSUME NEW c \in Clients, EndBatch(c)
      PROVE  JobInv'
  BY <1>25 DEF EndBatch, Call, Goto, data, flags, history, IInv, TypeOK, JobInv, Active
<1>26. ASSUME NEW c \in Clients, CallWait(c)
      PROVE  JobInv'
  BY <1>26 DEF CallWait, Call, Goto, data, flags, history, IInv, TypeOK, JobInv, Active
<1>27. ASSUME NEW c \in Clients, CallWaitAny(c)
      PROVE  JobInv'
  BY <1>27 DEF CallWaitAny, Call, Goto, data, flags, history, IInv, TypeOK, JobInv, Active
<1>28. ASSUME NEW c \in Clients, Drain(c)
      PROVE  JobInv'
  BY <1>28 DEF Drain, Call, data, flags, history, IInv, TypeOK, JobInv, Active
<1>29. ASSUME NEW c \in Clients, ReleaseLoad(c)
      PROVE  JobInv'
  BY <1>29 DEF ReleaseLoad, Call, Goto, data, flags, history, IInv, TypeOK, JobInv, Active
<1>30. ASSUME NEW c \in Clients, TimedOut(c)
      PROVE  JobInv'
  BY <1>30 DEF TimedOut, Goto, data, flags, history, IInv, TypeOK, JobInv, Active
<1>. QED
  BY <1>1, <1>2, <1>3, <1>4, <1>5, <1>6, <1>7, <1>8, <1>9, <1>10, <1>11, <1>12, <1>13, <1>14, <1>15, <1>16, <1>17, <1>18, <1>19, <1>20, <1>21, <1>22, <1>23, <1>24, <1>25, <1>26, <1>27, <1>28, <1>29, <1>30
     DEF Next, WorkerStep, ClientStep, ClientCall

(***************************************************************************)
(* The counters.  Active changes only when a job is taken or reported, and by *)
(* one worker.                                                             *)
(***************************************************************************)
LEMMA AccountingStep ==
  ASSUME IInv, Next
  PROVE  Accounting'
<1>. USE DEF WorkerLabels, ClientLabels, Destroying
<1>1. ASSUME NEW w \in Workers, Start(w)
      PROVE  Accounting'
  BY <1>1 DEF Start, Take, Goto, data, flags, history, IInv, TypeOK, Accounting, Active
<1>2. ASSUME NEW w \in Workers, Top(w)
      PROVE  Accounting'
  BY <1>2 DEF Top, Drop, Goto, data, flags, history, IInv, TypeOK, Accounting, Active
<1>3. ASSUME NEW w \in Workers, CondWait(w)
      PROVE  Accounting'
  BY <1>3 DEF CondWait, Drop, Goto, data, flags, history, IInv, TypeOK, Accounting, Active
<1>4. ASSUME NEW w \in Workers, Reacquire(w)
      PROVE  Accounting'
  BY <1>4 DEF Reacquire, Goto, data, flags, history, IInv, TypeOK, Accounting, Active
<1>5. ASSUME NEW w \in Workers, TakeJob(w)
      PROVE  Accounting'
  <2>1. Active' = Active \cup {w} /\ w \notin Active
    BY <1>5 DEF TakeJob, Goto, Active, IInv, TypeOK
  <2>2. Len(queue') = Len(queue) - 1
    BY <1>5 DEF TakeJob, IInv, TypeOK
  <2>. QED
    BY <1>5, <2>1, <2>2, ActiveFinite, FS_AddElement DEF TakeJob, IInv, Accounting
<1>6. ASSUME NEW w \in Workers, GoRound(w)
      PROVE  Accounting'
  BY <1>6 DEF GoRound, Goto, data, flags, history, IInv, TypeOK, Accounting, Active
<1>7. ASSUME NEW w \in Workers, RunJob(w)
      PROVE  Accounting'
  BY <1>7 DEF RunJob, Goto, data, flags, history, IInv, TypeOK, Accounting, Active
<1>8. ASSUME NEW w \in Workers, Relock(w)
      PROVE  Accounting'
<2>. /\ pc[w] = "relock"
     /\ pc' = [t \in Threads |->
               IF t = w THEN "report" ELSE DoneWoken[t]]
  BY <1>8, DoneBroadcast DEF Relock, IInv, TypeOK, DoneWoken
<2>. QED
  BY <1>8 DEF Relock, Take, data, flags, history, IInv, TypeOK, Accounting, Active, DoneWoken
<1>9. ASSUME NEW w \in Workers, Report(w)
      PROVE  Accounting'
  <2>1. Active' = Active \ {w} /\ w \in Active
    BY <1>9 DEF Report, Goto, Active, IInv, TypeOK
  <2>. QED
    BY <1>9, <2>1, ActiveFinite, FS_RemoveElement DEF Report, IInv, Accounting
<1>10. ASSUME NEW w \in Workers, SpuriousWake(w)
      PROVE  Accounting'
  BY <1>10 DEF SpuriousWake, Goto, data, flags, history, IInv, TypeOK, Accounting, Active
<1>11. ASSUME NEW c \in Clients, NEW j \in Jobs, Enqueue(c, j)
      PROVE  Accounting'
  <2>1. Active' = Active
    BY <1>11 DEF Enqueue, PutJob, Goto, Active, IInv, TypeOK, Call
  <2>. QED
    BY <1>11, <2>1 DEF Enqueue, PutJob, IInv, Accounting, TypeOK
<1>12. ASSUME NEW c \in Clients, NEW usec \in Usecs, NEW ms \in Millis,
             CallTimedWait(c, usec, ms)
      PROVE  Accounting'
  BY <1>12 DEF CallTimedWait, Call, Goto, data, flags, history, IInv, TypeOK, Accounting, Active
<1>13. ASSUME NEW c \in Clients, Signal(c)
      PROVE  Accounting'
<2>. /\ pc[c] = "signal"
     /\ pc' = [t \in Threads |->
               IF t = c THEN "idle"
               ELSE IF pc[t] = "asleep" /\ ~in_batch THEN "woken" ELSE pc[t]]
  BY <1>13, WorkBroadcast DEF Signal, IInv, TypeOK, DoneWoken
<2>. QED
  BY <1>13 DEF Signal, data, flags, history, IInv, TypeOK, Accounting, Active
<1>14. ASSUME NEW c \in Clients, Flush(c)
      PROVE  Accounting'
<2>. /\ pc[c] = "flush"
     /\ pc' = [t \in Threads |->
               IF t = c THEN "idle"
               ELSE IF pc[t] = "asleep" THEN "woken" ELSE pc[t]]
  BY <1>14, WorkBroadcast DEF Flush, IInv, TypeOK, DoneWoken
<2>. QED
  BY <1>14 DEF Flush, data, flags, history, IInv, TypeOK, Accounting, Active
<1>15. ASSUME NEW c \in Clients, WaitTest(c)
      PROVE  Accounting'
  BY <1>15 DEF WaitTest, Goto, data, flags, history, IInv, TypeOK, Accounting, Active
<1>16. ASSUME NEW c \in Clients, WaitPendingTest(c)
      PROVE  Accounting'
  BY <1>16 DEF WaitPendingTest, Goto, data, flags, history, IInv, TypeOK, Accounting, Active
<1>17. ASSUME NEW c \in Clients, TimedTest(c)
      PROVE  Accounting'
  BY <1>17 DEF TimedTest, Goto, data, flags, history, IInv, TypeOK, Accounting, Active
<1>18. ASSUME NEW c \in Clients, ReleaseStore(c)
      PROVE  Accounting'
  BY <1>18 DEF ReleaseStore, Goto, data, flags, history, IInv, TypeOK, Accounting, Active
<1>19. ASSUME NEW c \in Clients, Clear(c)
      PROVE  Accounting'
  BY <1>19 DEF Clear, Goto, data, flags, history, IInv, TypeOK, Accounting, Active
<1>20. ASSUME NEW c \in Clients, SetQuit(c)
      PROVE  Accounting'
  BY <1>20 DEF SetQuit, Goto, data, flags, history, IInv, TypeOK, Accounting, Active
<1>21. ASSUME NEW c \in Clients, WakeAll(c)
      PROVE  Accounting'
<2>. /\ pc[c] = "wakeall"
     /\ pc' = [t \in Threads |->
               IF t = c THEN "join"
               ELSE IF pc[t] = "asleep" THEN "woken" ELSE pc[t]]
  BY <1>21, WorkBroadcast DEF WakeAll, IInv, TypeOK, DoneWoken
<2>. QED
  BY <1>21 DEF WakeAll, data, flags, history, IInv, TypeOK, Accounting, Active
<1>22. ASSUME NEW c \in Clients, Join(c)
      PROVE  Accounting'
  <2>1. pc' = [t \in Threads |-> IF t = c THEN "farewell" ELSE DoneWoken[t]]
    BY <1>22, DoneBroadcast DEF Join, DoneWoken
  <2>2. Active' = {}
    BY <1>22, <2>1 DEF Join, Active, DoneWoken
  <2>. QED
    <3>1. Cardinality(Active') = 0
      BY <2>2, FS_EmptySet
    <3>. QED
      BY <1>22, <3>1 DEF Join, IInv, Accounting
<1>23. ASSUME NEW c \in Clients, Farewell(c)
      PROVE  Accounting'
  BY <1>23 DEF Farewell, SendDoneEvent, Goto, data, flags, history, IInv, TypeOK, Accounting, Active
<1>24. ASSUME NEW c \in Clients, BeginBatch(c)
      PROVE  Accounting'
  BY <1>24 DEF BeginBatch, Call, data, flags, history, IInv, TypeOK, Accounting, Active
<1>25. ASSUME NEW c \in Clients, EndBatch(c)
      PROVE  Accounting'
  BY <1>25 DEF EndBatch, Call, Goto, data, flags, history, IInv, TypeOK, Accounting, Active
<1>26. ASSUME NEW c \in Clients, CallWait(c)
      PROVE  Accounting'
  BY <1>26 DEF CallWait, Call, Goto, data, flags, history, IInv, TypeOK, Accounting, Active
<1>27. ASSUME NEW c \in Clients, CallWaitAny(c)
      PROVE  Accounting'
  BY <1>27 DEF CallWaitAny, Call, Goto, data, flags, history, IInv, TypeOK, Accounting, Active
<1>28. ASSUME NEW c \in Clients, Drain(c)
      PROVE  Accounting'
  BY <1>28 DEF Drain, Call, data, flags, history, IInv, TypeOK, Accounting, Active
<1>29. ASSUME NEW c \in Clients, ReleaseLoad(c)
      PROVE  Accounting'
  BY <1>29 DEF ReleaseLoad, Call, Goto, data, flags, history, IInv, TypeOK, Accounting, Active
<1>30. ASSUME NEW c \in Clients, TimedOut(c)
      PROVE  Accounting'
  BY <1>30 DEF TimedOut, Goto, data, flags, history, IInv, TypeOK, Accounting, Active
<1>. QED
  BY <1>1, <1>2, <1>3, <1>4, <1>5, <1>6, <1>7, <1>8, <1>9, <1>10, <1>11, <1>12, <1>13, <1>14, <1>15, <1>16, <1>17, <1>18, <1>19, <1>20, <1>21, <1>22, <1>23, <1>24, <1>25, <1>26, <1>27, <1>28, <1>29, <1>30
     DEF Next, WorkerStep, ClientStep, ClientCall

(***************************************************************************)
(* Each job is at one place.  The four steps that move a job.              *)
(***************************************************************************)
LEMMA TakeMoves ==
  ASSUME IInv, NEW w \in Workers, TakeJob(w)
  PROVE  /\ Head(queue) \in Queued /\ Head(queue) \in Jobs
         /\ job[w] = NoOne
         /\ Held' = Held \cup {Head(queue)}
<1>1. queue \in Seq(Jobs) /\ Len(queue) \in Nat \ {0} /\ Head(queue) = queue[1]
  BY HeadTailProperties DEF TakeJob, IInv, TypeOK
<1>2. Head(queue) \in Queued /\ Head(queue) \in Jobs
  BY <1>1 DEF Queued
<1>3. job[w] = NoOne
  BY DEF TakeJob, IInv, JobInv, Active
<1>4. \A v \in Workers : job'[v] = IF v = w THEN Head(queue) ELSE job[v]
  BY DEF TakeJob, IInv, TypeOK
<1>. QED
  BY <1>2, <1>3, <1>4 DEF Held

LEMMA ReportMoves ==
  ASSUME IInv, NEW w \in Workers, Report(w)
  PROVE  job[w] \in Jobs /\ job[w] \in Held /\ Held' = Held \ {job[w]}
<1>1. job[w] \in Jobs /\ job[w] \in Held
  BY DEF Report, Active, IInv, JobInv, TypeOK, Held
<1>. QED
  BY <1>1 DEF Report, IInv, TypeOK, Exclusive, Held

LEMMA Frame ==
  ASSUME Next
  PROVE  \/ UNCHANGED <<queue, job, finished, dropped>>
         \/ \E w \in Workers : TakeJob(w) \/ Report(w)
         \/ \E c \in Clients : Clear(c) \/ \E j \in Jobs : Enqueue(c, j)
  BY DEF Next, WorkerStep, ClientStep, ClientCall, Start, Top, CondWait,
     SpuriousWake, Reacquire, GoRound, RunJob, Relock, Signal, BeginBatch, EndBatch,
     Flush, CallWait, WaitTest, CallWaitAny, WaitPendingTest, CallTimedWait,
     TimedTest, TimedOut, Drain, ReleaseLoad, ReleaseStore, SetQuit, WakeAll,
     Join, Farewell, data, history

LEMMA ExclusiveStep ==
  ASSUME IInv, Next
  PROVE  Exclusive'
<1>1. CASE UNCHANGED <<queue, job, finished, dropped>>
  BY <1>1 DEF IInv, Exclusive, Queued, Held, Settled
<1>2. ASSUME NEW w \in Workers, TakeJob(w)
      PROVE  Exclusive'
  <2>1. /\ queue \in Seq(Jobs) /\ Len(queue) \in Nat \ {0}
        /\ Len(queue') = Len(queue) - 1
        /\ \A i \in 1..Len(queue') : queue'[i] = queue[i + 1]
        /\ Head(queue) = queue[1]
    BY <1>2, HeadTailProperties DEF TakeJob, IInv, TypeOK
  <2>2. \A i, k \in 1..Len(queue) : queue[i] = queue[k] => i = k
    BY DEF IInv, Exclusive
  <2>3. Queued' \subseteq Queued \ {Head(queue)}
    BY <2>1, <2>2 DEF Queued
  <2>4. Queued \ {Head(queue)} \subseteq Queued'
    <3>1. ASSUME NEW k \in 1..Len(queue), queue[k] # queue[1]
          PROVE  k - 1 \in 1..Len(queue') /\ queue'[k - 1] = queue[k]
      BY <2>1, <3>1
    <3>. QED
      BY <2>1, <3>1 DEF Queued
  <2>5. Head(queue) \in Queued /\ Head(queue) \in Jobs
    BY <1>2, TakeMoves
  <2>6. Held' = Held \cup {Head(queue)} /\ job[w] = NoOne
    BY <1>2, TakeMoves
  <2>7. \A i, k \in 1..Len(queue') : queue'[i] = queue'[k] => i = k
    BY <2>1, <2>2
  <2>8. \A u, v \in Workers : job'[u] = job'[v] /\ job'[u] # NoOne => u = v
    BY <1>2, <2>5, <2>6 DEF TakeJob, IInv, TypeOK, Exclusive, Held
  <2>9. Settled' = Settled /\ finished' \cap dropped' = {}
    BY <1>2 DEF TakeJob, IInv, Exclusive, Settled, history
  <2>. QED
    BY <2>3, <2>4, <2>5, <2>6, <2>7, <2>8, <2>9 DEF IInv, Exclusive
<1>3. ASSUME NEW w \in Workers, Report(w)
      PROVE  Exclusive'
  <2>1. job[w] \in Jobs /\ job[w] \in Held /\ Held' = Held \ {job[w]}
    BY <1>3, ReportMoves
  <2>3. Settled' = Settled \cup {job[w]} /\ Queued' = Queued
    BY <1>3 DEF Report, Settled, Queued
  <2>. QED
    BY <1>3, <2>1, <2>3 DEF Report, IInv, TypeOK, Exclusive, Held, Settled
<1>4. ASSUME NEW c \in Clients, NEW j \in Jobs, Enqueue(c, j)
      PROVE  Exclusive'
  <2>1. Queued' = Queued \cup {j}
    BY <1>4 DEF Enqueue, PutJob, Queued, IInv, TypeOK
  <2>2. Held' = Held /\ Settled' = Settled
    BY <1>4 DEF Enqueue, PutJob, Held, Settled, history
  <2>. QED
    BY <1>4, <2>1, <2>2 DEF Enqueue, PutJob, IInv, TypeOK, Exclusive, Queued, history
<1>5. ASSUME NEW c \in Clients, Clear(c)
      PROVE  Exclusive'
  <2>1. Queued' = {} /\ Held' = Held /\ Settled' = Settled \cup Queued
    BY <1>5 DEF Clear, Queued, Held, Settled
  <2>. QED
    BY <1>5, <2>1 DEF Clear, IInv, TypeOK, Exclusive, Settled, Queued
<1>. QED
  BY <1>1, <1>2, <1>3, <1>4, <1>5, Frame

(***************************************************************************)
(* Wake-ups.                                                               *)
(***************************************************************************)
LEMMA EmptyStep ==
  ASSUME IInv, Next
  PROVE  EmptyInv'
<1>. USE DEF WorkerLabels, ClientLabels, Destroying
<1>1. ASSUME NEW w \in Workers, Start(w)
      PROVE  EmptyInv'
  BY <1>1 DEF Start, Take, Goto, data, flags, history, IInv, TypeOK, EmptyInv, MutexInv, Holding
<1>2. ASSUME NEW w \in Workers, Top(w)
      PROVE  EmptyInv'
  BY <1>2 DEF Top, Drop, Goto, data, flags, history, IInv, TypeOK, EmptyInv, MutexInv, Holding
<1>3. ASSUME NEW w \in Workers, CondWait(w)
      PROVE  EmptyInv'
  BY <1>3 DEF CondWait, Drop, Goto, data, flags, history, IInv, TypeOK, EmptyInv, MutexInv, Holding
<1>4. ASSUME NEW w \in Workers, Reacquire(w)
      PROVE  EmptyInv'
  BY <1>4 DEF Reacquire, Goto, data, flags, history, IInv, TypeOK, EmptyInv, MutexInv, Holding
<1>5. ASSUME NEW w \in Workers, TakeJob(w)
      PROVE  EmptyInv'
  BY <1>5 DEF TakeJob, Drop, Goto, data, flags, history, IInv, TypeOK, EmptyInv, MutexInv, Holding
<1>6. ASSUME NEW w \in Workers, GoRound(w)
      PROVE  EmptyInv'
  BY <1>6 DEF GoRound, Goto, data, flags, history, IInv, TypeOK, EmptyInv, MutexInv, Holding
<1>7. ASSUME NEW w \in Workers, RunJob(w)
      PROVE  EmptyInv'
  BY <1>7 DEF RunJob, Goto, data, flags, history, IInv, TypeOK, EmptyInv, MutexInv, Holding
<1>8. ASSUME NEW w \in Workers, Relock(w)
      PROVE  EmptyInv'
<2>. /\ pc[w] = "relock"
     /\ pc' = [t \in Threads |->
               IF t = w THEN "report" ELSE DoneWoken[t]]
  BY <1>8, DoneBroadcast DEF Relock, IInv, TypeOK, DoneWoken
<2>. QED
  BY <1>8 DEF Relock, Take, data, flags, history, IInv, TypeOK, EmptyInv, MutexInv, Holding, DoneWoken
<1>9. ASSUME NEW w \in Workers, Report(w)
      PROVE  EmptyInv'
  BY <1>9 DEF Report, SendDoneEvent, Goto, data, flags, history, IInv, TypeOK, EmptyInv, MutexInv, Holding
<1>10. ASSUME NEW w \in Workers, SpuriousWake(w)
      PROVE  EmptyInv'
  BY <1>10 DEF SpuriousWake, Goto, data, flags, history, IInv, TypeOK, EmptyInv, MutexInv, Holding
<1>11. ASSUME NEW c \in Clients, NEW j \in Jobs, Enqueue(c, j)
      PROVE  EmptyInv'
  BY <1>11 DEF Enqueue, PutJob, Call, Goto, data, flags, history, IInv, TypeOK, EmptyInv, MutexInv, Holding
<1>12. ASSUME NEW c \in Clients, NEW usec \in Usecs, NEW ms \in Millis,
             CallTimedWait(c, usec, ms)
      PROVE  EmptyInv'
  BY <1>12 DEF CallTimedWait, Call, Goto, data, flags, history, IInv, TypeOK, EmptyInv, MutexInv, Holding
<1>13. ASSUME NEW c \in Clients, Signal(c)
      PROVE  EmptyInv'
<2>. /\ pc[c] = "signal"
     /\ pc' = [t \in Threads |->
               IF t = c THEN "idle"
               ELSE IF pc[t] = "asleep" /\ ~in_batch THEN "woken" ELSE pc[t]]
  BY <1>13, WorkBroadcast DEF Signal, IInv, TypeOK, DoneWoken
<2>. QED
  BY <1>13 DEF Signal, data, flags, history, IInv, TypeOK, EmptyInv, MutexInv, Holding
<1>14. ASSUME NEW c \in Clients, Flush(c)
      PROVE  EmptyInv'
<2>. /\ pc[c] = "flush"
     /\ pc' = [t \in Threads |->
               IF t = c THEN "idle"
               ELSE IF pc[t] = "asleep" THEN "woken" ELSE pc[t]]
  BY <1>14, WorkBroadcast DEF Flush, IInv, TypeOK, DoneWoken
<2>. QED
  BY <1>14 DEF Flush, data, flags, history, IInv, TypeOK, EmptyInv, MutexInv, Holding
<1>15. ASSUME NEW c \in Clients, WaitTest(c)
      PROVE  EmptyInv'
  BY <1>15 DEF WaitTest, Goto, data, flags, history, IInv, TypeOK, EmptyInv, MutexInv, Holding
<1>16. ASSUME NEW c \in Clients, WaitPendingTest(c)
      PROVE  EmptyInv'
  BY <1>16 DEF WaitPendingTest, Goto, data, flags, history, IInv, TypeOK, EmptyInv, MutexInv, Holding
<1>17. ASSUME NEW c \in Clients, TimedTest(c)
      PROVE  EmptyInv'
  BY <1>17 DEF TimedTest, Goto, data, flags, history, IInv, TypeOK, EmptyInv, MutexInv, Holding
<1>18. ASSUME NEW c \in Clients, ReleaseStore(c)
      PROVE  EmptyInv'
  BY <1>18 DEF ReleaseStore, Goto, data, flags, history, IInv, TypeOK, EmptyInv, MutexInv, Holding
<1>19. ASSUME NEW c \in Clients, Clear(c)
      PROVE  EmptyInv'
  BY <1>19 DEF Clear, Goto, data, flags, history, IInv, TypeOK, EmptyInv, MutexInv, Holding
<1>20. ASSUME NEW c \in Clients, SetQuit(c)
      PROVE  EmptyInv'
  BY <1>20 DEF SetQuit, Goto, data, flags, history, IInv, TypeOK, EmptyInv, MutexInv, Holding
<1>21. ASSUME NEW c \in Clients, WakeAll(c)
      PROVE  EmptyInv'
<2>. /\ pc[c] = "wakeall"
     /\ pc' = [t \in Threads |->
               IF t = c THEN "join"
               ELSE IF pc[t] = "asleep" THEN "woken" ELSE pc[t]]
  BY <1>21, WorkBroadcast DEF WakeAll, IInv, TypeOK, DoneWoken
<2>. QED
  BY <1>21 DEF WakeAll, data, flags, history, IInv, TypeOK, EmptyInv, MutexInv, Holding
<1>22. ASSUME NEW c \in Clients, Join(c)
      PROVE  EmptyInv'
<2>. /\ pc[c] = "join"
     /\ pc' = [t \in Threads |->
               IF t = c THEN "farewell" ELSE DoneWoken[t]]
  BY <1>22, DoneBroadcast DEF Join, IInv, TypeOK, DoneWoken
<2>. QED
  BY <1>22 DEF Join, data, flags, history, IInv, TypeOK, EmptyInv, MutexInv, Holding, DoneWoken
<1>23. ASSUME NEW c \in Clients, Farewell(c)
      PROVE  EmptyInv'
  BY <1>23 DEF Farewell, SendDoneEvent, Goto, data, flags, history, IInv, TypeOK, EmptyInv, MutexInv, Holding
<1>24. ASSUME NEW c \in Clients, BeginBatch(c)
      PROVE  EmptyInv'
  BY <1>24 DEF BeginBatch, Call, data, flags, history, IInv, TypeOK, EmptyInv, MutexInv, Holding
<1>25. ASSUME NEW c \in Clients, EndBatch(c)
      PROVE  EmptyInv'
  BY <1>25 DEF EndBatch, Call, Goto, data, flags, history, IInv, TypeOK, EmptyInv, MutexInv, Holding
<1>26. ASSUME NEW c \in Clients, CallWait(c)
      PROVE  EmptyInv'
  BY <1>26 DEF CallWait, Call, Goto, data, flags, history, IInv, TypeOK, EmptyInv, MutexInv, Holding
<1>27. ASSUME NEW c \in Clients, CallWaitAny(c)
      PROVE  EmptyInv'
  BY <1>27 DEF CallWaitAny, Call, Goto, data, flags, history, IInv, TypeOK, EmptyInv, MutexInv, Holding
<1>28. ASSUME NEW c \in Clients, Drain(c)
      PROVE  EmptyInv'
  BY <1>28 DEF Drain, Call, data, flags, history, IInv, TypeOK, EmptyInv, MutexInv, Holding
<1>29. ASSUME NEW c \in Clients, ReleaseLoad(c)
      PROVE  EmptyInv'
  BY <1>29 DEF ReleaseLoad, Call, Goto, data, flags, history, IInv, TypeOK, EmptyInv, MutexInv, Holding
<1>30. ASSUME NEW c \in Clients, TimedOut(c)
      PROVE  EmptyInv'
  BY <1>30 DEF TimedOut, Goto, data, flags, history, IInv, TypeOK, EmptyInv, MutexInv, Holding
<1>. QED
  BY <1>1, <1>2, <1>3, <1>4, <1>5, <1>6, <1>7, <1>8, <1>9, <1>10, <1>11, <1>12, <1>13, <1>14, <1>15, <1>16, <1>17, <1>18, <1>19, <1>20, <1>21, <1>22, <1>23, <1>24, <1>25, <1>26, <1>27, <1>28, <1>29, <1>30
     DEF Next, WorkerStep, ClientStep, ClientCall

LEMMA WakeupStep ==
  ASSUME IInv, Next
  PROVE  NoLostWakeup'
<1>. USE DEF WorkerLabels, ClientLabels, Destroying
<1>1. ASSUME NEW w \in Workers, Start(w)
      PROVE  NoLostWakeup'
  BY <1>1 DEF Start, Take, Goto, data, flags, history, IInv, TypeOK, NoLostWakeup, EmptyInv
<1>2. ASSUME NEW w \in Workers, Top(w)
      PROVE  NoLostWakeup'
  BY <1>2 DEF Top, Drop, Goto, data, flags, history, IInv, TypeOK, NoLostWakeup, EmptyInv
<1>3. ASSUME NEW w \in Workers, CondWait(w)
      PROVE  NoLostWakeup'
  BY <1>3 DEF CondWait, Drop, Goto, data, flags, history, IInv, TypeOK, NoLostWakeup, EmptyInv
<1>4. ASSUME NEW w \in Workers, Reacquire(w)
      PROVE  NoLostWakeup'
  BY <1>4 DEF Reacquire, Goto, data, flags, history, IInv, TypeOK, NoLostWakeup, EmptyInv
<1>5. ASSUME NEW w \in Workers, TakeJob(w)
      PROVE  NoLostWakeup'
  BY <1>5 DEF TakeJob, Drop, Goto, data, flags, history, IInv, TypeOK, NoLostWakeup, EmptyInv
<1>6. ASSUME NEW w \in Workers, GoRound(w)
      PROVE  NoLostWakeup'
  BY <1>6 DEF GoRound, Goto, data, flags, history, IInv, TypeOK, NoLostWakeup, EmptyInv
<1>7. ASSUME NEW w \in Workers, RunJob(w)
      PROVE  NoLostWakeup'
  BY <1>7 DEF RunJob, Goto, data, flags, history, IInv, TypeOK, NoLostWakeup, EmptyInv
<1>8. ASSUME NEW w \in Workers, Relock(w)
      PROVE  NoLostWakeup'
<2>. /\ pc[w] = "relock"
     /\ pc' = [t \in Threads |->
               IF t = w THEN "report" ELSE DoneWoken[t]]
  BY <1>8, DoneBroadcast DEF Relock, IInv, TypeOK, DoneWoken
<2>. QED
  BY <1>8 DEF Relock, Take, data, flags, history, IInv, TypeOK, NoLostWakeup, EmptyInv, DoneWoken
<1>9. ASSUME NEW w \in Workers, Report(w)
      PROVE  NoLostWakeup'
  BY <1>9 DEF Report, SendDoneEvent, Goto, data, flags, history, IInv, TypeOK, NoLostWakeup, EmptyInv
<1>10. ASSUME NEW w \in Workers, SpuriousWake(w)
      PROVE  NoLostWakeup'
  BY <1>10 DEF SpuriousWake, Goto, data, flags, history, IInv, TypeOK, NoLostWakeup, EmptyInv
<1>11. ASSUME NEW c \in Clients, NEW j \in Jobs, Enqueue(c, j)
      PROVE  NoLostWakeup'
  BY <1>11 DEF Enqueue, PutJob, Call, Goto, data, flags, history, IInv, TypeOK, NoLostWakeup, EmptyInv
<1>12. ASSUME NEW c \in Clients, NEW usec \in Usecs, NEW ms \in Millis,
             CallTimedWait(c, usec, ms)
      PROVE  NoLostWakeup'
  BY <1>12 DEF CallTimedWait, Call, Goto, data, flags, history, IInv, TypeOK, NoLostWakeup, EmptyInv
<1>13. ASSUME NEW c \in Clients, Signal(c)
      PROVE  NoLostWakeup'
<2>. /\ pc[c] = "signal"
     /\ pc' = [t \in Threads |->
               IF t = c THEN "idle"
               ELSE IF pc[t] = "asleep" /\ ~in_batch THEN "woken" ELSE pc[t]]
  BY <1>13, WorkBroadcast DEF Signal, IInv, TypeOK, DoneWoken
<2>. QED
  BY <1>13 DEF Signal, data, flags, history, IInv, TypeOK, NoLostWakeup, EmptyInv
<1>14. ASSUME NEW c \in Clients, Flush(c)
      PROVE  NoLostWakeup'
<2>. /\ pc[c] = "flush"
     /\ pc' = [t \in Threads |->
               IF t = c THEN "idle"
               ELSE IF pc[t] = "asleep" THEN "woken" ELSE pc[t]]
  BY <1>14, WorkBroadcast DEF Flush, IInv, TypeOK, DoneWoken
<2>. QED
  BY <1>14 DEF Flush, data, flags, history, IInv, TypeOK, NoLostWakeup, EmptyInv
<1>15. ASSUME NEW c \in Clients, WaitTest(c)
      PROVE  NoLostWakeup'
  BY <1>15 DEF WaitTest, Goto, data, flags, history, IInv, TypeOK, NoLostWakeup, EmptyInv
<1>16. ASSUME NEW c \in Clients, WaitPendingTest(c)
      PROVE  NoLostWakeup'
  BY <1>16 DEF WaitPendingTest, Goto, data, flags, history, IInv, TypeOK, NoLostWakeup, EmptyInv
<1>17. ASSUME NEW c \in Clients, TimedTest(c)
      PROVE  NoLostWakeup'
  BY <1>17 DEF TimedTest, Goto, data, flags, history, IInv, TypeOK, NoLostWakeup, EmptyInv
<1>18. ASSUME NEW c \in Clients, ReleaseStore(c)
      PROVE  NoLostWakeup'
  BY <1>18 DEF ReleaseStore, Goto, data, flags, history, IInv, TypeOK, NoLostWakeup, EmptyInv
<1>19. ASSUME NEW c \in Clients, Clear(c)
      PROVE  NoLostWakeup'
  BY <1>19 DEF Clear, Goto, data, flags, history, IInv, TypeOK, NoLostWakeup, EmptyInv
<1>20. ASSUME NEW c \in Clients, SetQuit(c)
      PROVE  NoLostWakeup'
  BY <1>20 DEF SetQuit, Goto, data, flags, history, IInv, TypeOK, NoLostWakeup, EmptyInv
<1>21. ASSUME NEW c \in Clients, WakeAll(c)
      PROVE  NoLostWakeup'
<2>. /\ pc[c] = "wakeall"
     /\ pc' = [t \in Threads |->
               IF t = c THEN "join"
               ELSE IF pc[t] = "asleep" THEN "woken" ELSE pc[t]]
  BY <1>21, WorkBroadcast DEF WakeAll, IInv, TypeOK, DoneWoken
<2>. QED
  BY <1>21 DEF WakeAll, data, flags, history, IInv, TypeOK, NoLostWakeup, EmptyInv
<1>22. ASSUME NEW c \in Clients, Join(c)
      PROVE  NoLostWakeup'
<2>. /\ pc[c] = "join"
     /\ pc' = [t \in Threads |->
               IF t = c THEN "farewell" ELSE DoneWoken[t]]
  BY <1>22, DoneBroadcast DEF Join, IInv, TypeOK, DoneWoken
<2>. QED
  BY <1>22 DEF Join, data, flags, history, IInv, TypeOK, NoLostWakeup, EmptyInv, DoneWoken
<1>23. ASSUME NEW c \in Clients, Farewell(c)
      PROVE  NoLostWakeup'
  BY <1>23 DEF Farewell, SendDoneEvent, Goto, data, flags, history, IInv, TypeOK, NoLostWakeup, EmptyInv
<1>24. ASSUME NEW c \in Clients, BeginBatch(c)
      PROVE  NoLostWakeup'
  BY <1>24 DEF BeginBatch, Call, data, flags, history, IInv, TypeOK, NoLostWakeup, EmptyInv
<1>25. ASSUME NEW c \in Clients, EndBatch(c)
      PROVE  NoLostWakeup'
  BY <1>25 DEF EndBatch, Call, Goto, data, flags, history, IInv, TypeOK, NoLostWakeup, EmptyInv
<1>26. ASSUME NEW c \in Clients, CallWait(c)
      PROVE  NoLostWakeup'
  BY <1>26 DEF CallWait, Call, Goto, data, flags, history, IInv, TypeOK, NoLostWakeup, EmptyInv
<1>27. ASSUME NEW c \in Clients, CallWaitAny(c)
      PROVE  NoLostWakeup'
  BY <1>27 DEF CallWaitAny, Call, Goto, data, flags, history, IInv, TypeOK, NoLostWakeup, EmptyInv
<1>28. ASSUME NEW c \in Clients, Drain(c)
      PROVE  NoLostWakeup'
  BY <1>28 DEF Drain, Call, data, flags, history, IInv, TypeOK, NoLostWakeup, EmptyInv
<1>29. ASSUME NEW c \in Clients, ReleaseLoad(c)
      PROVE  NoLostWakeup'
  BY <1>29 DEF ReleaseLoad, Call, Goto, data, flags, history, IInv, TypeOK, NoLostWakeup, EmptyInv
<1>30. ASSUME NEW c \in Clients, TimedOut(c)
      PROVE  NoLostWakeup'
  BY <1>30 DEF TimedOut, Goto, data, flags, history, IInv, TypeOK, NoLostWakeup, EmptyInv
<1>. QED
  BY <1>1, <1>2, <1>3, <1>4, <1>5, <1>6, <1>7, <1>8, <1>9, <1>10, <1>11, <1>12, <1>13, <1>14, <1>15, <1>16, <1>17, <1>18, <1>19, <1>20, <1>21, <1>22, <1>23, <1>24, <1>25, <1>26, <1>27, <1>28, <1>29, <1>30
     DEF Next, WorkerStep, ClientStep, ClientCall

LEMMA ReportStep ==
  ASSUME IInv, Next
  PROVE  ReportInv'
<1>. USE DEF WorkerLabels, ClientLabels, Destroying
<1>1. ASSUME NEW w \in Workers, Start(w)
      PROVE  ReportInv'
  BY <1>1 DEF Start, Take, Goto, data, flags, history, IInv, TypeOK, ReportInv, MutexInv, Holding
<1>2. ASSUME NEW w \in Workers, Top(w)
      PROVE  ReportInv'
  BY <1>2 DEF Top, Drop, Goto, data, flags, history, IInv, TypeOK, ReportInv, MutexInv, Holding
<1>3. ASSUME NEW w \in Workers, CondWait(w)
      PROVE  ReportInv'
  BY <1>3 DEF CondWait, Drop, Goto, data, flags, history, IInv, TypeOK, ReportInv, MutexInv, Holding
<1>4. ASSUME NEW w \in Workers, Reacquire(w)
      PROVE  ReportInv'
  BY <1>4 DEF Reacquire, Goto, data, flags, history, IInv, TypeOK, ReportInv, MutexInv, Holding
<1>5. ASSUME NEW w \in Workers, TakeJob(w)
      PROVE  ReportInv'
  BY <1>5 DEF TakeJob, Drop, Goto, data, flags, history, IInv, TypeOK, ReportInv, MutexInv, Holding
<1>6. ASSUME NEW w \in Workers, GoRound(w)
      PROVE  ReportInv'
  BY <1>6 DEF GoRound, Goto, data, flags, history, IInv, TypeOK, ReportInv, MutexInv, Holding
<1>7. ASSUME NEW w \in Workers, RunJob(w)
      PROVE  ReportInv'
  BY <1>7 DEF RunJob, Goto, data, flags, history, IInv, TypeOK, ReportInv, MutexInv, Holding
<1>8. ASSUME NEW w \in Workers, Relock(w)
      PROVE  ReportInv'
<2>. /\ pc[w] = "relock"
     /\ pc' = [t \in Threads |->
               IF t = w THEN "report" ELSE DoneWoken[t]]
  BY <1>8, DoneBroadcast DEF Relock, IInv, TypeOK, DoneWoken
<2>. QED
  BY <1>8 DEF Relock, Take, data, flags, history, IInv, TypeOK, ReportInv, MutexInv, Holding, DoneWoken
<1>9. ASSUME NEW w \in Workers, Report(w)
      PROVE  ReportInv'
  BY <1>9 DEF Report, SendDoneEvent, Goto, data, flags, history, IInv, TypeOK, ReportInv, MutexInv, Holding
<1>10. ASSUME NEW w \in Workers, SpuriousWake(w)
      PROVE  ReportInv'
  BY <1>10 DEF SpuriousWake, Goto, data, flags, history, IInv, TypeOK, ReportInv, MutexInv, Holding
<1>11. ASSUME NEW c \in Clients, NEW j \in Jobs, Enqueue(c, j)
      PROVE  ReportInv'
  BY <1>11 DEF Enqueue, PutJob, Call, Goto, data, flags, history, IInv, TypeOK, ReportInv, MutexInv, Holding
<1>12. ASSUME NEW c \in Clients, NEW usec \in Usecs, NEW ms \in Millis,
             CallTimedWait(c, usec, ms)
      PROVE  ReportInv'
  BY <1>12 DEF CallTimedWait, Call, Goto, data, flags, history, IInv, TypeOK, ReportInv, MutexInv, Holding
<1>13. ASSUME NEW c \in Clients, Signal(c)
      PROVE  ReportInv'
<2>. /\ pc[c] = "signal"
     /\ pc' = [t \in Threads |->
               IF t = c THEN "idle"
               ELSE IF pc[t] = "asleep" /\ ~in_batch THEN "woken" ELSE pc[t]]
  BY <1>13, WorkBroadcast DEF Signal, IInv, TypeOK, DoneWoken
<2>. QED
  BY <1>13 DEF Signal, data, flags, history, IInv, TypeOK, ReportInv, MutexInv, Holding
<1>14. ASSUME NEW c \in Clients, Flush(c)
      PROVE  ReportInv'
<2>. /\ pc[c] = "flush"
     /\ pc' = [t \in Threads |->
               IF t = c THEN "idle"
               ELSE IF pc[t] = "asleep" THEN "woken" ELSE pc[t]]
  BY <1>14, WorkBroadcast DEF Flush, IInv, TypeOK, DoneWoken
<2>. QED
  BY <1>14 DEF Flush, data, flags, history, IInv, TypeOK, ReportInv, MutexInv, Holding
<1>15. ASSUME NEW c \in Clients, WaitTest(c)
      PROVE  ReportInv'
  BY <1>15 DEF WaitTest, Goto, data, flags, history, IInv, TypeOK, ReportInv, MutexInv, Holding
<1>16. ASSUME NEW c \in Clients, WaitPendingTest(c)
      PROVE  ReportInv'
  BY <1>16 DEF WaitPendingTest, Goto, data, flags, history, IInv, TypeOK, ReportInv, MutexInv, Holding
<1>17. ASSUME NEW c \in Clients, TimedTest(c)
      PROVE  ReportInv'
  BY <1>17 DEF TimedTest, Goto, data, flags, history, IInv, TypeOK, ReportInv, MutexInv, Holding
<1>18. ASSUME NEW c \in Clients, ReleaseStore(c)
      PROVE  ReportInv'
  BY <1>18 DEF ReleaseStore, Goto, data, flags, history, IInv, TypeOK, ReportInv, MutexInv, Holding
<1>19. ASSUME NEW c \in Clients, Clear(c)
      PROVE  ReportInv'
  BY <1>19 DEF Clear, Goto, data, flags, history, IInv, TypeOK, ReportInv, MutexInv, Holding
<1>20. ASSUME NEW c \in Clients, SetQuit(c)
      PROVE  ReportInv'
  BY <1>20 DEF SetQuit, Goto, data, flags, history, IInv, TypeOK, ReportInv, MutexInv, Holding
<1>21. ASSUME NEW c \in Clients, WakeAll(c)
      PROVE  ReportInv'
<2>. /\ pc[c] = "wakeall"
     /\ pc' = [t \in Threads |->
               IF t = c THEN "join"
               ELSE IF pc[t] = "asleep" THEN "woken" ELSE pc[t]]
  BY <1>21, WorkBroadcast DEF WakeAll, IInv, TypeOK, DoneWoken
<2>. QED
  BY <1>21 DEF WakeAll, data, flags, history, IInv, TypeOK, ReportInv, MutexInv, Holding
<1>22. ASSUME NEW c \in Clients, Join(c)
      PROVE  ReportInv'
<2>. /\ pc[c] = "join"
     /\ pc' = [t \in Threads |->
               IF t = c THEN "farewell" ELSE DoneWoken[t]]
  BY <1>22, DoneBroadcast DEF Join, IInv, TypeOK, DoneWoken
<2>. QED
  BY <1>22 DEF Join, data, flags, history, IInv, TypeOK, ReportInv, MutexInv, Holding, DoneWoken
<1>23. ASSUME NEW c \in Clients, Farewell(c)
      PROVE  ReportInv'
  BY <1>23 DEF Farewell, SendDoneEvent, Goto, data, flags, history, IInv, TypeOK, ReportInv, MutexInv, Holding
<1>24. ASSUME NEW c \in Clients, BeginBatch(c)
      PROVE  ReportInv'
  BY <1>24 DEF BeginBatch, Call, data, flags, history, IInv, TypeOK, ReportInv, MutexInv, Holding
<1>25. ASSUME NEW c \in Clients, EndBatch(c)
      PROVE  ReportInv'
  BY <1>25 DEF EndBatch, Call, Goto, data, flags, history, IInv, TypeOK, ReportInv, MutexInv, Holding
<1>26. ASSUME NEW c \in Clients, CallWait(c)
      PROVE  ReportInv'
  BY <1>26 DEF CallWait, Call, Goto, data, flags, history, IInv, TypeOK, ReportInv, MutexInv, Holding
<1>27. ASSUME NEW c \in Clients, CallWaitAny(c)
      PROVE  ReportInv'
  BY <1>27 DEF CallWaitAny, Call, Goto, data, flags, history, IInv, TypeOK, ReportInv, MutexInv, Holding
<1>28. ASSUME NEW c \in Clients, Drain(c)
      PROVE  ReportInv'
  BY <1>28 DEF Drain, Call, data, flags, history, IInv, TypeOK, ReportInv, MutexInv, Holding
<1>29. ASSUME NEW c \in Clients, ReleaseLoad(c)
      PROVE  ReportInv'
  BY <1>29 DEF ReleaseLoad, Call, Goto, data, flags, history, IInv, TypeOK, ReportInv, MutexInv, Holding
<1>30. ASSUME NEW c \in Clients, TimedOut(c)
      PROVE  ReportInv'
  BY <1>30 DEF TimedOut, Goto, data, flags, history, IInv, TypeOK, ReportInv, MutexInv, Holding
<1>. QED
  BY <1>1, <1>2, <1>3, <1>4, <1>5, <1>6, <1>7, <1>8, <1>9, <1>10, <1>11, <1>12, <1>13, <1>14, <1>15, <1>16, <1>17, <1>18, <1>19, <1>20, <1>21, <1>22, <1>23, <1>24, <1>25, <1>26, <1>27, <1>28, <1>29, <1>30
     DEF Next, WorkerStep, ClientStep, ClientCall

LEMMA WaiterStep ==
  ASSUME IInv, Next
  PROVE  WaiterNotStranded'
<1>. USE DEF WorkerLabels, ClientLabels, Destroying
<1>1. ASSUME NEW w \in Workers, Start(w)
      PROVE  WaiterNotStranded'
  BY <1>1 DEF Start, Take, Goto, data, flags, history, IInv, TypeOK, WaiterNotStranded, ReportInv, DestroyAlone
<1>2. ASSUME NEW w \in Workers, Top(w)
      PROVE  WaiterNotStranded'
  BY <1>2 DEF Top, Drop, Goto, data, flags, history, IInv, TypeOK, WaiterNotStranded, ReportInv, DestroyAlone
<1>3. ASSUME NEW w \in Workers, CondWait(w)
      PROVE  WaiterNotStranded'
  BY <1>3 DEF CondWait, Drop, Goto, data, flags, history, IInv, TypeOK, WaiterNotStranded, ReportInv, DestroyAlone
<1>4. ASSUME NEW w \in Workers, Reacquire(w)
      PROVE  WaiterNotStranded'
  BY <1>4 DEF Reacquire, Goto, data, flags, history, IInv, TypeOK, WaiterNotStranded, ReportInv, DestroyAlone
<1>5. ASSUME NEW w \in Workers, TakeJob(w)
      PROVE  WaiterNotStranded'
  BY <1>5 DEF TakeJob, Drop, Goto, data, flags, history, IInv, TypeOK, WaiterNotStranded, ReportInv, DestroyAlone
<1>6. ASSUME NEW w \in Workers, GoRound(w)
      PROVE  WaiterNotStranded'
  BY <1>6 DEF GoRound, Goto, data, flags, history, IInv, TypeOK, WaiterNotStranded, ReportInv, DestroyAlone
<1>7. ASSUME NEW w \in Workers, RunJob(w)
      PROVE  WaiterNotStranded'
  BY <1>7 DEF RunJob, Goto, data, flags, history, IInv, TypeOK, WaiterNotStranded, ReportInv, DestroyAlone
<1>8. ASSUME NEW w \in Workers, Relock(w)
      PROVE  WaiterNotStranded'
<2>. /\ pc[w] = "relock"
     /\ pc' = [t \in Threads |->
               IF t = w THEN "report" ELSE DoneWoken[t]]
  BY <1>8, DoneBroadcast DEF Relock, IInv, TypeOK, DoneWoken
<2>. QED
  BY <1>8 DEF Relock, Take, data, flags, history, IInv, TypeOK, WaiterNotStranded, ReportInv, DestroyAlone, DoneWoken
<1>9. ASSUME NEW w \in Workers, Report(w)
      PROVE  WaiterNotStranded'
  BY <1>9 DEF Report, SendDoneEvent, Goto, data, flags, history, IInv, TypeOK, WaiterNotStranded, ReportInv, DestroyAlone
<1>10. ASSUME NEW w \in Workers, SpuriousWake(w)
      PROVE  WaiterNotStranded'
  BY <1>10 DEF SpuriousWake, Goto, data, flags, history, IInv, TypeOK, WaiterNotStranded, ReportInv, DestroyAlone
<1>11. ASSUME NEW c \in Clients, NEW j \in Jobs, Enqueue(c, j)
      PROVE  WaiterNotStranded'
  BY <1>11 DEF Enqueue, PutJob, Call, Goto, data, flags, history, IInv, TypeOK, WaiterNotStranded, ReportInv, DestroyAlone
<1>12. ASSUME NEW c \in Clients, NEW usec \in Usecs, NEW ms \in Millis,
             CallTimedWait(c, usec, ms)
      PROVE  WaiterNotStranded'
  BY <1>12 DEF CallTimedWait, Call, Goto, data, flags, history, IInv, TypeOK, WaiterNotStranded, ReportInv, DestroyAlone
<1>13. ASSUME NEW c \in Clients, Signal(c)
      PROVE  WaiterNotStranded'
<2>. /\ pc[c] = "signal"
     /\ pc' = [t \in Threads |->
               IF t = c THEN "idle"
               ELSE IF pc[t] = "asleep" /\ ~in_batch THEN "woken" ELSE pc[t]]
  BY <1>13, WorkBroadcast DEF Signal, IInv, TypeOK, DoneWoken
<2>. QED
  BY <1>13 DEF Signal, data, flags, history, IInv, TypeOK, WaiterNotStranded, ReportInv, DestroyAlone
<1>14. ASSUME NEW c \in Clients, Flush(c)
      PROVE  WaiterNotStranded'
<2>. /\ pc[c] = "flush"
     /\ pc' = [t \in Threads |->
               IF t = c THEN "idle"
               ELSE IF pc[t] = "asleep" THEN "woken" ELSE pc[t]]
  BY <1>14, WorkBroadcast DEF Flush, IInv, TypeOK, DoneWoken
<2>. QED
  BY <1>14 DEF Flush, data, flags, history, IInv, TypeOK, WaiterNotStranded, ReportInv, DestroyAlone
<1>15. ASSUME NEW c \in Clients, WaitTest(c)
      PROVE  WaiterNotStranded'
  BY <1>15 DEF WaitTest, Goto, data, flags, history, IInv, TypeOK, WaiterNotStranded, ReportInv, DestroyAlone
<1>16. ASSUME NEW c \in Clients, WaitPendingTest(c)
      PROVE  WaiterNotStranded'
  BY <1>16 DEF WaitPendingTest, Goto, data, flags, history, IInv, TypeOK, WaiterNotStranded, ReportInv, DestroyAlone
<1>17. ASSUME NEW c \in Clients, TimedTest(c)
      PROVE  WaiterNotStranded'
  BY <1>17 DEF TimedTest, Goto, data, flags, history, IInv, TypeOK, WaiterNotStranded, ReportInv, DestroyAlone
<1>18. ASSUME NEW c \in Clients, ReleaseStore(c)
      PROVE  WaiterNotStranded'
  BY <1>18 DEF ReleaseStore, Goto, data, flags, history, IInv, TypeOK, WaiterNotStranded, ReportInv, DestroyAlone
<1>19. ASSUME NEW c \in Clients, Clear(c)
      PROVE  WaiterNotStranded'
  BY <1>19 DEF Clear, Goto, data, flags, history, IInv, TypeOK, WaiterNotStranded, ReportInv, DestroyAlone
<1>20. ASSUME NEW c \in Clients, SetQuit(c)
      PROVE  WaiterNotStranded'
  BY <1>20 DEF SetQuit, Goto, data, flags, history, IInv, TypeOK, WaiterNotStranded, ReportInv, DestroyAlone
<1>21. ASSUME NEW c \in Clients, WakeAll(c)
      PROVE  WaiterNotStranded'
<2>. /\ pc[c] = "wakeall"
     /\ pc' = [t \in Threads |->
               IF t = c THEN "join"
               ELSE IF pc[t] = "asleep" THEN "woken" ELSE pc[t]]
  BY <1>21, WorkBroadcast DEF WakeAll, IInv, TypeOK, DoneWoken
<2>. QED
  BY <1>21 DEF WakeAll, data, flags, history, IInv, TypeOK, WaiterNotStranded, ReportInv, DestroyAlone
<1>22. ASSUME NEW c \in Clients, Join(c)
      PROVE  WaiterNotStranded'
<2>. /\ pc[c] = "join"
     /\ pc' = [t \in Threads |->
               IF t = c THEN "farewell" ELSE DoneWoken[t]]
  BY <1>22, DoneBroadcast DEF Join, IInv, TypeOK, DoneWoken
<2>. QED
  BY <1>22 DEF Join, data, flags, history, IInv, TypeOK, WaiterNotStranded, ReportInv, DestroyAlone, DoneWoken
<1>23. ASSUME NEW c \in Clients, Farewell(c)
      PROVE  WaiterNotStranded'
  BY <1>23 DEF Farewell, SendDoneEvent, Goto, data, flags, history, IInv, TypeOK, WaiterNotStranded, ReportInv, DestroyAlone
<1>24. ASSUME NEW c \in Clients, BeginBatch(c)
      PROVE  WaiterNotStranded'
  BY <1>24 DEF BeginBatch, Call, data, flags, history, IInv, TypeOK, WaiterNotStranded, ReportInv, DestroyAlone
<1>25. ASSUME NEW c \in Clients, EndBatch(c)
      PROVE  WaiterNotStranded'
  BY <1>25 DEF EndBatch, Call, Goto, data, flags, history, IInv, TypeOK, WaiterNotStranded, ReportInv, DestroyAlone
<1>26. ASSUME NEW c \in Clients, CallWait(c)
      PROVE  WaiterNotStranded'
  BY <1>26 DEF CallWait, Call, Goto, data, flags, history, IInv, TypeOK, WaiterNotStranded, ReportInv, DestroyAlone
<1>27. ASSUME NEW c \in Clients, CallWaitAny(c)
      PROVE  WaiterNotStranded'
  BY <1>27 DEF CallWaitAny, Call, Goto, data, flags, history, IInv, TypeOK, WaiterNotStranded, ReportInv, DestroyAlone
<1>28. ASSUME NEW c \in Clients, Drain(c)
      PROVE  WaiterNotStranded'
  BY <1>28 DEF Drain, Call, data, flags, history, IInv, TypeOK, WaiterNotStranded, ReportInv, DestroyAlone
<1>29. ASSUME NEW c \in Clients, ReleaseLoad(c)
      PROVE  WaiterNotStranded'
  BY <1>29 DEF ReleaseLoad, Call, Goto, data, flags, history, IInv, TypeOK, WaiterNotStranded, ReportInv, DestroyAlone
<1>30. ASSUME NEW c \in Clients, TimedOut(c)
      PROVE  WaiterNotStranded'
  BY <1>30 DEF TimedOut, Goto, data, flags, history, IInv, TypeOK, WaiterNotStranded, ReportInv, DestroyAlone
<1>. QED
  BY <1>1, <1>2, <1>3, <1>4, <1>5, <1>6, <1>7, <1>8, <1>9, <1>10, <1>11, <1>12, <1>13, <1>14, <1>15, <1>16, <1>17, <1>18, <1>19, <1>20, <1>21, <1>22, <1>23, <1>24, <1>25, <1>26, <1>27, <1>28, <1>29, <1>30
     DEF Next, WorkerStep, ClientStep, ClientCall

(***************************************************************************)
(* Release and destroy.  A client leaves Live when it stores nref, and nobody *)
(* enters it; so nref, and what a release has read of it, bounds Live.     *)
(***************************************************************************)
LEMMA LiveStep ==
  ASSUME IInv, Next
  PROVE  (\E d \in Clients : ReleaseStore(d)) \/ Live' = Live
<1>. USE DEF WorkerLabels, ClientLabels, Destroying
<1>1. ASSUME NEW w \in Workers, Start(w)
      PROVE  (\E d \in Clients : ReleaseStore(d)) \/ Live' = Live
  BY <1>1 DEF Start, Take, Goto, data, flags, history, IInv, TypeOK, Live
<1>2. ASSUME NEW w \in Workers, Top(w)
      PROVE  (\E d \in Clients : ReleaseStore(d)) \/ Live' = Live
  BY <1>2 DEF Top, Drop, Goto, data, flags, history, IInv, TypeOK, Live
<1>3. ASSUME NEW w \in Workers, CondWait(w)
      PROVE  (\E d \in Clients : ReleaseStore(d)) \/ Live' = Live
  BY <1>3 DEF CondWait, Drop, Goto, data, flags, history, IInv, TypeOK, Live
<1>4. ASSUME NEW w \in Workers, Reacquire(w)
      PROVE  (\E d \in Clients : ReleaseStore(d)) \/ Live' = Live
  BY <1>4 DEF Reacquire, Goto, data, flags, history, IInv, TypeOK, Live
<1>5. ASSUME NEW w \in Workers, TakeJob(w)
      PROVE  (\E d \in Clients : ReleaseStore(d)) \/ Live' = Live
  BY <1>5 DEF TakeJob, Drop, Goto, data, flags, history, IInv, TypeOK, Live
<1>6. ASSUME NEW w \in Workers, GoRound(w)
      PROVE  (\E d \in Clients : ReleaseStore(d)) \/ Live' = Live
  BY <1>6 DEF GoRound, Goto, data, flags, history, IInv, TypeOK, Live
<1>7. ASSUME NEW w \in Workers, RunJob(w)
      PROVE  (\E d \in Clients : ReleaseStore(d)) \/ Live' = Live
  BY <1>7 DEF RunJob, Goto, data, flags, history, IInv, TypeOK, Live
<1>8. ASSUME NEW w \in Workers, Relock(w)
      PROVE  (\E d \in Clients : ReleaseStore(d)) \/ Live' = Live
<2>. /\ pc[w] = "relock"
     /\ pc' = [t \in Threads |->
               IF t = w THEN "report" ELSE DoneWoken[t]]
  BY <1>8, DoneBroadcast DEF Relock, IInv, TypeOK, DoneWoken
<2>. QED
  BY <1>8 DEF Relock, Take, data, flags, history, IInv, TypeOK, Live, DoneWoken
<1>9. ASSUME NEW w \in Workers, Report(w)
      PROVE  (\E d \in Clients : ReleaseStore(d)) \/ Live' = Live
  BY <1>9 DEF Report, SendDoneEvent, Goto, data, flags, history, IInv, TypeOK, Live
<1>10. ASSUME NEW w \in Workers, SpuriousWake(w)
      PROVE  (\E d \in Clients : ReleaseStore(d)) \/ Live' = Live
  BY <1>10 DEF SpuriousWake, Goto, data, flags, history, IInv, TypeOK, Live
<1>11. ASSUME NEW c \in Clients, NEW j \in Jobs, Enqueue(c, j)
      PROVE  (\E d \in Clients : ReleaseStore(d)) \/ Live' = Live
  BY <1>11 DEF Enqueue, PutJob, Call, Goto, data, flags, history, IInv, TypeOK, Live
<1>12. ASSUME NEW c \in Clients, NEW usec \in Usecs, NEW ms \in Millis,
             CallTimedWait(c, usec, ms)
      PROVE  (\E d \in Clients : ReleaseStore(d)) \/ Live' = Live
  BY <1>12 DEF CallTimedWait, Call, Goto, data, flags, history, IInv, TypeOK, Live
<1>13. ASSUME NEW c \in Clients, Signal(c)
      PROVE  (\E d \in Clients : ReleaseStore(d)) \/ Live' = Live
<2>. /\ pc[c] = "signal"
     /\ pc' = [t \in Threads |->
               IF t = c THEN "idle"
               ELSE IF pc[t] = "asleep" /\ ~in_batch THEN "woken" ELSE pc[t]]
  BY <1>13, WorkBroadcast DEF Signal, IInv, TypeOK, DoneWoken
<2>. QED
  BY <1>13 DEF Signal, data, flags, history, IInv, TypeOK, Live
<1>14. ASSUME NEW c \in Clients, Flush(c)
      PROVE  (\E d \in Clients : ReleaseStore(d)) \/ Live' = Live
<2>. /\ pc[c] = "flush"
     /\ pc' = [t \in Threads |->
               IF t = c THEN "idle"
               ELSE IF pc[t] = "asleep" THEN "woken" ELSE pc[t]]
  BY <1>14, WorkBroadcast DEF Flush, IInv, TypeOK, DoneWoken
<2>. QED
  BY <1>14 DEF Flush, data, flags, history, IInv, TypeOK, Live
<1>15. ASSUME NEW c \in Clients, WaitTest(c)
      PROVE  (\E d \in Clients : ReleaseStore(d)) \/ Live' = Live
  BY <1>15 DEF WaitTest, Goto, data, flags, history, IInv, TypeOK, Live
<1>16. ASSUME NEW c \in Clients, WaitPendingTest(c)
      PROVE  (\E d \in Clients : ReleaseStore(d)) \/ Live' = Live
  BY <1>16 DEF WaitPendingTest, Goto, data, flags, history, IInv, TypeOK, Live
<1>17. ASSUME NEW c \in Clients, TimedTest(c)
      PROVE  (\E d \in Clients : ReleaseStore(d)) \/ Live' = Live
  BY <1>17 DEF TimedTest, Goto, data, flags, history, IInv, TypeOK, Live
<1>18. ASSUME NEW c \in Clients, ReleaseStore(c)
      PROVE  (\E d \in Clients : ReleaseStore(d)) \/ Live' = Live
  BY <1>18 DEF ReleaseStore, Goto, data, flags, history, IInv, TypeOK, Live
<1>19. ASSUME NEW c \in Clients, Clear(c)
      PROVE  (\E d \in Clients : ReleaseStore(d)) \/ Live' = Live
  BY <1>19 DEF Clear, Goto, data, flags, history, IInv, TypeOK, Live
<1>20. ASSUME NEW c \in Clients, SetQuit(c)
      PROVE  (\E d \in Clients : ReleaseStore(d)) \/ Live' = Live
  BY <1>20 DEF SetQuit, Goto, data, flags, history, IInv, TypeOK, Live
<1>21. ASSUME NEW c \in Clients, WakeAll(c)
      PROVE  (\E d \in Clients : ReleaseStore(d)) \/ Live' = Live
<2>. /\ pc[c] = "wakeall"
     /\ pc' = [t \in Threads |->
               IF t = c THEN "join"
               ELSE IF pc[t] = "asleep" THEN "woken" ELSE pc[t]]
  BY <1>21, WorkBroadcast DEF WakeAll, IInv, TypeOK, DoneWoken
<2>. QED
  BY <1>21 DEF WakeAll, data, flags, history, IInv, TypeOK, Live
<1>22. ASSUME NEW c \in Clients, Join(c)
      PROVE  (\E d \in Clients : ReleaseStore(d)) \/ Live' = Live
<2>. /\ pc[c] = "join"
     /\ pc' = [t \in Threads |->
               IF t = c THEN "farewell" ELSE DoneWoken[t]]
  BY <1>22, DoneBroadcast DEF Join, IInv, TypeOK, DoneWoken
<2>. QED
  BY <1>22 DEF Join, data, flags, history, IInv, TypeOK, Live, DoneWoken
<1>23. ASSUME NEW c \in Clients, Farewell(c)
      PROVE  (\E d \in Clients : ReleaseStore(d)) \/ Live' = Live
  BY <1>23 DEF Farewell, SendDoneEvent, Goto, data, flags, history, IInv, TypeOK, Live
<1>24. ASSUME NEW c \in Clients, BeginBatch(c)
      PROVE  (\E d \in Clients : ReleaseStore(d)) \/ Live' = Live
  BY <1>24 DEF BeginBatch, Call, data, flags, history, IInv, TypeOK, Live
<1>25. ASSUME NEW c \in Clients, EndBatch(c)
      PROVE  (\E d \in Clients : ReleaseStore(d)) \/ Live' = Live
  BY <1>25 DEF EndBatch, Call, Goto, data, flags, history, IInv, TypeOK, Live
<1>26. ASSUME NEW c \in Clients, CallWait(c)
      PROVE  (\E d \in Clients : ReleaseStore(d)) \/ Live' = Live
  BY <1>26 DEF CallWait, Call, Goto, data, flags, history, IInv, TypeOK, Live
<1>27. ASSUME NEW c \in Clients, CallWaitAny(c)
      PROVE  (\E d \in Clients : ReleaseStore(d)) \/ Live' = Live
  BY <1>27 DEF CallWaitAny, Call, Goto, data, flags, history, IInv, TypeOK, Live
<1>28. ASSUME NEW c \in Clients, Drain(c)
      PROVE  (\E d \in Clients : ReleaseStore(d)) \/ Live' = Live
  BY <1>28 DEF Drain, Call, data, flags, history, IInv, TypeOK, Live
<1>29. ASSUME NEW c \in Clients, ReleaseLoad(c)
      PROVE  (\E d \in Clients : ReleaseStore(d)) \/ Live' = Live
  BY <1>29 DEF ReleaseLoad, Call, Goto, data, flags, history, IInv, TypeOK, Live
<1>30. ASSUME NEW c \in Clients, TimedOut(c)
      PROVE  (\E d \in Clients : ReleaseStore(d)) \/ Live' = Live
  BY <1>30 DEF TimedOut, Goto, data, flags, history, IInv, TypeOK, Live
<1>. QED
  BY <1>1, <1>2, <1>3, <1>4, <1>5, <1>6, <1>7, <1>8, <1>9, <1>10, <1>11, <1>12, <1>13, <1>14, <1>15, <1>16, <1>17, <1>18, <1>19, <1>20, <1>21, <1>22, <1>23, <1>24, <1>25, <1>26, <1>27, <1>28, <1>29, <1>30
     DEF Next, WorkerStep, ClientStep, ClientCall

\* What a step other than a store of nref keeps: nref, the copies of it that
\* are held, and, but for the destroyer, who is gone.
Kept ==
  /\ nref' = nref
  /\ \A d \in Clients : pc'[d] = "release" =>
       (pc[d] = "release" /\ reg'[d] = reg[d]) \/ reg'[d] = nref
  /\ \A d \in Clients : pc'[d] \in Destroying => pc[d] \in Destroying
  /\ \A d \in Clients : pc[d] = "gone" => pc'[d] = "gone"

LEMMA KeptStep ==
  ASSUME IInv, Next
  PROVE  (\E d \in Clients : ReleaseStore(d)) \/ Kept
<1>. USE DEF WorkerLabels, ClientLabels, Destroying
<1>1. ASSUME NEW w \in Workers, Start(w)
      PROVE  (\E d \in Clients : ReleaseStore(d)) \/ Kept
  BY <1>1 DEF Start, Take, Goto, data, flags, history, IInv, TypeOK, Kept
<1>2. ASSUME NEW w \in Workers, Top(w)
      PROVE  (\E d \in Clients : ReleaseStore(d)) \/ Kept
  BY <1>2 DEF Top, Drop, Goto, data, flags, history, IInv, TypeOK, Kept
<1>3. ASSUME NEW w \in Workers, CondWait(w)
      PROVE  (\E d \in Clients : ReleaseStore(d)) \/ Kept
  BY <1>3 DEF CondWait, Drop, Goto, data, flags, history, IInv, TypeOK, Kept
<1>4. ASSUME NEW w \in Workers, Reacquire(w)
      PROVE  (\E d \in Clients : ReleaseStore(d)) \/ Kept
  BY <1>4 DEF Reacquire, Goto, data, flags, history, IInv, TypeOK, Kept
<1>5. ASSUME NEW w \in Workers, TakeJob(w)
      PROVE  (\E d \in Clients : ReleaseStore(d)) \/ Kept
  BY <1>5 DEF TakeJob, Drop, Goto, data, flags, history, IInv, TypeOK, Kept
<1>6. ASSUME NEW w \in Workers, GoRound(w)
      PROVE  (\E d \in Clients : ReleaseStore(d)) \/ Kept
  BY <1>6 DEF GoRound, Goto, data, flags, history, IInv, TypeOK, Kept
<1>7. ASSUME NEW w \in Workers, RunJob(w)
      PROVE  (\E d \in Clients : ReleaseStore(d)) \/ Kept
  BY <1>7 DEF RunJob, Goto, data, flags, history, IInv, TypeOK, Kept
<1>8. ASSUME NEW w \in Workers, Relock(w)
      PROVE  (\E d \in Clients : ReleaseStore(d)) \/ Kept
<2>. /\ pc[w] = "relock"
     /\ pc' = [t \in Threads |->
               IF t = w THEN "report" ELSE DoneWoken[t]]
  BY <1>8, DoneBroadcast DEF Relock, IInv, TypeOK, DoneWoken
<2>. QED
  BY <1>8 DEF Relock, Take, data, flags, history, IInv, TypeOK, Kept, DoneWoken
<1>9. ASSUME NEW w \in Workers, Report(w)
      PROVE  (\E d \in Clients : ReleaseStore(d)) \/ Kept
  BY <1>9 DEF Report, SendDoneEvent, Goto, data, flags, history, IInv, TypeOK, Kept
<1>10. ASSUME NEW w \in Workers, SpuriousWake(w)
      PROVE  (\E d \in Clients : ReleaseStore(d)) \/ Kept
  BY <1>10 DEF SpuriousWake, Goto, data, flags, history, IInv, TypeOK, Kept
<1>11. ASSUME NEW c \in Clients, NEW j \in Jobs, Enqueue(c, j)
      PROVE  (\E d \in Clients : ReleaseStore(d)) \/ Kept
  BY <1>11 DEF Enqueue, PutJob, Call, Goto, data, flags, history, IInv, TypeOK, Kept
<1>12. ASSUME NEW c \in Clients, NEW usec \in Usecs, NEW ms \in Millis,
             CallTimedWait(c, usec, ms)
      PROVE  (\E d \in Clients : ReleaseStore(d)) \/ Kept
  BY <1>12 DEF CallTimedWait, Call, Goto, data, flags, history, IInv, TypeOK, Kept
<1>13. ASSUME NEW c \in Clients, Signal(c)
      PROVE  (\E d \in Clients : ReleaseStore(d)) \/ Kept
<2>. /\ pc[c] = "signal"
     /\ pc' = [t \in Threads |->
               IF t = c THEN "idle"
               ELSE IF pc[t] = "asleep" /\ ~in_batch THEN "woken" ELSE pc[t]]
  BY <1>13, WorkBroadcast DEF Signal, IInv, TypeOK, DoneWoken
<2>. QED
  BY <1>13 DEF Signal, data, flags, history, IInv, TypeOK, Kept
<1>14. ASSUME NEW c \in Clients, Flush(c)
      PROVE  (\E d \in Clients : ReleaseStore(d)) \/ Kept
<2>. /\ pc[c] = "flush"
     /\ pc' = [t \in Threads |->
               IF t = c THEN "idle"
               ELSE IF pc[t] = "asleep" THEN "woken" ELSE pc[t]]
  BY <1>14, WorkBroadcast DEF Flush, IInv, TypeOK, DoneWoken
<2>. QED
  BY <1>14 DEF Flush, data, flags, history, IInv, TypeOK, Kept
<1>15. ASSUME NEW c \in Clients, WaitTest(c)
      PROVE  (\E d \in Clients : ReleaseStore(d)) \/ Kept
  BY <1>15 DEF WaitTest, Goto, data, flags, history, IInv, TypeOK, Kept
<1>16. ASSUME NEW c \in Clients, WaitPendingTest(c)
      PROVE  (\E d \in Clients : ReleaseStore(d)) \/ Kept
  BY <1>16 DEF WaitPendingTest, Goto, data, flags, history, IInv, TypeOK, Kept
<1>17. ASSUME NEW c \in Clients, TimedTest(c)
      PROVE  (\E d \in Clients : ReleaseStore(d)) \/ Kept
  BY <1>17 DEF TimedTest, Goto, data, flags, history, IInv, TypeOK, Kept
<1>18. ASSUME NEW c \in Clients, ReleaseStore(c)
      PROVE  (\E d \in Clients : ReleaseStore(d)) \/ Kept
  BY <1>18 DEF ReleaseStore, Goto, data, flags, history, IInv, TypeOK, Kept
<1>19. ASSUME NEW c \in Clients, Clear(c)
      PROVE  (\E d \in Clients : ReleaseStore(d)) \/ Kept
  BY <1>19 DEF Clear, Goto, data, flags, history, IInv, TypeOK, Kept
<1>20. ASSUME NEW c \in Clients, SetQuit(c)
      PROVE  (\E d \in Clients : ReleaseStore(d)) \/ Kept
  BY <1>20 DEF SetQuit, Goto, data, flags, history, IInv, TypeOK, Kept
<1>21. ASSUME NEW c \in Clients, WakeAll(c)
      PROVE  (\E d \in Clients : ReleaseStore(d)) \/ Kept
<2>. /\ pc[c] = "wakeall"
     /\ pc' = [t \in Threads |->
               IF t = c THEN "join"
               ELSE IF pc[t] = "asleep" THEN "woken" ELSE pc[t]]
  BY <1>21, WorkBroadcast DEF WakeAll, IInv, TypeOK, DoneWoken
<2>. QED
  BY <1>21 DEF WakeAll, data, flags, history, IInv, TypeOK, Kept
<1>22. ASSUME NEW c \in Clients, Join(c)
      PROVE  (\E d \in Clients : ReleaseStore(d)) \/ Kept
<2>. /\ pc[c] = "join"
     /\ pc' = [t \in Threads |->
               IF t = c THEN "farewell" ELSE DoneWoken[t]]
  BY <1>22, DoneBroadcast DEF Join, IInv, TypeOK, DoneWoken
<2>. QED
  BY <1>22 DEF Join, data, flags, history, IInv, TypeOK, Kept, DoneWoken
<1>23. ASSUME NEW c \in Clients, Farewell(c)
      PROVE  (\E d \in Clients : ReleaseStore(d)) \/ Kept
  BY <1>23 DEF Farewell, SendDoneEvent, Goto, data, flags, history, IInv, TypeOK, Kept
<1>24. ASSUME NEW c \in Clients, BeginBatch(c)
      PROVE  (\E d \in Clients : ReleaseStore(d)) \/ Kept
  BY <1>24 DEF BeginBatch, Call, data, flags, history, IInv, TypeOK, Kept
<1>25. ASSUME NEW c \in Clients, EndBatch(c)
      PROVE  (\E d \in Clients : ReleaseStore(d)) \/ Kept
  BY <1>25 DEF EndBatch, Call, Goto, data, flags, history, IInv, TypeOK, Kept
<1>26. ASSUME NEW c \in Clients, CallWait(c)
      PROVE  (\E d \in Clients : ReleaseStore(d)) \/ Kept
  BY <1>26 DEF CallWait, Call, Goto, data, flags, history, IInv, TypeOK, Kept
<1>27. ASSUME NEW c \in Clients, CallWaitAny(c)
      PROVE  (\E d \in Clients : ReleaseStore(d)) \/ Kept
  BY <1>27 DEF CallWaitAny, Call, Goto, data, flags, history, IInv, TypeOK, Kept
<1>28. ASSUME NEW c \in Clients, Drain(c)
      PROVE  (\E d \in Clients : ReleaseStore(d)) \/ Kept
  BY <1>28 DEF Drain, Call, data, flags, history, IInv, TypeOK, Kept
<1>29. ASSUME NEW c \in Clients, ReleaseLoad(c)
      PROVE  (\E d \in Clients : ReleaseStore(d)) \/ Kept
  BY <1>29 DEF ReleaseLoad, Call, Goto, data, flags, history, IInv, TypeOK, Kept
<1>30. ASSUME NEW c \in Clients, TimedOut(c)
      PROVE  (\E d \in Clients : ReleaseStore(d)) \/ Kept
  BY <1>30 DEF TimedOut, Goto, data, flags, history, IInv, TypeOK, Kept
<1>. QED
  BY <1>1, <1>2, <1>3, <1>4, <1>5, <1>6, <1>7, <1>8, <1>9, <1>10, <1>11, <1>12, <1>13, <1>14, <1>15, <1>16, <1>17, <1>18, <1>19, <1>20, <1>21, <1>22, <1>23, <1>24, <1>25, <1>26, <1>27, <1>28, <1>29, <1>30
     DEF Next, WorkerStep, ClientStep, ClientCall

LEMMA RefStep ==
  ASSUME IInv, Next
  PROVE  RefInv' /\ DestroyAlone'
<1>. USE DEF WorkerLabels, ClientLabels, Destroying
<1>1. ASSUME NEW c \in Clients, ReleaseStore(c)
      PROVE  RefInv' /\ DestroyAlone'
  <2>1. Live' = Live \ {c} /\ c \in Live
    BY <1>1 DEF ReleaseStore, Goto, Live, IInv, TypeOK
  <2>2. Cardinality(Live') = Cardinality(Live) - 1 /\ Cardinality(Live') \in Nat
    BY <2>1, LiveFinite, FS_RemoveElement, FS_CardinalityType
  <2>3. nref' = reg[c] - 1 /\ Cardinality(Live) <= reg[c] /\ reg[c] \in Int
    BY <1>1 DEF ReleaseStore, IInv, RefInv, TypeOK
  <2>4. Cardinality(Live') <= nref'
    BY <2>2, <2>3, LiveFinite
  <2>5. ASSUME NEW d \in Clients, pc'[d] = "release"
        PROVE  Cardinality(Live') <= reg'[d]
    <3>1. d # c /\ pc[d] = "release" /\ reg'[d] = reg[d] /\ reg[d] \in Int
      BY <1>1, <2>5 DEF ReleaseStore, Goto, IInv, TypeOK
    <3>2. Cardinality(Live) <= reg[d]
      BY <3>1 DEF IInv, RefInv
    <3>. QED
      BY <2>2, <3>1, <3>2, LiveFinite
  <2>6. \A d \in Clients : pc[d] \notin Destroying
    BY <2>1 DEF IInv, RefInv
  <2>7. \A d \in Clients : pc'[d] \in Destroying => d = c /\ reg[c] - 1 <= 0
    BY <1>1, <2>6 DEF ReleaseStore, Goto, IInv, TypeOK
  <2>8. ASSUME reg[c] - 1 <= 0
        PROVE  Live' = {}
    <3>1. Cardinality(Live') = 0
      BY <2>2, <2>3, <2>8, LiveFinite
    <3>2. IsFiniteSet(Live')
      BY <2>1, LiveFinite, FS_RemoveElement
    <3>. QED
      BY <3>1, <3>2, FS_EmptySet
  <2>9. \A d \in Clients : pc'[d] \in Destroying => Live' = {}
    BY <2>7, <2>8
  <2>10. RefInv'
    BY <2>4, <2>5, <2>9 DEF RefInv
  <2>11. ASSUME NEW d \in Clients, NEW e \in Clients, pc'[d] \in Destroying, d # e
         PROVE  pc'[e] = "gone"
    <3>1. Live' = {} /\ d = c
      BY <2>7, <2>9, <2>11
    <3>2. pc'[e] = pc[e] /\ pc[e] \notin Destroying
      BY <1>1, <2>6, <2>11, <3>1 DEF ReleaseStore, Goto, IInv, TypeOK
    <3>. QED
      BY <3>1, <3>2 DEF Live
  <2>. QED
    BY <2>10, <2>11 DEF DestroyAlone
<1>2. ASSUME ~ \E d \in Clients : ReleaseStore(d)
      PROVE  RefInv' /\ DestroyAlone'
  <2>1. Live' = Live
    BY <1>2, LiveStep
  <2>. QED
    BY <1>2, <2>1, KeptStep, LiveFinite
       DEF Kept, IInv, TypeOK, RefInv, DestroyAlone
<1>. QED
  BY <1>1, <1>2

LEMMA StopStep ==
  ASSUME IInv, Next
  PROVE  StopInv'
<1>. USE DEF WorkerLabels, ClientLabels, Destroying
<1>1. ASSUME NEW w \in Workers, Start(w)
      PROVE  StopInv'
  BY <1>1 DEF Start, Take, Goto, data, flags, history, IInv, TypeOK, StopInv, DestroyAlone
<1>2. ASSUME NEW w \in Workers, Top(w)
      PROVE  StopInv'
  BY <1>2 DEF Top, Drop, Goto, data, flags, history, IInv, TypeOK, StopInv, DestroyAlone
<1>3. ASSUME NEW w \in Workers, CondWait(w)
      PROVE  StopInv'
  BY <1>3 DEF CondWait, Drop, Goto, data, flags, history, IInv, TypeOK, StopInv, DestroyAlone
<1>4. ASSUME NEW w \in Workers, Reacquire(w)
      PROVE  StopInv'
  BY <1>4 DEF Reacquire, Goto, data, flags, history, IInv, TypeOK, StopInv, DestroyAlone
<1>5. ASSUME NEW w \in Workers, TakeJob(w)
      PROVE  StopInv'
  BY <1>5 DEF TakeJob, Drop, Goto, data, flags, history, IInv, TypeOK, StopInv, DestroyAlone
<1>6. ASSUME NEW w \in Workers, GoRound(w)
      PROVE  StopInv'
  BY <1>6 DEF GoRound, Goto, data, flags, history, IInv, TypeOK, StopInv, DestroyAlone
<1>7. ASSUME NEW w \in Workers, RunJob(w)
      PROVE  StopInv'
  BY <1>7 DEF RunJob, Goto, data, flags, history, IInv, TypeOK, StopInv, DestroyAlone
<1>8. ASSUME NEW w \in Workers, Relock(w)
      PROVE  StopInv'
<2>. /\ pc[w] = "relock"
     /\ pc' = [t \in Threads |->
               IF t = w THEN "report" ELSE DoneWoken[t]]
  BY <1>8, DoneBroadcast DEF Relock, IInv, TypeOK, DoneWoken
<2>. QED
  BY <1>8 DEF Relock, Take, data, flags, history, IInv, TypeOK, StopInv, DestroyAlone, DoneWoken
<1>9. ASSUME NEW w \in Workers, Report(w)
      PROVE  StopInv'
  BY <1>9 DEF Report, SendDoneEvent, Goto, data, flags, history, IInv, TypeOK, StopInv, DestroyAlone
<1>10. ASSUME NEW w \in Workers, SpuriousWake(w)
      PROVE  StopInv'
  BY <1>10 DEF SpuriousWake, Goto, data, flags, history, IInv, TypeOK, StopInv, DestroyAlone
<1>11. ASSUME NEW c \in Clients, NEW j \in Jobs, Enqueue(c, j)
      PROVE  StopInv'
  BY <1>11 DEF Enqueue, PutJob, Call, Goto, data, flags, history, IInv, TypeOK, StopInv, DestroyAlone
<1>12. ASSUME NEW c \in Clients, NEW usec \in Usecs, NEW ms \in Millis,
             CallTimedWait(c, usec, ms)
      PROVE  StopInv'
  BY <1>12 DEF CallTimedWait, Call, Goto, data, flags, history, IInv, TypeOK, StopInv, DestroyAlone
<1>13. ASSUME NEW c \in Clients, Signal(c)
      PROVE  StopInv'
<2>. /\ pc[c] = "signal"
     /\ pc' = [t \in Threads |->
               IF t = c THEN "idle"
               ELSE IF pc[t] = "asleep" /\ ~in_batch THEN "woken" ELSE pc[t]]
  BY <1>13, WorkBroadcast DEF Signal, IInv, TypeOK, DoneWoken
<2>. QED
  BY <1>13 DEF Signal, data, flags, history, IInv, TypeOK, StopInv, DestroyAlone
<1>14. ASSUME NEW c \in Clients, Flush(c)
      PROVE  StopInv'
<2>. /\ pc[c] = "flush"
     /\ pc' = [t \in Threads |->
               IF t = c THEN "idle"
               ELSE IF pc[t] = "asleep" THEN "woken" ELSE pc[t]]
  BY <1>14, WorkBroadcast DEF Flush, IInv, TypeOK, DoneWoken
<2>. QED
  BY <1>14 DEF Flush, data, flags, history, IInv, TypeOK, StopInv, DestroyAlone
<1>15. ASSUME NEW c \in Clients, WaitTest(c)
      PROVE  StopInv'
  BY <1>15 DEF WaitTest, Goto, data, flags, history, IInv, TypeOK, StopInv, DestroyAlone
<1>16. ASSUME NEW c \in Clients, WaitPendingTest(c)
      PROVE  StopInv'
  BY <1>16 DEF WaitPendingTest, Goto, data, flags, history, IInv, TypeOK, StopInv, DestroyAlone
<1>17. ASSUME NEW c \in Clients, TimedTest(c)
      PROVE  StopInv'
  BY <1>17 DEF TimedTest, Goto, data, flags, history, IInv, TypeOK, StopInv, DestroyAlone
<1>18. ASSUME NEW c \in Clients, ReleaseStore(c)
      PROVE  StopInv'
  BY <1>18 DEF ReleaseStore, Goto, data, flags, history, IInv, TypeOK, StopInv, DestroyAlone
<1>19. ASSUME NEW c \in Clients, Clear(c)
      PROVE  StopInv'
  BY <1>19 DEF Clear, Goto, data, flags, history, IInv, TypeOK, StopInv, DestroyAlone
<1>20. ASSUME NEW c \in Clients, SetQuit(c)
      PROVE  StopInv'
  BY <1>20 DEF SetQuit, Goto, data, flags, history, IInv, TypeOK, StopInv, DestroyAlone
<1>21. ASSUME NEW c \in Clients, WakeAll(c)
      PROVE  StopInv'
<2>. /\ pc[c] = "wakeall"
     /\ pc' = [t \in Threads |->
               IF t = c THEN "join"
               ELSE IF pc[t] = "asleep" THEN "woken" ELSE pc[t]]
  BY <1>21, WorkBroadcast DEF WakeAll, IInv, TypeOK, DoneWoken
<2>. QED
  BY <1>21 DEF WakeAll, data, flags, history, IInv, TypeOK, StopInv, DestroyAlone
<1>22. ASSUME NEW c \in Clients, Join(c)
      PROVE  StopInv'
<2>. /\ pc[c] = "join"
     /\ pc' = [t \in Threads |->
               IF t = c THEN "farewell" ELSE DoneWoken[t]]
  BY <1>22, DoneBroadcast DEF Join, IInv, TypeOK, DoneWoken
<2>. QED
  BY <1>22 DEF Join, data, flags, history, IInv, TypeOK, StopInv, DestroyAlone, DoneWoken
<1>23. ASSUME NEW c \in Clients, Farewell(c)
      PROVE  StopInv'
  BY <1>23 DEF Farewell, SendDoneEvent, Goto, data, flags, history, IInv, TypeOK, StopInv, DestroyAlone
<1>24. ASSUME NEW c \in Clients, BeginBatch(c)
      PROVE  StopInv'
  BY <1>24 DEF BeginBatch, Call, data, flags, history, IInv, TypeOK, StopInv, DestroyAlone
<1>25. ASSUME NEW c \in Clients, EndBatch(c)
      PROVE  StopInv'
  BY <1>25 DEF EndBatch, Call, Goto, data, flags, history, IInv, TypeOK, StopInv, DestroyAlone
<1>26. ASSUME NEW c \in Clients, CallWait(c)
      PROVE  StopInv'
  BY <1>26 DEF CallWait, Call, Goto, data, flags, history, IInv, TypeOK, StopInv, DestroyAlone
<1>27. ASSUME NEW c \in Clients, CallWaitAny(c)
      PROVE  StopInv'
  BY <1>27 DEF CallWaitAny, Call, Goto, data, flags, history, IInv, TypeOK, StopInv, DestroyAlone
<1>28. ASSUME NEW c \in Clients, Drain(c)
      PROVE  StopInv'
  BY <1>28 DEF Drain, Call, data, flags, history, IInv, TypeOK, StopInv, DestroyAlone
<1>29. ASSUME NEW c \in Clients, ReleaseLoad(c)
      PROVE  StopInv'
  BY <1>29 DEF ReleaseLoad, Call, Goto, data, flags, history, IInv, TypeOK, StopInv, DestroyAlone
<1>30. ASSUME NEW c \in Clients, TimedOut(c)
      PROVE  StopInv'
  BY <1>30 DEF TimedOut, Goto, data, flags, history, IInv, TypeOK, StopInv, DestroyAlone
<1>. QED
  BY <1>1, <1>2, <1>3, <1>4, <1>5, <1>6, <1>7, <1>8, <1>9, <1>10, <1>11, <1>12, <1>13, <1>14, <1>15, <1>16, <1>17, <1>18, <1>19, <1>20, <1>21, <1>22, <1>23, <1>24, <1>25, <1>26, <1>27, <1>28, <1>29, <1>30
     DEF Next, WorkerStep, ClientStep, ClientCall

(***************************************************************************)
(* The invariant holds in every behaviour.                                 *)
(***************************************************************************)
LEMMA InitIInv ==
  ASSUME Init
  PROVE  IInv
<1>. USE DEF Init
<1>1. TypeOK
  <2>1. nref \in Int
    BY FS_CardinalityType
  <2>2. /\ pc \in [Threads -> WorkerLabels \cup ClientLabels]
        /\ \A w \in Workers : pc[w] \in WorkerLabels
        /\ \A c \in Clients : pc[c] \in ClientLabels
    BY DEF WorkerLabels, ClientLabels
  <2>3. reg \in [Clients -> Int] /\ mark \in [Clients -> SUBSET Jobs]
    OBVIOUS
  <2>4. queue \in Seq(Jobs) /\ pipe \in 0..PipeCap /\ spurious \in 0..MaxSpurious
    OBVIOUS
  <2>. QED
    BY <2>1, <2>2, <2>3, <2>4 DEF TypeOK
<1>2. Active = {} /\ Queued = {} /\ Held = {}
  BY DEF Active, Queued, Held
<1>3. Accounting
  BY <1>2, FS_EmptySet DEF Accounting
<1>4. Live = Clients /\ \A c \in Clients : pc[c] \notin Destroying \cup {"release"}
  BY DEF Live, Destroying
<1>5. Cardinality(Live) <= nref
  BY <1>4, FS_CardinalityType
<1>6. MutexInv /\ JobInv /\ Exclusive
  BY <1>2 DEF MutexInv, Holding, JobInv, Active, Exclusive, Settled
<1>7. EmptyInv /\ NoLostWakeup /\ ReportInv /\ WaiterNotStranded
  BY DEF EmptyInv, NoLostWakeup, ReportInv, WaiterNotStranded
<1>8. RefInv /\ DestroyAlone /\ StopInv
  BY <1>4, <1>5 DEF RefInv, DestroyAlone, StopInv, Destroying
<1>. QED
  BY <1>1, <1>3, <1>6, <1>7, <1>8 DEF IInv

LEMMA NextIInv ==
  ASSUME IInv, [Next]_vars
  PROVE  IInv'
<1>1. CASE Next
  BY <1>1, TypeStep, MutexStep, JobStep, AccountingStep, ExclusiveStep,
     EmptyStep, WakeupStep, ReportStep, WaiterStep, RefStep, StopStep DEF IInv
<1>2. CASE UNCHANGED vars
  <2>. USE <1>2 DEF vars, data, flags, history, IInv
  <2>1. TypeOK' /\ MutexInv'
    BY DEF TypeOK, MutexInv
  <2>2. Active' = Active /\ Live' = Live /\ Queued' = Queued /\ Held' = Held
    BY DEF Active, Live, Queued, Held
  <2>3. JobInv' /\ Accounting'
    BY <2>2 DEF JobInv, Accounting
  <2>4. Exclusive'
    BY <2>2 DEF Exclusive, Settled
  <2>5. EmptyInv' /\ NoLostWakeup' /\ ReportInv' /\ WaiterNotStranded'
    BY DEF EmptyInv, NoLostWakeup, ReportInv, WaiterNotStranded
  <2>6. RefInv' /\ DestroyAlone' /\ StopInv'
    BY <2>2 DEF RefInv, DestroyAlone, StopInv
  <2>. QED
    BY <2>1, <2>3, <2>4, <2>5, <2>6
<1>. QED
  BY <1>1, <1>2

\* The inductive invariant: whatever the workers and the clients do, the
\* counters, the queue, the mutex and the wake-ups fit together.
THEOREM PoolInvariant == Spec => []IInv
  BY InitIInv, NextIInv, PTL DEF Spec

\* Every variable of the pool keeps its type (tpool.c:52-76).
THEOREM PoolTypes == Spec => []TypeOK
<1>1. IInv => TypeOK
  BY DEF IInv
<1>. QED
  BY <1>1, PoolInvariant, PTL

\* qsize and nactive tell the truth (tpool.c:209, 227, 382-383, 397).
THEOREM PoolAccounting == Spec => []Accounting
<1>1. IInv => Accounting
  BY DEF IInv
<1>. QED
  BY <1>1, PoolInvariant, PTL

\* No job is lost, run twice, or both run and freed (tpool.c:376-391, 221-225).
THEOREM EachJobAtOnePlace == Spec => []Exclusive
<1>1. IInv => Exclusive
  BY DEF IInv
<1>. QED
  BY <1>1, PoolInvariant, PTL

\* No worker sleeps while there is work that somebody should have woken it for
\* (tpool.c:183-187, 202-214, 371-372).
THEOREM WorkersAreWoken == Spec => []NoLostWakeup
<1>1. IInv => NoLostWakeup
  BY DEF IInv
<1>. QED
  BY <1>1, PoolInvariant, PTL

\* Nobody sleeps in resman_tpool_wait or timedwait with nothing left to wait
\* for (tpool.c:258-265, 393-397).
THEOREM WaitersAreWoken == Spec => []WaiterNotStranded
<1>1. IInv => WaiterNotStranded
  BY DEF IInv
<1>. QED
  BY <1>1, PoolInvariant, PTL

\* Only one thread destroys the pool, when all others are gone, although --nref
\* is not atomic (tpool.c:169-176).
THEOREM DestroyedByTheLast == Spec => []DestroyAlone
<1>1. IInv => DestroyAlone
  BY DEF IInv
<1>. QED
  BY <1>1, PoolInvariant, PTL

\* When destroy has joined the workers, nothing is queued and nothing half
\* done (tpool.c:125-137).
THEOREM StopsClean == Spec => []StoppedClean
<1>1. IInv => StoppedClean
  BY DEF IInv, StopInv, StoppedClean, Destroying, Held, JobInv, Active
<1>. QED
  BY <1>1, PoolInvariant, PTL

(***************************************************************************)
(* resman_tpool_wait returns only to an idle pool: the step that returns   *)
(* is WaitTest, which sees both counters at zero, and they tell the truth. *)
(***************************************************************************)
LEMMA ReturnIsTest ==
  ASSUME IInv, Next, NEW d \in Clients, pc[d] = "wait", pc'[d] = "idle"
  PROVE  nactive = 0 /\ qsize = 0
<1>. USE DEF WorkerLabels, ClientLabels, Destroying
<1>1. ASSUME NEW w \in Workers, Start(w)
      PROVE  pc[d] = "wait" /\ pc'[d] = "idle" => nactive = 0 /\ qsize = 0
  BY <1>1 DEF Start, Take, Goto, data, flags, history, IInv, TypeOK
<1>2. ASSUME NEW w \in Workers, Top(w)
      PROVE  pc[d] = "wait" /\ pc'[d] = "idle" => nactive = 0 /\ qsize = 0
  BY <1>2 DEF Top, Drop, Goto, data, flags, history, IInv, TypeOK
<1>3. ASSUME NEW w \in Workers, CondWait(w)
      PROVE  pc[d] = "wait" /\ pc'[d] = "idle" => nactive = 0 /\ qsize = 0
  BY <1>3 DEF CondWait, Drop, Goto, data, flags, history, IInv, TypeOK
<1>4. ASSUME NEW w \in Workers, Reacquire(w)
      PROVE  pc[d] = "wait" /\ pc'[d] = "idle" => nactive = 0 /\ qsize = 0
  BY <1>4 DEF Reacquire, Goto, data, flags, history, IInv, TypeOK
<1>5. ASSUME NEW w \in Workers, TakeJob(w)
      PROVE  pc[d] = "wait" /\ pc'[d] = "idle" => nactive = 0 /\ qsize = 0
  BY <1>5 DEF TakeJob, Drop, Goto, data, flags, history, IInv, TypeOK
<1>6. ASSUME NEW w \in Workers, GoRound(w)
      PROVE  pc[d] = "wait" /\ pc'[d] = "idle" => nactive = 0 /\ qsize = 0
  BY <1>6 DEF GoRound, Goto, data, flags, history, IInv, TypeOK
<1>7. ASSUME NEW w \in Workers, RunJob(w)
      PROVE  pc[d] = "wait" /\ pc'[d] = "idle" => nactive = 0 /\ qsize = 0
  BY <1>7 DEF RunJob, Goto, data, flags, history, IInv, TypeOK
<1>8. ASSUME NEW w \in Workers, Relock(w)
      PROVE  pc[d] = "wait" /\ pc'[d] = "idle" => nactive = 0 /\ qsize = 0
<2>. /\ pc[w] = "relock"
     /\ pc' = [t \in Threads |->
               IF t = w THEN "report" ELSE DoneWoken[t]]
  BY <1>8, DoneBroadcast DEF Relock, IInv, TypeOK, DoneWoken
<2>. QED
  BY <1>8 DEF Relock, Take, data, flags, history, IInv, TypeOK, DoneWoken
<1>9. ASSUME NEW w \in Workers, Report(w)
      PROVE  pc[d] = "wait" /\ pc'[d] = "idle" => nactive = 0 /\ qsize = 0
  BY <1>9 DEF Report, SendDoneEvent, Goto, data, flags, history, IInv, TypeOK
<1>10. ASSUME NEW w \in Workers, SpuriousWake(w)
      PROVE  pc[d] = "wait" /\ pc'[d] = "idle" => nactive = 0 /\ qsize = 0
  BY <1>10 DEF SpuriousWake, Goto, data, flags, history, IInv, TypeOK
<1>11. ASSUME NEW c \in Clients, NEW j \in Jobs, Enqueue(c, j)
      PROVE  pc[d] = "wait" /\ pc'[d] = "idle" => nactive = 0 /\ qsize = 0
  BY <1>11 DEF Enqueue, PutJob, Call, Goto, data, flags, history, IInv, TypeOK
<1>12. ASSUME NEW c \in Clients, NEW usec \in Usecs, NEW ms \in Millis,
             CallTimedWait(c, usec, ms)
      PROVE  pc[d] = "wait" /\ pc'[d] = "idle" => nactive = 0 /\ qsize = 0
  BY <1>12 DEF CallTimedWait, Call, Goto, data, flags, history, IInv, TypeOK
<1>13. ASSUME NEW c \in Clients, Signal(c)
      PROVE  pc[d] = "wait" /\ pc'[d] = "idle" => nactive = 0 /\ qsize = 0
<2>. /\ pc[c] = "signal"
     /\ pc' = [t \in Threads |->
               IF t = c THEN "idle"
               ELSE IF pc[t] = "asleep" /\ ~in_batch THEN "woken" ELSE pc[t]]
  BY <1>13, WorkBroadcast DEF Signal, IInv, TypeOK, DoneWoken
<2>. QED
  BY <1>13 DEF Signal, data, flags, history, IInv, TypeOK
<1>14. ASSUME NEW c \in Clients, Flush(c)
      PROVE  pc[d] = "wait" /\ pc'[d] = "idle" => nactive = 0 /\ qsize = 0
<2>. /\ pc[c] = "flush"
     /\ pc' = [t \in Threads |->
               IF t = c THEN "idle"
               ELSE IF pc[t] = "asleep" THEN "woken" ELSE pc[t]]
  BY <1>14, WorkBroadcast DEF Flush, IInv, TypeOK, DoneWoken
<2>. QED
  BY <1>14 DEF Flush, data, flags, history, IInv, TypeOK
<1>15. ASSUME NEW c \in Clients, WaitTest(c)
      PROVE  pc[d] = "wait" /\ pc'[d] = "idle" => nactive = 0 /\ qsize = 0
  BY <1>15 DEF WaitTest, Goto, data, flags, history, IInv, TypeOK
<1>16. ASSUME NEW c \in Clients, WaitPendingTest(c)
      PROVE  pc[d] = "wait" /\ pc'[d] = "idle" => nactive = 0 /\ qsize = 0
  BY <1>16 DEF WaitPendingTest, Goto, data, flags, history, IInv, TypeOK
<1>17. ASSUME NEW c \in Clients, TimedTest(c)
      PROVE  pc[d] = "wait" /\ pc'[d] = "idle" => nactive = 0 /\ qsize = 0
  BY <1>17 DEF TimedTest, Goto, data, flags, history, IInv, TypeOK
<1>18. ASSUME NEW c \in Clients, ReleaseStore(c)
      PROVE  pc[d] = "wait" /\ pc'[d] = "idle" => nactive = 0 /\ qsize = 0
  BY <1>18 DEF ReleaseStore, Goto, data, flags, history, IInv, TypeOK
<1>19. ASSUME NEW c \in Clients, Clear(c)
      PROVE  pc[d] = "wait" /\ pc'[d] = "idle" => nactive = 0 /\ qsize = 0
  BY <1>19 DEF Clear, Goto, data, flags, history, IInv, TypeOK
<1>20. ASSUME NEW c \in Clients, SetQuit(c)
      PROVE  pc[d] = "wait" /\ pc'[d] = "idle" => nactive = 0 /\ qsize = 0
  BY <1>20 DEF SetQuit, Goto, data, flags, history, IInv, TypeOK
<1>21. ASSUME NEW c \in Clients, WakeAll(c)
      PROVE  pc[d] = "wait" /\ pc'[d] = "idle" => nactive = 0 /\ qsize = 0
<2>. /\ pc[c] = "wakeall"
     /\ pc' = [t \in Threads |->
               IF t = c THEN "join"
               ELSE IF pc[t] = "asleep" THEN "woken" ELSE pc[t]]
  BY <1>21, WorkBroadcast DEF WakeAll, IInv, TypeOK, DoneWoken
<2>. QED
  BY <1>21 DEF WakeAll, data, flags, history, IInv, TypeOK
<1>22. ASSUME NEW c \in Clients, Join(c)
      PROVE  pc[d] = "wait" /\ pc'[d] = "idle" => nactive = 0 /\ qsize = 0
<2>. /\ pc[c] = "join"
     /\ pc' = [t \in Threads |->
               IF t = c THEN "farewell" ELSE DoneWoken[t]]
  BY <1>22, DoneBroadcast DEF Join, IInv, TypeOK, DoneWoken
<2>. QED
  BY <1>22 DEF Join, data, flags, history, IInv, TypeOK, DoneWoken
<1>23. ASSUME NEW c \in Clients, Farewell(c)
      PROVE  pc[d] = "wait" /\ pc'[d] = "idle" => nactive = 0 /\ qsize = 0
  BY <1>23 DEF Farewell, SendDoneEvent, Goto, data, flags, history, IInv, TypeOK
<1>24. ASSUME NEW c \in Clients, BeginBatch(c)
      PROVE  pc[d] = "wait" /\ pc'[d] = "idle" => nactive = 0 /\ qsize = 0
  BY <1>24 DEF BeginBatch, Call, data, flags, history, IInv, TypeOK
<1>25. ASSUME NEW c \in Clients, EndBatch(c)
      PROVE  pc[d] = "wait" /\ pc'[d] = "idle" => nactive = 0 /\ qsize = 0
  BY <1>25 DEF EndBatch, Call, Goto, data, flags, history, IInv, TypeOK
<1>26. ASSUME NEW c \in Clients, CallWait(c)
      PROVE  pc[d] = "wait" /\ pc'[d] = "idle" => nactive = 0 /\ qsize = 0
  BY <1>26 DEF CallWait, Call, Goto, data, flags, history, IInv, TypeOK
<1>27. ASSUME NEW c \in Clients, CallWaitAny(c)
      PROVE  pc[d] = "wait" /\ pc'[d] = "idle" => nactive = 0 /\ qsize = 0
  BY <1>27 DEF CallWaitAny, Call, Goto, data, flags, history, IInv, TypeOK
<1>28. ASSUME NEW c \in Clients, Drain(c)
      PROVE  pc[d] = "wait" /\ pc'[d] = "idle" => nactive = 0 /\ qsize = 0
  BY <1>28 DEF Drain, Call, data, flags, history, IInv, TypeOK
<1>29. ASSUME NEW c \in Clients, ReleaseLoad(c)
      PROVE  pc[d] = "wait" /\ pc'[d] = "idle" => nactive = 0 /\ qsize = 0
  BY <1>29 DEF ReleaseLoad, Call, Goto, data, flags, history, IInv, TypeOK
<1>30. ASSUME NEW c \in Clients, TimedOut(c)
      PROVE  pc[d] = "wait" /\ pc'[d] = "idle" => nactive = 0 /\ qsize = 0
  BY <1>30 DEF TimedOut, Goto, data, flags, history, IInv, TypeOK
<1>. QED
  BY <1>1, <1>2, <1>3, <1>4, <1>5, <1>6, <1>7, <1>8, <1>9, <1>10, <1>11, <1>12, <1>13, <1>14, <1>15, <1>16, <1>17, <1>18, <1>19, <1>20, <1>21, <1>22, <1>23, <1>24, <1>25, <1>26, <1>27, <1>28, <1>29, <1>30
     DEF Next, WorkerStep, ClientStep, ClientCall

\* tpool.c:258-265.
THEOREM WaitIsSound == Spec => WaitSound
<1>1. ASSUME IInv, [Next]_vars
      PROVE  [\A c \in Clients : pc[c] = "wait" /\ pc'[c] = "idle" =>
                queue = <<>> /\ Active = {}]_vars
  <2>1. CASE UNCHANGED vars
    BY <2>1
  <2>2. ASSUME Next, NEW c \in Clients, pc[c] = "wait", pc'[c] = "idle"
        PROVE  queue = <<>> /\ Active = {}
    <3>1. Len(queue) = 0 /\ Cardinality(Active) = 0 /\ queue \in Seq(Jobs)
      BY <1>1, <2>2, ReturnIsTest DEF IInv, Accounting, TypeOK
    <3>. QED
      BY <3>1, ActiveFinite, FS_EmptySet, EmptySeq
  <2>. QED
    BY <1>1, <2>1, <2>2
<1>. QED
  BY <1>1, PoolInvariant, PTL DEF Spec, WaitSound

(***************************************************************************)
(* resman_wait_any.  What it waits for was counted before it waits: as     *)
(* long as no job is settled, more are pending than its target.            *)
(***************************************************************************)
Pending == {"pend", "pend_zz"}

AnyInv ==
  \A d \in Clients : pc[d] \in Pending =>
    /\ mark[d] \subseteq Settled
    /\ Settled # mark[d] \/ qsize + nactive > reg[d]

\* The number of pending jobs drops only when a job is settled.
LEMMA PendingDrops ==
  ASSUME IInv, Next
  PROVE  /\ Settled \subseteq Settled'
         /\ Settled' # Settled \/ qsize' + nactive' >= qsize + nactive
<1>0. /\ qsize \in Nat /\ nactive \in Nat /\ queue \in Seq(Jobs)
      /\ qsize = Len(queue) /\ nactive = Cardinality(Active)
  BY DEF IInv, TypeOK, Accounting
<1>1. CASE UNCHANGED <<queue, job, finished, dropped>>
  <2>1. Active' = Active
    <3>1. JobInv /\ JobInv'
      BY JobStep DEF IInv
    <3> QED  BY <1>1, <3>1 DEF JobInv, Active
  <2>2. qsize' = Len(queue') /\ nactive' = Cardinality(Active')
    BY AccountingStep DEF Accounting
  <2> QED  BY <1>0, <1>1, <2>1, <2>2 DEF Settled
<1>2. ASSUME NEW w \in Workers, TakeJob(w)
      PROVE  Settled' = Settled /\ qsize' + nactive' = qsize + nactive
  BY <1>0, <1>2 DEF TakeJob, history, Settled
<1>3. ASSUME NEW w \in Workers, Report(w)
      PROVE  Settled \subseteq Settled' /\ Settled' # Settled
  <2>1. job[w] \in Held /\ Held \cap Settled = {}
    BY <1>3, ReportMoves DEF IInv, Exclusive
  <2>2. Settled' = Settled \cup {job[w]}
    BY <1>3 DEF Report, Settled
  <2> QED  BY <2>1, <2>2
<1>4. ASSUME NEW c \in Clients, NEW j \in Jobs, Enqueue(c, j)
      PROVE  Settled' = Settled /\ qsize' + nactive' = qsize + nactive + 1
  BY <1>0, <1>4 DEF Enqueue, PutJob, history, Settled
<1>5. ASSUME NEW c \in Clients, Clear(c)
      PROVE  /\ Settled \subseteq Settled'
             /\ Settled' # Settled \/ qsize' + nactive' = qsize + nactive
  <2>1. /\ Settled' = Settled \cup Queued /\ Queued \cap Settled = {}
        /\ qsize' = 0 /\ nactive' = nactive
    BY <1>5 DEF Clear, Settled, IInv, Exclusive
  <2>2. CASE qsize = 0
    BY <1>0, <2>1, <2>2
  <2>3. CASE qsize # 0
    <3>1. queue[1] \in Queued
      BY <1>0, <2>3 DEF Queued
    <3> QED  BY <2>1, <3>1
  <2> QED  BY <2>2, <2>3
<1> QED  BY <1>0, <1>1, <1>2, <1>3, <1>4, <1>5, Frame

\* d stays inside its call, or outside, with its target.
Stays(d) ==
  /\ pc'[d] \in Pending => pc[d] \in Pending /\ reg'[d] = reg[d] /\ mark'[d] = mark[d]
  /\ pc[d] = "pend" => pc'[d] # "idle"

LEMMA WorkersLet ==
  ASSUME IInv, NEW w \in Workers, WorkerStep(w) \/ SpuriousWake(w), NEW d \in Clients
  PROVE  Stays(d)
<1>0. w # d /\ d \in Threads /\ pc \in [Threads -> WorkerLabels \cup ClientLabels]
  BY PoolAssumption DEF IInv, TypeOK, Threads
<1>1. UNCHANGED <<reg, mark>>
  BY DEF WorkerStep, SpuriousWake, Start, Top, CondWait, Reacquire, TakeJob, GoRound, RunJob,
     Relock, Report, data, history
<1>2. CASE Relock(w)
  <2>1. pc'[d] = DoneWoken[d]
    BY <1>0, <1>2, DoneBroadcast DEF Relock, DoneWoken
  <2> QED  BY <1>0, <1>1, <2>1 DEF DoneWoken, Stays, Pending
<1>3. CASE ~Relock(w)
  <2>1. pc'[d] = pc[d]
    BY <1>0, <1>3 DEF WorkerStep, SpuriousWake, Start, Top, CondWait, Reacquire, TakeJob,
       GoRound, RunJob, Report, Goto
  <2> QED  BY <1>1, <2>1 DEF Stays
<1> QED  BY <1>2, <1>3

LEMMA ClientsLet ==
  ASSUME IInv, NEW c \in Clients, ClientStep(c) \/ ClientCall(c) \/ TimedOut(c), NEW d \in Clients
  PROVE  CallWaitAny(d) \/ WaitPendingTest(d) \/ Stays(d)
<1>0. d \in Threads /\ c \in Threads /\ pc \in [Threads -> WorkerLabels \cup ClientLabels]
      /\ reg \in [Clients -> Int] /\ mark \in [Clients -> SUBSET Jobs]
      /\ pc[d] \in ClientLabels
  BY DEF IInv, TypeOK, Threads
<1>1. CASE Join(c)
  <2>1. UNCHANGED <<reg, mark>> /\ pc[c] = "join"
    BY <1>1 DEF Join, history
  <2>2. pc' = [DoneWoken EXCEPT ![c] = "farewell"]
    BY <1>1, DoneBroadcast DEF Join
  <2>3. pc'[d] = IF d = c THEN "farewell" ELSE DoneWoken[d]
    BY <1>0, <2>2 DEF DoneWoken
  <2> QED  BY <1>0, <2>1, <2>3 DEF DoneWoken, Stays, Pending
<1>2. CASE Signal(c) \/ Flush(c) \/ WakeAll(c)
  <2>1. UNCHANGED <<reg, mark>> /\ pc[c] \in {"signal", "flush", "wakeall"}
    BY <1>2 DEF Signal, Flush, WakeAll, data, history
  <2>2. pc'[d] = IF d = c THEN pc'[c] ELSE IF pc[d] = "asleep" THEN pc'[d] ELSE pc[d]
    BY <1>0, <1>2, WorkBroadcast DEF Signal, Flush, WakeAll
  <2>3. pc[d] # "asleep" /\ pc'[c] \in {"idle", "join"}
    BY <1>0, <1>2, WorkBroadcast DEF Signal, Flush, WakeAll, ClientLabels, Destroying
  <2> QED  BY <2>1, <2>2, <2>3 DEF Stays, Pending
<1>3. CASE ~(Join(c) \/ Signal(c) \/ Flush(c) \/ WakeAll(c)) /\ c # d
  <2>1. pc'[d] = pc[d] /\ reg'[d] = reg[d] /\ mark'[d] = mark[d]
    BY <1>0, <1>3 DEF ClientStep, ClientCall, TimedOut, WaitTest, WaitPendingTest, TimedTest,
       ReleaseStore, Clear, SetQuit, Farewell, Enqueue, PutJob, BeginBatch, EndBatch, CallWait,
       CallWaitAny, CallTimedWait, Drain, ReleaseLoad, Goto, data, history
  <2> QED  BY <2>1 DEF Stays
<1>4. CASE c = d /\ ClientStep(c)
  BY <1>0, <1>1, <1>2, <1>4 DEF ClientStep, WaitTest, TimedTest, ReleaseStore, Clear, SetQuit,
     Farewell, Goto, Stays, Pending
<1>5. CASE c = d /\ (ClientCall(c) \/ TimedOut(c))
  BY <1>0, <1>5 DEF ClientCall, TimedOut, Call, Enqueue, PutJob, BeginBatch, EndBatch, CallWait,
     CallTimedWait, Drain, ReleaseLoad, Goto, Stays, Pending
<1> QED  BY <1>1, <1>2, <1>3, <1>4, <1>5

LEMMA PendMoves ==
  ASSUME IInv, Next, NEW d \in Clients
  PROVE  CallWaitAny(d) \/ WaitPendingTest(d) \/ Stays(d)
BY WorkersLet, ClientsLet DEF Next

LEMMA MoreStill == \A x, y, z \in Int : y > x /\ z >= y => z > x
OBVIOUS

LEMMA AnyStep == ASSUME IInv, AnyInv, [Next]_vars PROVE AnyInv'
<1>1. CASE UNCHANGED vars
  BY <1>1 DEF vars, data, flags, history, AnyInv, Settled
<1>2. CASE Next
  <2> SUFFICES ASSUME NEW d \in Clients, pc'[d] \in Pending
               PROVE  /\ mark'[d] \subseteq Settled'
                      /\ Settled' # mark'[d] \/ qsize' + nactive' > reg'[d]
    BY DEF AnyInv
  <2>0. /\ qsize \in Nat /\ nactive \in Nat /\ reg \in [Clients -> Int]
        /\ mark \in [Clients -> SUBSET Jobs]
        /\ qsize' \in Nat /\ nactive' \in Nat /\ reg' \in [Clients -> Int]
    BY <1>2, TypeStep DEF IInv, TypeOK
  <2>1. CASE CallWaitAny(d)
    <3>1. mark'[d] = Settled /\ reg'[d] = qsize + nactive - 1
      BY <2>0, <2>1 DEF CallWaitAny
    <3>2. UNCHANGED <<qsize, nactive>> /\ Settled' = Settled
      BY <2>1 DEF CallWaitAny, Settled
    <3> QED  BY <2>0, <3>1, <3>2
  <2>2. CASE WaitPendingTest(d)
    <3>1. pc[d] = "pend" /\ UNCHANGED <<qsize, nactive, reg, mark>> /\ Settled' = Settled
      BY <2>2 DEF WaitPendingTest, data, history, Settled
    <3> QED  BY <3>1 DEF AnyInv, Pending
  <2>3. CASE Stays(d)
    <3>1. /\ reg'[d] = reg[d] /\ mark'[d] = mark[d] /\ mark[d] \subseteq Settled
          /\ Settled # mark[d] \/ qsize + nactive > reg[d]
      BY <2>3 DEF Stays, AnyInv
    <3>2. /\ Settled \subseteq Settled'
          /\ Settled' # Settled \/ qsize' + nactive' >= qsize + nactive
      BY <1>2, PendingDrops
    <3>3. CASE Settled' = mark[d]
      <4>1. Settled = mark[d] /\ Settled' = Settled
        BY <3>1, <3>2, <3>3
      <4>2. PICK target \in Int : target = reg[d]
        BY <2>0
      <4>3. qsize + nactive > target /\ qsize' + nactive' >= qsize + nactive
        BY <3>1, <3>2, <4>1, <4>2
      <4>4. qsize + nactive \in Int /\ qsize' + nactive' \in Int
        BY <2>0
      <4>5. qsize' + nactive' > target
        BY <4>3, <4>4, MoreStill
      <4> QED  BY <3>1, <4>1, <4>2, <4>5
    <3>4. CASE Settled' # mark[d]
      BY <3>1, <3>2, <3>4
    <3> QED  BY <3>3, <3>4
  <2> QED  BY <1>2, <2>1, <2>2, <2>3, PendMoves
<1> QED  BY <1>1, <1>2

\* resman_wait_any does not return before a job is settled, though it counts
\* the pending jobs in one critical section and waits in another: the count
\* drops only by settling one (resman.c:251-252; tpool.c:267-273).
THEOREM WaitAnyIsSound == Spec => WaitAnySound
<1>1. Init => AnyInv
  BY DEF Init, AnyInv, Pending, Threads, PoolAssumption
<1>2. Spec => []AnyInv
  BY <1>1, AnyStep, PoolInvariant, PTL DEF Spec
<1>3. ASSUME IInv, AnyInv, [Next]_vars
      PROVE  [\A c \in Clients : pc[c] = "pend" /\ pc'[c] = "idle" => Settled # mark[c]]_vars
  <2>1. ASSUME Next, NEW c \in Clients, pc[c] = "pend", pc'[c] = "idle"
        PROVE  Settled # mark[c]
    <3>1. WaitPendingTest(c)
      BY <1>3, <2>1, PendMoves DEF Stays, CallWaitAny, Call
    <3>2. ~(qsize + nactive > reg[c])
      BY <1>3, <2>1, <3>1 DEF WaitPendingTest, Goto, IInv, TypeOK, Threads
    <3> QED  BY <1>3, <2>1, <3>2 DEF AnyInv, Pending
  <2> QED  BY <1>3, <2>1
<1> QED  BY <1>2, <1>3, PoolInvariant, PTL DEF Spec, WaitAnySound

-----------------------------------------------------------------------------
(***************************************************************************)
(* The thread pool implements the abstract pool of module JobPool.         *)
(***************************************************************************)

(***************************************************************************)
(* A worker that has no job leaves room for one: the map from the jobs     *)
(* held to their workers is an injection that misses it.                   *)
(***************************************************************************)
LEMMA HeldRoom ==
  ASSUME IInv, NEW w \in Workers, job[w] = NoOne
  PROVE  Cardinality(Held) < Cardinality(Workers)
<1>. DEFINE holder == [j \in Held |-> CHOOSE v \in Workers : job[v] = j]
<1>1. \A j \in Held : holder[j] \in Workers /\ job[holder[j]] = j /\ j # NoOne
  BY DEF Held
<1>2. holder \in [Held -> Workers \ {w}]
  BY <1>1
<1>3. holder \in Injection(Held, Workers \ {w})
  BY <1>1, <1>2 DEF Injection, IsInjective
<1>4. /\ IsFiniteSet(Workers \ {w})
      /\ Cardinality(Workers \ {w}) = Cardinality(Workers) - 1
  BY FS_RemoveElement
<1>5. /\ IsFiniteSet(Held)
      /\ Cardinality(Held) <= Cardinality(Workers \ {w})
  BY <1>3, <1>4, FS_Injection
<1>6. Cardinality(Workers) \in Nat /\ Cardinality(Held) \in Nat
  BY <1>5, FS_CardinalityType
<1>. QED
  BY <1>4, <1>5, <1>6

(***************************************************************************)
(* Who waits changes only where resman_tpool_wait is entered and left.     *)
(***************************************************************************)
LEMMA IdlersStep ==
  ASSUME IInv, Next
  PROVE  (\E d \in Clients : CallWait(d) \/ WaitTest(d)) \/ Idlers' = Idlers
<1>. USE DEF WorkerLabels, ClientLabels, Destroying
<1>1. ASSUME NEW w \in Workers, Start(w)
      PROVE  (\E d \in Clients : CallWait(d) \/ WaitTest(d)) \/ Idlers' = Idlers
  BY <1>1 DEF Start, Take, Goto, data, flags, history, IInv, TypeOK, Idlers
<1>2. ASSUME NEW w \in Workers, Top(w)
      PROVE  (\E d \in Clients : CallWait(d) \/ WaitTest(d)) \/ Idlers' = Idlers
  BY <1>2 DEF Top, Drop, Goto, data, flags, history, IInv, TypeOK, Idlers
<1>3. ASSUME NEW w \in Workers, CondWait(w)
      PROVE  (\E d \in Clients : CallWait(d) \/ WaitTest(d)) \/ Idlers' = Idlers
  BY <1>3 DEF CondWait, Drop, Goto, data, flags, history, IInv, TypeOK, Idlers
<1>4. ASSUME NEW w \in Workers, Reacquire(w)
      PROVE  (\E d \in Clients : CallWait(d) \/ WaitTest(d)) \/ Idlers' = Idlers
  BY <1>4 DEF Reacquire, Goto, data, flags, history, IInv, TypeOK, Idlers
<1>5. ASSUME NEW w \in Workers, TakeJob(w)
      PROVE  (\E d \in Clients : CallWait(d) \/ WaitTest(d)) \/ Idlers' = Idlers
  BY <1>5 DEF TakeJob, Drop, Goto, data, flags, history, IInv, TypeOK, Idlers
<1>6. ASSUME NEW w \in Workers, GoRound(w)
      PROVE  (\E d \in Clients : CallWait(d) \/ WaitTest(d)) \/ Idlers' = Idlers
  BY <1>6 DEF GoRound, Goto, data, flags, history, IInv, TypeOK, Idlers
<1>7. ASSUME NEW w \in Workers, RunJob(w)
      PROVE  (\E d \in Clients : CallWait(d) \/ WaitTest(d)) \/ Idlers' = Idlers
  BY <1>7 DEF RunJob, Goto, data, flags, history, IInv, TypeOK, Idlers
<1>8. ASSUME NEW w \in Workers, Relock(w)
      PROVE  (\E d \in Clients : CallWait(d) \/ WaitTest(d)) \/ Idlers' = Idlers
<2>. /\ pc[w] = "relock"
     /\ pc' = [t \in Threads |->
               IF t = w THEN "report" ELSE DoneWoken[t]]
  BY <1>8, DoneBroadcast DEF Relock, IInv, TypeOK, DoneWoken
<2>. QED
  BY <1>8 DEF Relock, Take, data, flags, history, IInv, TypeOK, Idlers, DoneWoken
<1>9. ASSUME NEW w \in Workers, Report(w)
      PROVE  (\E d \in Clients : CallWait(d) \/ WaitTest(d)) \/ Idlers' = Idlers
  BY <1>9 DEF Report, SendDoneEvent, Goto, data, flags, history, IInv, TypeOK, Idlers
<1>10. ASSUME NEW w \in Workers, SpuriousWake(w)
      PROVE  (\E d \in Clients : CallWait(d) \/ WaitTest(d)) \/ Idlers' = Idlers
  BY <1>10 DEF SpuriousWake, Goto, data, flags, history, IInv, TypeOK, Idlers
<1>11. ASSUME NEW c \in Clients, NEW j \in Jobs, Enqueue(c, j)
      PROVE  (\E d \in Clients : CallWait(d) \/ WaitTest(d)) \/ Idlers' = Idlers
  BY <1>11 DEF Enqueue, PutJob, Call, Goto, data, flags, history, IInv, TypeOK, Idlers
<1>12. ASSUME NEW c \in Clients, NEW usec \in Usecs, NEW ms \in Millis,
             CallTimedWait(c, usec, ms)
      PROVE  (\E d \in Clients : CallWait(d) \/ WaitTest(d)) \/ Idlers' = Idlers
  BY <1>12 DEF CallTimedWait, Call, Goto, data, flags, history, IInv, TypeOK, Idlers
<1>13. ASSUME NEW c \in Clients, Signal(c)
      PROVE  (\E d \in Clients : CallWait(d) \/ WaitTest(d)) \/ Idlers' = Idlers
<2>. /\ pc[c] = "signal"
     /\ pc' = [t \in Threads |->
               IF t = c THEN "idle"
               ELSE IF pc[t] = "asleep" /\ ~in_batch THEN "woken" ELSE pc[t]]
  BY <1>13, WorkBroadcast DEF Signal, IInv, TypeOK, DoneWoken
<2>. QED
  BY <1>13 DEF Signal, data, flags, history, IInv, TypeOK, Idlers
<1>14. ASSUME NEW c \in Clients, Flush(c)
      PROVE  (\E d \in Clients : CallWait(d) \/ WaitTest(d)) \/ Idlers' = Idlers
<2>. /\ pc[c] = "flush"
     /\ pc' = [t \in Threads |->
               IF t = c THEN "idle"
               ELSE IF pc[t] = "asleep" THEN "woken" ELSE pc[t]]
  BY <1>14, WorkBroadcast DEF Flush, IInv, TypeOK, DoneWoken
<2>. QED
  BY <1>14 DEF Flush, data, flags, history, IInv, TypeOK, Idlers
<1>15. ASSUME NEW c \in Clients, WaitTest(c)
      PROVE  (\E d \in Clients : CallWait(d) \/ WaitTest(d)) \/ Idlers' = Idlers
  BY <1>15 DEF WaitTest, Goto, data, flags, history, IInv, TypeOK, Idlers
<1>16. ASSUME NEW c \in Clients, WaitPendingTest(c)
      PROVE  (\E d \in Clients : CallWait(d) \/ WaitTest(d)) \/ Idlers' = Idlers
  BY <1>16 DEF WaitPendingTest, Goto, data, flags, history, IInv, TypeOK, Idlers
<1>17. ASSUME NEW c \in Clients, TimedTest(c)
      PROVE  (\E d \in Clients : CallWait(d) \/ WaitTest(d)) \/ Idlers' = Idlers
  BY <1>17 DEF TimedTest, Goto, data, flags, history, IInv, TypeOK, Idlers
<1>18. ASSUME NEW c \in Clients, ReleaseStore(c)
      PROVE  (\E d \in Clients : CallWait(d) \/ WaitTest(d)) \/ Idlers' = Idlers
  BY <1>18 DEF ReleaseStore, Goto, data, flags, history, IInv, TypeOK, Idlers
<1>19. ASSUME NEW c \in Clients, Clear(c)
      PROVE  (\E d \in Clients : CallWait(d) \/ WaitTest(d)) \/ Idlers' = Idlers
  BY <1>19 DEF Clear, Goto, data, flags, history, IInv, TypeOK, Idlers
<1>20. ASSUME NEW c \in Clients, SetQuit(c)
      PROVE  (\E d \in Clients : CallWait(d) \/ WaitTest(d)) \/ Idlers' = Idlers
  BY <1>20 DEF SetQuit, Goto, data, flags, history, IInv, TypeOK, Idlers
<1>21. ASSUME NEW c \in Clients, WakeAll(c)
      PROVE  (\E d \in Clients : CallWait(d) \/ WaitTest(d)) \/ Idlers' = Idlers
<2>. /\ pc[c] = "wakeall"
     /\ pc' = [t \in Threads |->
               IF t = c THEN "join"
               ELSE IF pc[t] = "asleep" THEN "woken" ELSE pc[t]]
  BY <1>21, WorkBroadcast DEF WakeAll, IInv, TypeOK, DoneWoken
<2>. QED
  BY <1>21 DEF WakeAll, data, flags, history, IInv, TypeOK, Idlers
<1>22. ASSUME NEW c \in Clients, Join(c)
      PROVE  (\E d \in Clients : CallWait(d) \/ WaitTest(d)) \/ Idlers' = Idlers
<2>. /\ pc[c] = "join"
     /\ pc' = [t \in Threads |->
               IF t = c THEN "farewell" ELSE DoneWoken[t]]
  BY <1>22, DoneBroadcast DEF Join, IInv, TypeOK, DoneWoken
<2>. QED
  BY <1>22 DEF Join, data, flags, history, IInv, TypeOK, Idlers, DoneWoken
<1>23. ASSUME NEW c \in Clients, Farewell(c)
      PROVE  (\E d \in Clients : CallWait(d) \/ WaitTest(d)) \/ Idlers' = Idlers
  BY <1>23 DEF Farewell, SendDoneEvent, Goto, data, flags, history, IInv, TypeOK, Idlers
<1>24. ASSUME NEW c \in Clients, BeginBatch(c)
      PROVE  (\E d \in Clients : CallWait(d) \/ WaitTest(d)) \/ Idlers' = Idlers
  BY <1>24 DEF BeginBatch, Call, data, flags, history, IInv, TypeOK, Idlers
<1>25. ASSUME NEW c \in Clients, EndBatch(c)
      PROVE  (\E d \in Clients : CallWait(d) \/ WaitTest(d)) \/ Idlers' = Idlers
  BY <1>25 DEF EndBatch, Call, Goto, data, flags, history, IInv, TypeOK, Idlers
<1>26. ASSUME NEW c \in Clients, CallWait(c)
      PROVE  (\E d \in Clients : CallWait(d) \/ WaitTest(d)) \/ Idlers' = Idlers
  BY <1>26 DEF CallWait, Call, Goto, data, flags, history, IInv, TypeOK, Idlers
<1>27. ASSUME NEW c \in Clients, CallWaitAny(c)
      PROVE  (\E d \in Clients : CallWait(d) \/ WaitTest(d)) \/ Idlers' = Idlers
  BY <1>27 DEF CallWaitAny, Call, Goto, data, flags, history, IInv, TypeOK, Idlers
<1>28. ASSUME NEW c \in Clients, Drain(c)
      PROVE  (\E d \in Clients : CallWait(d) \/ WaitTest(d)) \/ Idlers' = Idlers
  BY <1>28 DEF Drain, Call, data, flags, history, IInv, TypeOK, Idlers
<1>29. ASSUME NEW c \in Clients, ReleaseLoad(c)
      PROVE  (\E d \in Clients : CallWait(d) \/ WaitTest(d)) \/ Idlers' = Idlers
  BY <1>29 DEF ReleaseLoad, Call, Goto, data, flags, history, IInv, TypeOK, Idlers
<1>30. ASSUME NEW c \in Clients, TimedOut(c)
      PROVE  (\E d \in Clients : CallWait(d) \/ WaitTest(d)) \/ Idlers' = Idlers
  BY <1>30 DEF TimedOut, Goto, data, flags, history, IInv, TypeOK, Idlers
<1>. QED
  BY <1>1, <1>2, <1>3, <1>4, <1>5, <1>6, <1>7, <1>8, <1>9, <1>10, <1>11, <1>12, <1>13, <1>14, <1>15, <1>16, <1>17, <1>18, <1>19, <1>20, <1>21, <1>22, <1>23, <1>24, <1>25, <1>26, <1>27, <1>28, <1>29, <1>30
     DEF Next, WorkerStep, ClientStep, ClientCall

(***************************************************************************)
(* Each step of the pool is a step of JobPool or leaves it alone.          *)
(***************************************************************************)
LEMMA StepRefines ==
  ASSUME IInv, Next
  PROVE  Abstract!Next \/ UNCHANGED Abstract!poolVars
<1>. USE DEF WorkerLabels, ClientLabels, Destroying
<1>1. ASSUME NEW w \in Workers, TakeJob(w)
      PROVE  Abstract!Next
  <2>1. Idlers' = Idlers
    BY <1>1 DEF TakeJob, Goto, Idlers, IInv, TypeOK
  <2>2. Cardinality(Held) < Cardinality(Workers) /\ Held' = Held \cup {Head(queue)}
    BY <1>1, TakeMoves, HeldRoom
  <2>3. Abstract!Cardinality(Held) = Cardinality(Held)
    BY DEF Abstract!Cardinality, Cardinality
  <2>4. Abstract!Begin
    BY <1>1, <2>1, <2>2, <2>3 DEF Abstract!Begin, TakeJob, history
  <2>. QED
    BY <2>4 DEF Abstract!Next
<1>2. ASSUME NEW w \in Workers, Report(w)
      PROVE  Abstract!Next
  <2>1. Idlers' = Idlers
    BY <1>2 DEF Report, Goto, Idlers, IInv, TypeOK
  <2>2. Abstract!Finish(job[w]) /\ job[w] \in Jobs
    BY <1>2, <2>1, ReportMoves DEF Abstract!Finish, Report
  <2>. QED
    BY <2>2 DEF Abstract!Next
<1>3. ASSUME NEW c \in Clients, NEW j \in Jobs, Enqueue(c, j)
      PROVE  Abstract!Next
  <2>1. Idlers' = Idlers
    BY <1>3 DEF Enqueue, PutJob, Call, Goto, Idlers, IInv, TypeOK
  <2>2. Abstract!Queued = Queued /\ Held' = Held
    BY <1>3 DEF Abstract!Queued, Queued, Enqueue, PutJob, Held
  <2>3. Abstract!Submit(j)
    BY <1>3, <2>1, <2>2 DEF Abstract!Submit, Enqueue, PutJob, Settled, history
  <2>. QED
    BY <2>3 DEF Abstract!Next
<1>4. ASSUME NEW c \in Clients, Clear(c)
      PROVE  Abstract!Next
  <2>1. Idlers' = Idlers
    BY <1>4 DEF Clear, Goto, Idlers, IInv, TypeOK
  <2>2. Abstract!Queued = Queued /\ Held' = Held
    BY <1>4 DEF Abstract!Queued, Queued, Clear, Held
  <2>3. Abstract!Discard
    BY <1>4, <2>1, <2>2 DEF Abstract!Discard, Clear
  <2>. QED
    BY <2>3 DEF Abstract!Next
<1>5. ASSUME UNCHANGED <<queue, job, finished, dropped>>, Idlers' = Idlers
      PROVE  UNCHANGED Abstract!poolVars
  <2>1. Held' = Held
    BY <1>5 DEF Held
  <2>. QED
    BY <1>5, <2>1 DEF Abstract!poolVars
<1>6. ASSUME NEW c \in Clients, CallWait(c)
      PROVE  Abstract!Next
  <2>1. Idlers' = Idlers \cup {c} /\ c \notin Idlers
    BY <1>6 DEF CallWait, Call, Goto, Idlers, IInv, TypeOK
  <2>2. Held' = Held
    BY <1>6 DEF CallWait, data, Held
  <2>3. Abstract!Wait(c)
    BY <1>6, <2>1, <2>2 DEF Abstract!Wait, CallWait, data, history
  <2>. QED
    BY <2>3 DEF Abstract!Next
<1>7. ASSUME NEW c \in Clients, WaitTest(c)
      PROVE  Abstract!Next \/ UNCHANGED Abstract!poolVars
  <2>1. UNCHANGED <<queue, job, finished, dropped>> /\ Held' = Held
    BY <1>7 DEF WaitTest, data, history, Held
  <2>2. CASE nactive # 0 \/ qsize # 0
    <3>1. Idlers' = Idlers
      BY <1>7, <2>2 DEF WaitTest, Goto, Idlers, IInv, TypeOK
    <3>. QED
      BY <2>1, <3>1, <1>5
  <2>3. CASE nactive = 0 /\ qsize = 0
    <3>1. Idlers' = Idlers \ {c} /\ c \in Idlers
      BY <1>7, <2>3 DEF WaitTest, Goto, Idlers, IInv, TypeOK
    <3>2. Len(queue) = 0 /\ Cardinality(Active) = 0 /\ queue \in Seq(Jobs)
      BY <2>3 DEF IInv, Accounting, TypeOK
    <3>3. queue = <<>> /\ Active = {}
      BY <3>2, ActiveFinite, FS_EmptySet, EmptySeq
    <3>4. Held = {}
      BY <3>3 DEF Held, IInv, JobInv
    <3>5. Abstract!Return(c)
      BY <2>1, <3>1, <3>3, <3>4 DEF Abstract!Return
    <3>. QED
      BY <3>5 DEF Abstract!Next
  <2>. QED
    BY <2>2, <2>3
<1>. QED
  BY <1>1, <1>2, <1>3, <1>4, <1>5, <1>6, <1>7, Frame, IdlersStep

\* The pool implements JobPool: jobs start in the order of submission, each
\* once and at most one per worker, and wait returns to an idle pool
\* (tpool.c:189-274, 365-402).
THEOREM PoolImplementsJobPool == Spec => ImplementsJobPool
<1>1. Init => Abstract!Init
  BY DEF Init, Abstract!Init, Held, Idlers
<1>2. ASSUME IInv, [Next]_vars
      PROVE  [Abstract!Next]_(Abstract!poolVars)
  <2>1. CASE Next
    BY <1>2, <2>1, StepRefines
  <2>2. CASE UNCHANGED vars
    BY <2>2 DEF vars, data, flags, history, Abstract!poolVars, Held, Idlers
  <2>. QED
    BY <1>2, <2>1, <2>2
<1>. QED
  BY <1>1, <1>2, PoolInvariant, PTL DEF Spec, ImplementsJobPool, Abstract!Spec
=============================================================================
