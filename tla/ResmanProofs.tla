----------------------------- MODULE ResmanProofs -----------------------------
(***************************************************************************)
(* Proofs about the resource manager, for any number of workers, names and *)
(* blocks, and whatever the application calls: one block per name, pending *)
(* resources have a job, first loads are single, what is freed is not in   *)
(* use, resman_wait does not sleep on a finished load, and what was loaded *)
(* once is kept.                                                           *)
(*                                                                         *)
(* Each step is first reduced to what it does to the variables (a lemma    *)
(* ...Effect); that every conjunct of ResmanInv survives it follows from   *)
(* that alone.                                                             *)
(***************************************************************************)
EXTENDS Resman, FiniteSetTheorems, SequenceTheorems, TLAPS

ResourceType ==
  /\ conf \in Setups
  /\ slot \in Seq(Objs \cup {NULL}) /\ queue \in Seq(Objs)
  /\ block \in [Objs -> {"unused", "live", "freed"}]
  /\ obj \in [Objs -> Resource \cup {NULL}]
  /\ \A o \in Objs : block[o] # "unused" => obj[o] \in Resource
  /\ lock \in [Objs -> Workers \cup {NULL}]

ThreadType ==
  /\ wpc \in [Workers -> WorkerLabels] /\ wobj \in [Workers -> Objs \cup {NULL}]
  /\ \A w \in Workers : IF wpc[w] = "idle" THEN wobj[w] = NULL ELSE wobj[w] \in Objs
  /\ mpc \in MainLabels /\ i \in Nat \ {0}
  /\ event \in [obj : Objs, kind : {"modified", "replaced", "deleted"}] \cup {NULL}

InQueue(o) == \E k \in 1..Len(queue) : queue[k] = o
OnceInQueue(o) == \E k \in 1..Len(queue) : queue[k] = o
  /\ \A l \in 1..Len(queue) : queue[l] = o => l = k

\* The worker w has o, and has yet to flag it.
Has(w, o) == wobj[w] = o /\ wpc[w] \in {"begin", "load", "loaded", "flag"}
HasOne(o) == \E w \in Workers : Has(w, o) /\ \A v \in Workers : Has(v, o) => v = w
HasNone(o) == \A w \in Workers : ~Has(w, o)

\* OneBlockPerName, block by block.
SlotsLive ==
  /\ \A k \in 1..Len(slot) : slot[k] # NULL => block[slot[k]] = "live"
  /\ \A o \in Objs : block[o] = "live" => \E k \in 1..Len(slot) : slot[k] = o
  /\ \A k, l \in 1..Len(slot) : slot[k] # NULL /\ slot[l] # NULL
       /\ obj[slot[k]].name = obj[slot[l]].name => k = l

Covered ==
  \A o \in Objs : block[o] = "live" /\ obj[o].pending =>
    InQueue(o) \/ \E w \in Workers : wobj[w] = o /\ wpc[w] \in {"begin", "load", "loaded"}

\* Blocks that malloc has not yet returned are unknown.
Fresh ==
  /\ \A o \in Objs : InQueue(o) => block[o] # "unused"
  /\ \A w \in Workers : wobj[w] \in Objs => block[wobj[w]] # "unused"

Locks ==
  \A w \in Workers : wpc[w] \in {"flag", "unlock"} => lock[wobj[w]] = w

Empty == Destroyed => \A o \in Objs : block[o] # "live"

\* Until its first callback a resource is not watched, so it is not reloaded.
Watch ==
  conf.done_func => \A o \in Objs : block[o] = "live" =>
    /\ obj[o].loads = 0 => obj[o].watch = "off" /\ obj[o].timer = "off"
    /\ obj[o].del => obj[o].asked

\* OneFirstLoad, without counting.
FirstJob(o) ==
  \/ OnceInQueue(o) /\ HasNone(o) /\ ~obj[o].done
  \/ ~InQueue(o) /\ HasOne(o) /\ ~obj[o].done
  \/ ~InQueue(o) /\ HasNone(o) /\ obj[o].done

First ==
  conf.done_func => \A o \in Objs : block[o] = "live" /\ obj[o].loads = 0 => FirstJob(o)

FreedOk ==
  conf.done_func =>
    \A o \in Objs : block[o] = "freed" /\ ~obj[o].asked /\ ~Destroyed =>
      ~InQueue(o) /\ \A w \in Workers : wobj[w] = o => wpc[w] = "report"

\* Only a manager with a done_func flags loads as done, and scans for them.
NoDone == ~conf.done_func => \A o \in Objs : block[o] = "live" => ~obj[o].done

\* NoLostDone in every state: a finished load has a byte in the pipe or a
\* worker that will write it, or poll has yet to look.
Told(o) ==
  \/ wake
  \/ \E w \in Workers : wobj[w] = o /\ wpc[w] \in {"unlock", "report"}
  \/ mpc \in {"sweep", "drain"}
  \/ mpc = "scan" /\ \E k \in 1..Len(slot) : k >= i /\ slot[k] = o

Lost ==
  ~conf.slice => \A o \in Objs : block[o] = "live" /\ obj[o].done => Told(o)

ResmanInv ==
  /\ ResourceType /\ ThreadType
  /\ SlotsLive /\ Covered /\ Fresh /\ Locks /\ Empty
  /\ Watch /\ First /\ FreedOk /\ NoDone /\ Lost

-----------------------------------------------------------------------------
(* Sequences and resources.                                                *)

LEMMA TailFacts ==
  ASSUME NEW S, NEW s \in Seq(S), s # <<>>
  PROVE  /\ Tail(s) \in Seq(S) /\ Head(s) = s[1] /\ s[1] \in S
         /\ Len(s) \in Nat /\ Len(s) >= 1 /\ Len(Tail(s)) = Len(s) - 1
         /\ \A k \in 1..Len(s) - 1 : Tail(s)[k] = s[k + 1]
OBVIOUS

LEMMA AppendFacts ==
  ASSUME NEW S, NEW s \in Seq(S), NEW x \in S
  PROVE  /\ Append(s, x) \in Seq(S) /\ Len(s) \in Nat /\ Len(Append(s, x)) = Len(s) + 1
         /\ \A k \in 1..Len(s) : Append(s, x)[k] = s[k]
         /\ Append(s, x)[Len(s) + 1] = x
OBVIOUS

\* What is in the queue after a job was added, or the first one taken.
LEMMA AppendedQueue ==
  ASSUME NEW o, Len(queue) \in Nat, Len(queue') = Len(queue) + 1,
         \A k \in 1..Len(queue) : queue'[k] = queue[k], queue'[Len(queue) + 1] = o
  PROVE  /\ \A p : InQueue(p)' <=> InQueue(p) \/ p = o
         /\ \A p : p # o /\ OnceInQueue(p) => OnceInQueue(p)'
         /\ ~InQueue(o) => OnceInQueue(o)'
<1>1. ASSUME NEW p PROVE InQueue(p)' <=> InQueue(p) \/ p = o
  BY DEF InQueue
<1>2. ASSUME NEW p, p # o, OnceInQueue(p) PROVE OnceInQueue(p)'
  <2>1. PICK k \in 1..Len(queue) : queue[k] = p /\ \A l \in 1..Len(queue) : queue[l] = p => l = k
    BY <1>2 DEF OnceInQueue
  <2>2. k \in 1..Len(queue') /\ queue'[k] = p
    BY <2>1
  <2>3. \A l \in 1..Len(queue') : queue'[l] = p => l = k
    BY <1>2, <2>1
  <2> QED  BY <2>2, <2>3 DEF OnceInQueue
<1>3. ASSUME ~InQueue(o) PROVE OnceInQueue(o)'
  <2>1. Len(queue) + 1 \in 1..Len(queue') /\ queue'[Len(queue) + 1] = o
    OBVIOUS
  <2>2. \A l \in 1..Len(queue') : queue'[l] = o => l = Len(queue) + 1
    BY <1>3 DEF InQueue
  <2> QED  BY <2>1, <2>2 DEF OnceInQueue
<1> QED  BY <1>1, <1>2, <1>3

LEMMA TakenQueue ==
  ASSUME Len(queue) \in Nat, Len(queue) >= 1, Len(queue') = Len(queue) - 1,
         \A k \in 1..Len(queue') : queue'[k] = queue[k + 1]
  PROVE  /\ \A p : InQueue(p) <=> InQueue(p)' \/ p = queue[1]
         /\ \A p : p # queue[1] /\ OnceInQueue(p) => OnceInQueue(p)'
         /\ OnceInQueue(queue[1]) => ~\E k \in 1..Len(queue') : queue'[k] = queue[1]
<1>1. \A k \in 1..Len(queue) : k # 1 => k - 1 \in 1..Len(queue') /\ queue'[k - 1] = queue[k]
  OBVIOUS
<1>2. \A k \in 1..Len(queue') : k + 1 \in 1..Len(queue) /\ k + 1 # 1
  OBVIOUS
<1>3. ASSUME NEW p PROVE InQueue(p) <=> InQueue(p)' \/ p = queue[1]
  BY <1>1, <1>2 DEF InQueue
<1>4. ASSUME NEW p, p # queue[1], OnceInQueue(p) PROVE OnceInQueue(p)'
  <2>1. PICK k \in 1..Len(queue) : queue[k] = p /\ \A l \in 1..Len(queue) : queue[l] = p => l = k
    BY <1>4 DEF OnceInQueue
  <2>2. k - 1 \in 1..Len(queue') /\ queue'[k - 1] = p
    BY <1>1, <1>4, <2>1
  <2>3. \A l \in 1..Len(queue') : queue'[l] = p => l = k - 1
    BY <1>2, <2>1
  <2> QED  BY <2>2, <2>3 DEF OnceInQueue
<1>5. ASSUME OnceInQueue(queue[1]) PROVE ~\E k \in 1..Len(queue') : queue'[k] = queue[1]
  <2>1. \A l \in 1..Len(queue) : queue[l] = queue[1] => l = 1
    BY <1>5 DEF OnceInQueue
  <2>2. \A l \in 1..Len(queue') : queue'[l] # queue[1]
    BY <1>2, <2>1
  <2> QED  BY <2>2
<1> QED  BY <1>3, <1>4, <1>5

LEMMA Nulls == NULL \notin Objs /\ NULL \notin Workers
BY ResmanAssumption

\* What is left of the slots when one is erased and its block freed.
LEMMA ErasedSlots ==
  ASSUME ResourceType, SlotsLive, i \in 1..Len(slot), slot[i] \in Objs,
         Len(slot') = Len(slot),
         \A k \in 1..Len(slot) : slot'[k] = IF k = i THEN NULL ELSE slot[k],
         block' = [block EXCEPT ![slot[i]] = "freed"],
         \A o \in Objs : obj'[o].name = obj[o].name
  PROVE  SlotsLive'
<1>1. \A k \in 1..Len(slot) : k # i => slot[k] # slot[i]
  BY Nulls DEF SlotsLive
<1>2. \A k \in 1..Len(slot) : slot[k] # NULL => slot[k] \in Objs
  BY DEF ResourceType
<1>3. \A k \in 1..Len(slot') : slot'[k] # NULL => k # i /\ slot'[k] = slot[k] /\ slot[k] # NULL
  OBVIOUS
<1>4. \A k \in 1..Len(slot') : slot'[k] # NULL => block'[slot'[k]] = "live"
  BY <1>1, <1>2, <1>3 DEF SlotsLive, ResourceType
<1>5. ASSUME NEW o \in Objs, block'[o] = "live" PROVE \E k \in 1..Len(slot') : slot'[k] = o
  <2>1. block[o] = "live" /\ o # slot[i]
    BY <1>5 DEF ResourceType
  <2>2. PICK k \in 1..Len(slot) : slot[k] = o
    BY <2>1 DEF SlotsLive
  <2> QED  BY <2>1, <2>2
<1>6. \A k, l \in 1..Len(slot') : slot'[k] # NULL /\ slot'[l] # NULL
        /\ obj'[slot'[k]].name = obj'[slot'[l]].name => k = l
  BY <1>2, <1>3 DEF SlotsLive
<1> QED  BY <1>4, <1>5, <1>6 DEF SlotsLive

LEMMA CountedIsResource ==
  ASSUME NEW r \in Resource
  PROVE  LET c == [r EXCEPT !.done = FALSE, !.loads = @ + 1] IN
         /\ c \in Resource /\ c.loads # 0 /\ c.done = FALSE
         /\ c.name = r.name /\ c.pending = r.pending /\ c.del = r.del /\ c.asked = r.asked
<1>1. r.loads \in Nat /\ r.loads + 1 \in Nat /\ r.loads + 1 # 0
  BY DEF Resource
<1>2. ASSUME NEW l \in Nat
      PROVE  LET c == [r EXCEPT !.done = FALSE, !.loads = l] IN
             /\ c \in Resource /\ c.loads = l /\ c.done = FALSE
             /\ c.name = r.name /\ c.pending = r.pending /\ c.del = r.del /\ c.asked = r.asked
  BY DEF Resource
<1> QED  BY <1>1, <1>2

LEMMA StartWatchIsResource ==
  ASSUME NEW r \in Resource
  PROVE  /\ StartWatch(r) \in Resource
         /\ StartWatch(r).loads = r.loads /\ StartWatch(r).done = r.done
         /\ StartWatch(r).name = r.name /\ StartWatch(r).pending = r.pending
         /\ StartWatch(r).del = r.del /\ StartWatch(r).asked = r.asked
BY DEF Resource, StartWatch

LEMMA FlaggedIsResource ==
  ASSUME NEW r \in Resource
  PROVE  /\ Flagged(r) \in Resource
         /\ Flagged(r).name = r.name /\ Flagged(r).pending = r.pending
         /\ Flagged(r).loads = r.loads /\ Flagged(r).timer = r.timer
         /\ Flagged(r).asked = r.asked
         /\ conf.done_func => Flagged(r).done /\ Flagged(r).watch = r.watch /\ Flagged(r).del = r.del
         /\ ~conf.done_func => Flagged(r).done = r.done
BY DEF Resource, StartWatch, Flagged

\* The block o has the contents r, and no other block has changed.
Put(o, r) == o \in Objs /\ r \in Resource /\ obj' = [obj EXCEPT ![o] = r]

\* r is s but for fields that nothing here depends on.
LikeTo(r, s) ==
  /\ r.name = s.name /\ r.pending = s.pending /\ r.done = s.done /\ r.del = s.del
  /\ r.loads = s.loads /\ r.timer = s.timer /\ r.watch = s.watch /\ r.asked = s.asked

LEMMA TakeEffect ==
  ASSUME ResmanInv, NEW w \in Workers, Take(w)
  PROVE  /\ UNCHANGED <<conf, slot, obj, block, lock, mpc, i, event, wake>>
         /\ wpc[w] = "idle"
         /\ wpc' = [wpc EXCEPT ![w] = "begin"] /\ wobj' = [wobj EXCEPT ![w] = queue[1]]
         /\ queue' \in Seq(Objs) /\ queue[1] \in Objs
         /\ Len(queue) \in Nat /\ Len(queue) >= 1 /\ Len(queue') = Len(queue) - 1
         /\ \A k \in 1..Len(queue') : queue'[k] = queue[k + 1]
<1>1. queue \in Seq(Objs) /\ queue # <<>>
  BY DEF ResmanInv, ResourceType, Take
<1>2. /\ Tail(queue) \in Seq(Objs) /\ Head(queue) = queue[1] /\ queue[1] \in Objs
      /\ Len(queue) \in Nat /\ Len(queue) >= 1 /\ Len(Tail(queue)) = Len(queue) - 1
      /\ \A k \in 1..Len(queue) - 1 : Tail(queue)[k] = queue[k + 1]
  BY <1>1, TailFacts
<1> QED  BY <1>2 DEF Take, main, files

LEMMA TakeStep ==
  ASSUME ResmanInv, NEW w \in Workers, Take(w)
  PROVE  ResmanInv'
<1>0. /\ ResourceType /\ ThreadType /\ SlotsLive /\ Covered /\ Fresh /\ Locks /\ Empty
      /\ Watch /\ First /\ FreedOk /\ NoDone /\ Lost
  BY DEF ResmanInv
<1>1. /\ UNCHANGED <<conf, slot, obj, block, lock, mpc, i, event, wake>>
      /\ wpc[w] = "idle"
      /\ wpc' = [wpc EXCEPT ![w] = "begin"] /\ wobj' = [wobj EXCEPT ![w] = queue[1]]
      /\ queue' \in Seq(Objs) /\ queue[1] \in Objs
      /\ Len(queue) \in Nat /\ Len(queue) >= 1 /\ Len(queue') = Len(queue) - 1
      /\ \A k \in 1..Len(queue') : queue'[k] = queue[k + 1]
  BY TakeEffect
<1>14. /\ \A p : InQueue(p) <=> InQueue(p)' \/ p = queue[1]
       /\ \A p : p # queue[1] /\ OnceInQueue(p) => OnceInQueue(p)'
       /\ \A p : p = queue[1] /\ OnceInQueue(p) => ~InQueue(p)'
  BY <1>1, TakenQueue DEF InQueue
<1>2. ResourceType'
  BY <1>0, <1>1 DEF ResourceType, ThreadType, Put
<1>3. ThreadType'
  BY <1>0, <1>1 DEF ResourceType, ThreadType, WorkerLabels, MainLabels, Put
<1>4. SlotsLive'
  BY <1>0, <1>1 DEF ResourceType, ThreadType, SlotsLive, Put
<1>5. Covered'
  <2>1. ASSUME NEW o \in Objs, block[o] = "live", obj[o].pending, ~InQueue(o)'
        PROVE  \E v \in Workers : wobj'[v] = o /\ wpc'[v] \in {"begin", "load", "loaded"}
    <3>1. CASE o = queue[1]
      BY <1>0, <1>1, <3>1 DEF ThreadType
    <3>2. CASE o # queue[1]
      <4>1. PICK v \in Workers : wobj[v] = o /\ wpc[v] \in {"begin", "load", "loaded"}
        BY <1>0, <1>14, <2>1, <3>2 DEF Covered
      <4>2. v # w
        BY <1>1, <4>1
      <4> QED  BY <1>0, <1>1, <4>1, <4>2 DEF ThreadType
    <3> QED  BY <3>1, <3>2
  <2> QED  BY <1>1, <2>1 DEF Covered
<1>6. Fresh'
  BY <1>0, <1>1, <1>14 DEF ResourceType, ThreadType, Fresh, SlotsLive, Put
<1>7. Locks'
  BY <1>0, <1>1 DEF ResourceType, ThreadType, Locks, Put
<1>8. Empty'
  BY <1>0, <1>1 DEF ResourceType, ThreadType, Empty, Destroyed, Put
<1>9. Watch'
  BY <1>0, <1>1 DEF ResourceType, ThreadType, Watch, SlotsLive, Fresh, Put
<1>10. First'
  <2> SUFFICES ASSUME conf.done_func, NEW o \in Objs, block[o] = "live", obj[o].loads = 0
               PROVE  FirstJob(o)'
    BY <1>1 DEF First
  <2>1. FirstJob(o)
    BY <1>0 DEF First
  <2>2. CASE o = queue[1]
    <3>1. OnceInQueue(o) /\ HasNone(o) /\ ~obj[o].done
      BY <1>14, <2>1, <2>2 DEF FirstJob
    <3>2. ~InQueue(o)'
      BY <1>14, <2>2, <3>1
    <3>3. Has(w, o)'
      BY <1>0, <1>1, <2>2 DEF Has, ThreadType
    <3>4. \A v \in Workers : Has(v, o)' => v = w
      BY <1>0, <1>1, <3>1 DEF HasNone, Has, ThreadType
    <3> QED  BY <1>1, <3>1, <3>2, <3>3, <3>4 DEF FirstJob, HasOne
  <2>3. CASE o # queue[1]
    <3>1. \A v \in Workers : Has(v, o)' <=> Has(v, o)
      BY <1>0, <1>1, <2>3 DEF Has, ThreadType
    <3> QED  BY <1>1, <1>14, <2>1, <2>3, <3>1 DEF FirstJob, HasOne, HasNone
  <2> QED  BY <2>2, <2>3
<1>11. FreedOk'
  BY <1>0, <1>1, <1>14 DEF ResourceType, ThreadType, FreedOk, First, Watch, Locks, Fresh, SlotsLive, Destroyed, FirstJob, Has, HasOne, HasNone, Put
<1>12. NoDone'
  BY <1>0, <1>1 DEF ResourceType, ThreadType, NoDone, Put
<1>13. Lost'
  BY <1>0, <1>1 DEF ResourceType, ThreadType, Lost, SlotsLive, NoDone, Told, Put
<1> QED  BY <1>2, <1>3, <1>4, <1>5, <1>6, <1>7, <1>8, <1>9, <1>10, <1>11, <1>12, <1>13 DEF ResmanInv

LEMMA BeginTaskEffect ==
  ASSUME ResmanInv, NEW w \in Workers, BeginTask(w)
  PROVE  /\ UNCHANGED <<conf, slot, obj, block, lock, queue, wobj, mpc, i, event, wake>>
         /\ wpc[w] = "begin" /\ wpc' = [wpc EXCEPT ![w] = "load"] /\ wobj[w] \in Objs
BY DEF BeginTask, Work, main, ResmanInv, ThreadType

LEMMA BeginTaskStep ==
  ASSUME ResmanInv, NEW w \in Workers, BeginTask(w)
  PROVE  ResmanInv'
<1>0. /\ ResourceType /\ ThreadType /\ SlotsLive /\ Covered /\ Fresh /\ Locks /\ Empty
      /\ Watch /\ First /\ FreedOk /\ NoDone /\ Lost
  BY DEF ResmanInv
<1>1. /\ UNCHANGED <<conf, slot, obj, block, lock, queue, wobj, mpc, i, event, wake>>
      /\ wpc[w] = "begin" /\ wpc' = [wpc EXCEPT ![w] = "load"] /\ wobj[w] \in Objs
  BY BeginTaskEffect
<1>2. ResourceType'
  BY <1>0, <1>1 DEF ResourceType, ThreadType, Put
<1>3. ThreadType'
  BY <1>0, <1>1 DEF ResourceType, ThreadType, WorkerLabels, MainLabels, Put
<1>4. SlotsLive'
  BY <1>0, <1>1 DEF ResourceType, ThreadType, SlotsLive, Put
<1>5. Covered'
  BY <1>0, <1>1 DEF ResourceType, ThreadType, Covered, SlotsLive, Empty, InQueue, Destroyed, Put
<1>6. Fresh'
  BY <1>0, <1>1 DEF ResourceType, ThreadType, Fresh, SlotsLive, InQueue, Put
<1>7. Locks'
  BY <1>0, <1>1 DEF ResourceType, ThreadType, Locks, Put
<1>8. Empty'
  BY <1>0, <1>1 DEF ResourceType, ThreadType, Empty, Destroyed, Put
<1>9. Watch'
  BY <1>0, <1>1 DEF ResourceType, ThreadType, Watch, SlotsLive, Fresh, InQueue, Put
<1>10. First'
  <2>1. \A v \in Workers, o \in Objs : Has(v, o)' <=> Has(v, o)
    BY <1>0, <1>1, Nulls DEF Has, ThreadType
  <2>2. \A o \in Objs : obj'[o].loads = obj[o].loads /\ obj'[o].done = obj[o].done
    BY <1>0, <1>1 DEF ResourceType, Put, LikeTo
  <2>3. \A o \in Objs : FirstJob(o) => FirstJob(o)'
    BY <1>1, <2>1, <2>2 DEF FirstJob, HasOne, HasNone, InQueue, OnceInQueue
  <2> QED  BY <1>0, <1>1, <2>2, <2>3 DEF First
<1>11. FreedOk'
  BY <1>0, <1>1 DEF ResourceType, ThreadType, FreedOk, First, Watch, Locks, Fresh, SlotsLive, InQueue, Destroyed, FirstJob, OnceInQueue, Has, HasOne, HasNone, Put
<1>12. NoDone'
  BY <1>0, <1>1 DEF ResourceType, ThreadType, NoDone, Put
<1>13. Lost'
  BY <1>0, <1>1 DEF ResourceType, ThreadType, Lost, SlotsLive, NoDone, Told, Put
<1> QED  BY <1>2, <1>3, <1>4, <1>5, <1>6, <1>7, <1>8, <1>9, <1>10, <1>11, <1>12, <1>13 DEF ResmanInv

LEMMA LoadEffect ==
  ASSUME ResmanInv, NEW w \in Workers, Load(w)
  PROVE  /\ UNCHANGED <<conf, slot, block, lock, queue, wobj, mpc, i, event, wake>>
         /\ wpc[w] = "load" /\ wpc' = [wpc EXCEPT ![w] = "loaded"] /\ wobj[w] \in Objs
         /\ \E r : Put(wobj[w], r) /\ LikeTo(r, obj[wobj[w]])
<1>1. wobj[w] \in Objs /\ obj[wobj[w]] \in Resource /\ obj \in [Objs -> Resource \cup {NULL}]
  BY DEF ResmanInv, ResourceType, ThreadType, Load, Work
<1>2. PICK x \in {0, -1} :
        obj' = [obj EXCEPT ![wobj[w]].result = x, ![wobj[w]].good = @ \/ x = 0]
  BY DEF Load
<1> DEFINE r == [obj[wobj[w]] EXCEPT !.result = x, !.good = @ \/ x = 0]
<1>3. obj' = [obj EXCEPT ![wobj[w]] = r]
  BY <1>1, <1>2
<1>4. r \in Resource /\ LikeTo(r, obj[wobj[w]])
  BY <1>1 DEF Resource, LikeTo
<1>5. Put(wobj[w], r)
  BY <1>1, <1>3, <1>4 DEF Put
<1> HIDE DEF r
<1> QED  BY <1>1, <1>4, <1>5 DEF Load, Work, main

LEMMA LoadStep ==
  ASSUME ResmanInv, NEW w \in Workers, Load(w)
  PROVE  ResmanInv'
<1>0. /\ ResourceType /\ ThreadType /\ SlotsLive /\ Covered /\ Fresh /\ Locks /\ Empty
      /\ Watch /\ First /\ FreedOk /\ NoDone /\ Lost
  BY DEF ResmanInv
<1>1. /\ UNCHANGED <<conf, slot, block, lock, queue, wobj, mpc, i, event, wake>>
      /\ wpc[w] = "load" /\ wpc' = [wpc EXCEPT ![w] = "loaded"] /\ wobj[w] \in Objs
      /\ \E r : Put(wobj[w], r) /\ LikeTo(r, obj[wobj[w]])
  BY LoadEffect
<1>2. ResourceType'
  BY <1>0, <1>1 DEF ResourceType, ThreadType, LikeTo, Put
<1>3. ThreadType'
  BY <1>0, <1>1 DEF ResourceType, ThreadType, WorkerLabels, MainLabels, LikeTo, Put
<1>4. SlotsLive'
  BY <1>0, <1>1 DEF ResourceType, ThreadType, SlotsLive, LikeTo, Put
<1>5. Covered'
  BY <1>0, <1>1 DEF ResourceType, ThreadType, Covered, SlotsLive, Empty, InQueue, Destroyed, LikeTo, Put
<1>6. Fresh'
  BY <1>0, <1>1 DEF ResourceType, ThreadType, Fresh, SlotsLive, InQueue, LikeTo, Put
<1>7. Locks'
  BY <1>0, <1>1 DEF ResourceType, ThreadType, Locks, LikeTo, Put
<1>8. Empty'
  BY <1>0, <1>1 DEF ResourceType, ThreadType, Empty, Destroyed, LikeTo, Put
<1>9. Watch'
  BY <1>0, <1>1 DEF ResourceType, ThreadType, Watch, SlotsLive, Fresh, InQueue, LikeTo, Put
<1>10. First'
  <2>1. \A v \in Workers, o \in Objs : Has(v, o)' <=> Has(v, o)
    BY <1>0, <1>1, Nulls DEF Has, ThreadType
  <2>2. \A o \in Objs : obj'[o].loads = obj[o].loads /\ obj'[o].done = obj[o].done
    BY <1>0, <1>1 DEF ResourceType, Put, LikeTo
  <2>3. \A o \in Objs : FirstJob(o) => FirstJob(o)'
    BY <1>1, <2>1, <2>2 DEF FirstJob, HasOne, HasNone, InQueue, OnceInQueue
  <2> QED  BY <1>0, <1>1, <2>2, <2>3 DEF First
<1>11. FreedOk'
  BY <1>0, <1>1 DEF ResourceType, ThreadType, FreedOk, First, Watch, Locks, Fresh, SlotsLive, InQueue, Destroyed, FirstJob, OnceInQueue, Has, HasOne, HasNone, LikeTo, Put
<1>12. NoDone'
  BY <1>0, <1>1 DEF ResourceType, ThreadType, NoDone, LikeTo, Put
<1>13. Lost'
  BY <1>0, <1>1 DEF ResourceType, ThreadType, Lost, SlotsLive, NoDone, Told, LikeTo, Put
<1> QED  BY <1>2, <1>3, <1>4, <1>5, <1>6, <1>7, <1>8, <1>9, <1>10, <1>11, <1>12, <1>13 DEF ResmanInv

LEMMA ClearPendingEffect ==
  ASSUME ResmanInv, NEW w \in Workers, ClearPending(w)
  PROVE  /\ UNCHANGED <<conf, slot, block, queue, wobj, mpc, i, event, wake>>
         /\ wpc[w] = "loaded" /\ wpc' = [wpc EXCEPT ![w] = "flag"] /\ wobj[w] \in Objs
         /\ lock[wobj[w]] = NULL /\ lock' = [lock EXCEPT ![wobj[w]] = w]
         /\ \E r : /\ Put(wobj[w], r) /\ ~r.pending
                   /\ r.name = obj[wobj[w]].name /\ r.done = obj[wobj[w]].done /\ r.del = obj[wobj[w]].del
                   /\ r.loads = obj[wobj[w]].loads /\ r.timer = obj[wobj[w]].timer /\ r.watch = obj[wobj[w]].watch /\ r.asked = obj[wobj[w]].asked
<1>1. wobj[w] \in Objs /\ obj[wobj[w]] \in Resource /\ obj \in [Objs -> Resource \cup {NULL}]
  BY DEF ResmanInv, ResourceType, ThreadType, ClearPending, Work
<1> DEFINE r == [obj[wobj[w]] EXCEPT !.pending = FALSE]
<1>2. obj' = [obj EXCEPT ![wobj[w]] = r]
  BY <1>1 DEF ClearPending, Set
<1>3. /\ r \in Resource /\ ~r.pending
      /\ r.name = obj[wobj[w]].name /\ r.done = obj[wobj[w]].done /\ r.del = obj[wobj[w]].del /\ r.loads = obj[wobj[w]].loads
      /\ r.timer = obj[wobj[w]].timer /\ r.watch = obj[wobj[w]].watch /\ r.asked = obj[wobj[w]].asked
  BY <1>1 DEF Resource
<1>4. Put(wobj[w], r)
  BY <1>1, <1>2, <1>3 DEF Put
<1> HIDE DEF r
<1> QED  BY <1>1, <1>3, <1>4 DEF ClearPending, Work, main

LEMMA ClearPendingStep ==
  ASSUME ResmanInv, NEW w \in Workers, ClearPending(w)
  PROVE  ResmanInv'
<1>0. /\ ResourceType /\ ThreadType /\ SlotsLive /\ Covered /\ Fresh /\ Locks /\ Empty
      /\ Watch /\ First /\ FreedOk /\ NoDone /\ Lost
  BY DEF ResmanInv
<1>1. /\ UNCHANGED <<conf, slot, block, queue, wobj, mpc, i, event, wake>>
      /\ wpc[w] = "loaded" /\ wpc' = [wpc EXCEPT ![w] = "flag"] /\ wobj[w] \in Objs
      /\ lock[wobj[w]] = NULL /\ lock' = [lock EXCEPT ![wobj[w]] = w]
      /\ \E r : /\ Put(wobj[w], r) /\ ~r.pending
                /\ r.name = obj[wobj[w]].name /\ r.done = obj[wobj[w]].done /\ r.del = obj[wobj[w]].del
                /\ r.loads = obj[wobj[w]].loads /\ r.timer = obj[wobj[w]].timer /\ r.watch = obj[wobj[w]].watch /\ r.asked = obj[wobj[w]].asked
  BY ClearPendingEffect
<1>2. ResourceType'
  BY <1>0, <1>1 DEF ResourceType, ThreadType, Put
<1>3. ThreadType'
  BY <1>0, <1>1 DEF ResourceType, ThreadType, WorkerLabels, MainLabels, Put
<1>4. SlotsLive'
  BY <1>0, <1>1 DEF ResourceType, ThreadType, SlotsLive, Put
<1>5. Covered'
  BY <1>0, <1>1 DEF ResourceType, ThreadType, Covered, SlotsLive, Empty, InQueue, Destroyed, Put
<1>6. Fresh'
  BY <1>0, <1>1 DEF ResourceType, ThreadType, Fresh, SlotsLive, InQueue, Put
<1>7. Locks'
  BY <1>0, <1>1, Nulls DEF ResourceType, ThreadType, Locks, Put
<1>8. Empty'
  BY <1>0, <1>1 DEF ResourceType, ThreadType, Empty, Destroyed, Put
<1>9. Watch'
  BY <1>0, <1>1 DEF ResourceType, ThreadType, Watch, SlotsLive, Fresh, InQueue, Put
<1>10. First'
  <2>1. \A v \in Workers, o \in Objs : Has(v, o)' <=> Has(v, o)
    BY <1>0, <1>1, Nulls DEF Has, ThreadType
  <2>2. \A o \in Objs : obj'[o].loads = obj[o].loads /\ obj'[o].done = obj[o].done
    BY <1>0, <1>1 DEF ResourceType, Put, LikeTo
  <2>3. \A o \in Objs : FirstJob(o) => FirstJob(o)'
    BY <1>1, <2>1, <2>2 DEF FirstJob, HasOne, HasNone, InQueue, OnceInQueue
  <2> QED  BY <1>0, <1>1, <2>2, <2>3 DEF First
<1>11. FreedOk'
  BY <1>0, <1>1 DEF ResourceType, ThreadType, FreedOk, First, Watch, Locks, Fresh, SlotsLive, InQueue, Destroyed, FirstJob, OnceInQueue, Has, HasOne, HasNone, Put
<1>12. NoDone'
  BY <1>0, <1>1 DEF ResourceType, ThreadType, NoDone, Put
<1>13. Lost'
  BY <1>0, <1>1 DEF ResourceType, ThreadType, Lost, SlotsLive, NoDone, Told, Put
<1> QED  BY <1>2, <1>3, <1>4, <1>5, <1>6, <1>7, <1>8, <1>9, <1>10, <1>11, <1>12, <1>13 DEF ResmanInv

LEMMA FlagDoneEffect ==
  ASSUME ResmanInv, NEW w \in Workers, FlagDone(w)
  PROVE  /\ UNCHANGED <<conf, slot, block, lock, queue, wobj, mpc, i, event, wake>>
         /\ wpc[w] = "flag" /\ wpc' = [wpc EXCEPT ![w] = "unlock"] /\ wobj[w] \in Objs
         /\ \E r : /\ Put(wobj[w], r) /\ r.name = obj[wobj[w]].name /\ r.pending = obj[wobj[w]].pending
                   /\ r.loads = obj[wobj[w]].loads /\ r.timer = obj[wobj[w]].timer
                   /\ r.asked = obj[wobj[w]].asked
                   /\ conf.done_func => r.done /\ r.watch = obj[wobj[w]].watch /\ r.del = obj[wobj[w]].del
                   /\ ~conf.done_func => r.done = obj[wobj[w]].done
<1>1. wobj[w] \in Objs /\ obj[wobj[w]] \in Resource
  BY DEF ResmanInv, ResourceType, ThreadType, FlagDone, Work
<1> DEFINE r == Flagged(obj[wobj[w]])
<1>2. Put(wobj[w], r)
  BY <1>1, FlaggedIsResource DEF Put, FlagDone, Store
<1> QED  BY <1>1, <1>2, FlaggedIsResource DEF FlagDone, Work, main

LEMMA FlagDoneStep ==
  ASSUME ResmanInv, NEW w \in Workers, FlagDone(w)
  PROVE  ResmanInv'
<1>0. /\ ResourceType /\ ThreadType /\ SlotsLive /\ Covered /\ Fresh /\ Locks /\ Empty
      /\ Watch /\ First /\ FreedOk /\ NoDone /\ Lost
  BY DEF ResmanInv
<1>1. /\ UNCHANGED <<conf, slot, block, lock, queue, wobj, mpc, i, event, wake>>
      /\ wpc[w] = "flag" /\ wpc' = [wpc EXCEPT ![w] = "unlock"] /\ wobj[w] \in Objs
      /\ \E r : /\ Put(wobj[w], r) /\ r.name = obj[wobj[w]].name /\ r.pending = obj[wobj[w]].pending
                /\ r.loads = obj[wobj[w]].loads /\ r.timer = obj[wobj[w]].timer
                /\ r.asked = obj[wobj[w]].asked
                /\ conf.done_func => r.done /\ r.watch = obj[wobj[w]].watch /\ r.del = obj[wobj[w]].del
                /\ ~conf.done_func => r.done = obj[wobj[w]].done
  BY FlagDoneEffect
<1>2. ResourceType'
  BY <1>0, <1>1 DEF ResourceType, ThreadType, Put
<1>3. ThreadType'
  BY <1>0, <1>1 DEF ResourceType, ThreadType, WorkerLabels, MainLabels, Put
<1>4. SlotsLive'
  BY <1>0, <1>1 DEF ResourceType, ThreadType, SlotsLive, Put
<1>5. Covered'
  <2>1. \A o \in Objs : obj'[o].pending = obj[o].pending
    BY <1>0, <1>1 DEF ResourceType, Put
  <2>2. \A v \in Workers : wpc[v] \in {"begin", "load", "loaded"} => wpc'[v] = wpc[v]
    BY <1>0, <1>1 DEF ThreadType
  <2> QED  BY <1>0, <1>1, <2>1, <2>2 DEF Covered, InQueue
<1>6. Fresh'
  BY <1>0, <1>1 DEF ResourceType, ThreadType, Fresh, SlotsLive, InQueue, Put
<1>7. Locks'
  BY <1>0, <1>1 DEF ResourceType, ThreadType, Locks, Put
<1>8. Empty'
  BY <1>0, <1>1 DEF ResourceType, ThreadType, Empty, Destroyed, Put
<1>9. Watch'
  BY <1>0, <1>1 DEF ResourceType, ThreadType, Watch, SlotsLive, Fresh, InQueue, Put
<1>10. First'
  BY <1>0, <1>1 DEF ResourceType, ThreadType, First, Watch, Fresh, Empty, FirstJob, InQueue, OnceInQueue, Has, HasOne, HasNone, Destroyed, Put
<1>11. FreedOk'
  BY <1>0, <1>1 DEF ResourceType, ThreadType, FreedOk, First, Watch, Locks, Fresh, SlotsLive, InQueue, Destroyed, FirstJob, OnceInQueue, Has, HasOne, HasNone, Put
<1>12. NoDone'
  BY <1>0, <1>1 DEF ResourceType, ThreadType, NoDone, Put
<1>13. Lost'
  BY <1>0, <1>1 DEF ResourceType, ThreadType, Lost, SlotsLive, NoDone, Told, Put
<1> QED  BY <1>2, <1>3, <1>4, <1>5, <1>6, <1>7, <1>8, <1>9, <1>10, <1>11, <1>12, <1>13 DEF ResmanInv

LEMMA UnlockEffect ==
  ASSUME ResmanInv, NEW w \in Workers, Unlock(w)
  PROVE  /\ UNCHANGED <<conf, slot, obj, block, queue, wobj, mpc, i, event, wake>>
         /\ wpc[w] = "unlock" /\ wpc' = [wpc EXCEPT ![w] = "report"] /\ wobj[w] \in Objs
         /\ lock' = [lock EXCEPT ![wobj[w]] = NULL]
BY DEF Unlock, Work, main, ResmanInv, ThreadType

LEMMA UnlockStep ==
  ASSUME ResmanInv, NEW w \in Workers, Unlock(w)
  PROVE  ResmanInv'
<1>0. /\ ResourceType /\ ThreadType /\ SlotsLive /\ Covered /\ Fresh /\ Locks /\ Empty
      /\ Watch /\ First /\ FreedOk /\ NoDone /\ Lost
  BY DEF ResmanInv
<1>1. /\ UNCHANGED <<conf, slot, obj, block, queue, wobj, mpc, i, event, wake>>
      /\ wpc[w] = "unlock" /\ wpc' = [wpc EXCEPT ![w] = "report"] /\ wobj[w] \in Objs
      /\ lock' = [lock EXCEPT ![wobj[w]] = NULL]
  BY UnlockEffect
<1>2. ResourceType'
  BY <1>0, <1>1 DEF ResourceType, ThreadType, Put
<1>3. ThreadType'
  BY <1>0, <1>1 DEF ResourceType, ThreadType, WorkerLabels, MainLabels, Put
<1>4. SlotsLive'
  BY <1>0, <1>1 DEF ResourceType, ThreadType, SlotsLive, Put
<1>5. Covered'
  BY <1>0, <1>1, Nulls DEF ResourceType, ThreadType, Covered, SlotsLive, Empty, InQueue, Destroyed, Put
<1>6. Fresh'
  BY <1>0, <1>1 DEF ResourceType, ThreadType, Fresh, SlotsLive, InQueue, Put
<1>7. Locks'
  BY <1>0, <1>1, Nulls DEF ResourceType, ThreadType, Locks, Put
<1>8. Empty'
  BY <1>0, <1>1 DEF ResourceType, ThreadType, Empty, Destroyed, Put
<1>9. Watch'
  BY <1>0, <1>1 DEF ResourceType, ThreadType, Watch, SlotsLive, Fresh, InQueue, Put
<1>10. First'
  <2>1. \A v \in Workers, o \in Objs : Has(v, o)' <=> Has(v, o)
    BY <1>0, <1>1, Nulls DEF Has, ThreadType
  <2>2. \A o \in Objs : obj'[o].loads = obj[o].loads /\ obj'[o].done = obj[o].done
    BY <1>0, <1>1 DEF ResourceType, Put, LikeTo
  <2>3. \A o \in Objs : FirstJob(o) => FirstJob(o)'
    BY <1>1, <2>1, <2>2 DEF FirstJob, HasOne, HasNone, InQueue, OnceInQueue
  <2> QED  BY <1>0, <1>1, <2>2, <2>3 DEF First
<1>11. FreedOk'
  BY <1>0, <1>1 DEF ResourceType, ThreadType, FreedOk, First, Watch, Locks, Fresh, SlotsLive, InQueue, Destroyed, FirstJob, OnceInQueue, Has, HasOne, HasNone, Put
<1>12. NoDone'
  BY <1>0, <1>1 DEF ResourceType, ThreadType, NoDone, Put
<1>13. Lost'
  BY <1>0, <1>1 DEF ResourceType, ThreadType, Lost, SlotsLive, NoDone, Told, Put
<1> QED  BY <1>2, <1>3, <1>4, <1>5, <1>6, <1>7, <1>8, <1>9, <1>10, <1>11, <1>12, <1>13 DEF ResmanInv

LEMMA ReportEffect ==
  ASSUME ResmanInv, NEW w \in Workers, Report(w)
  PROVE  /\ UNCHANGED <<conf, slot, obj, block, lock, queue, mpc, i, event>>
         /\ wpc[w] = "report" /\ wpc' = [wpc EXCEPT ![w] = "idle"]
         /\ wobj' = [wobj EXCEPT ![w] = NULL] /\ wake' = TRUE
BY DEF Report, shared, main, files

LEMMA ReportStep ==
  ASSUME ResmanInv, NEW w \in Workers, Report(w)
  PROVE  ResmanInv'
<1>0. /\ ResourceType /\ ThreadType /\ SlotsLive /\ Covered /\ Fresh /\ Locks /\ Empty
      /\ Watch /\ First /\ FreedOk /\ NoDone /\ Lost
  BY DEF ResmanInv
<1>1. /\ UNCHANGED <<conf, slot, obj, block, lock, queue, mpc, i, event>>
      /\ wpc[w] = "report" /\ wpc' = [wpc EXCEPT ![w] = "idle"]
      /\ wobj' = [wobj EXCEPT ![w] = NULL] /\ wake' = TRUE
  BY ReportEffect
<1>2. ResourceType'
  BY <1>0, <1>1 DEF ResourceType, ThreadType, Put
<1>3. ThreadType'
  BY <1>0, <1>1 DEF ResourceType, ThreadType, WorkerLabels, MainLabels, Put
<1>4. SlotsLive'
  BY <1>0, <1>1 DEF ResourceType, ThreadType, SlotsLive, Put
<1>5. Covered'
  BY <1>0, <1>1 DEF ResourceType, ThreadType, Covered, SlotsLive, Empty, InQueue, Destroyed, Put
<1>6. Fresh'
  BY <1>0, <1>1, Nulls DEF ResourceType, ThreadType, Fresh, SlotsLive, InQueue, Put
<1>7. Locks'
  BY <1>0, <1>1 DEF ResourceType, ThreadType, Locks, Put
<1>8. Empty'
  BY <1>0, <1>1 DEF ResourceType, ThreadType, Empty, Destroyed, Put
<1>9. Watch'
  BY <1>0, <1>1 DEF ResourceType, ThreadType, Watch, SlotsLive, Fresh, InQueue, Put
<1>10. First'
  <2>1. \A v \in Workers, o \in Objs : Has(v, o)' <=> Has(v, o)
    BY <1>0, <1>1, Nulls DEF Has, ThreadType
  <2>2. \A o \in Objs : obj'[o].loads = obj[o].loads /\ obj'[o].done = obj[o].done
    BY <1>0, <1>1 DEF ResourceType, Put, LikeTo
  <2>3. \A o \in Objs : FirstJob(o) => FirstJob(o)'
    BY <1>1, <2>1, <2>2 DEF FirstJob, HasOne, HasNone, InQueue, OnceInQueue
  <2> QED  BY <1>0, <1>1, <2>2, <2>3 DEF First
<1>11. FreedOk'
  BY <1>0, <1>1, Nulls DEF ResourceType, ThreadType, FreedOk, First, Watch, Locks, Fresh, SlotsLive, InQueue, Destroyed, FirstJob, OnceInQueue, Has, HasOne, HasNone, Put
<1>12. NoDone'
  BY <1>0, <1>1 DEF ResourceType, ThreadType, NoDone, Put
<1>13. Lost'
  BY <1>0, <1>1 DEF ResourceType, ThreadType, Lost, SlotsLive, NoDone, Told, Put
<1> QED  BY <1>2, <1>3, <1>4, <1>5, <1>6, <1>7, <1>8, <1>9, <1>10, <1>11, <1>12, <1>13 DEF ResmanInv

LEMMA AddEffect ==
  ASSUME ResmanInv, NEW n \in Names, NEW o \in Objs, Add(n, o)
  PROVE  /\ UNCHANGED <<conf, lock, wpc, wobj, mpc, i, event, wake>>
         /\ mpc = "idle" /\ block[o] = "unused" /\ block' = [block EXCEPT ![o] = "live"]
         /\ \A k \in 1..Len(slot) : slot[k] # NULL /\ obj[slot[k]].name # n
         /\ slot' \in Seq(Objs \cup {NULL}) /\ Len(slot) \in Nat /\ Len(slot') = Len(slot) + 1
         /\ \A k \in 1..Len(slot) : slot'[k] = slot[k]
         /\ slot'[Len(slot) + 1] = o
         /\ queue' \in Seq(Objs) /\ Len(queue) \in Nat /\ Len(queue') = Len(queue) + 1
         /\ \A k \in 1..Len(queue) : queue'[k] = queue[k]
         /\ queue'[Len(queue) + 1] = o
         /\ \E r : /\ Put(o, r) /\ r.name = n /\ r.pending /\ ~r.done /\ ~r.del
                   /\ r.loads = 0 /\ r.timer = "off" /\ r.watch = "off" /\ ~r.asked
<1>1. slot \in Seq(Objs \cup {NULL}) /\ queue \in Seq(Objs) /\ o \in Objs \cup {NULL}
  BY DEF ResmanInv, ResourceType
<1>2. /\ slot' \in Seq(Objs \cup {NULL}) /\ Len(slot) \in Nat /\ Len(slot') = Len(slot) + 1
      /\ \A k \in 1..Len(slot) : slot'[k] = slot[k]
      /\ slot'[Len(slot) + 1] = o
  BY <1>1, AppendFacts DEF Add
<1>3. /\ queue' \in Seq(Objs) /\ Len(queue) \in Nat /\ Len(queue') = Len(queue) + 1
      /\ \A k \in 1..Len(queue) : queue'[k] = queue[k]
      /\ queue'[Len(queue) + 1] = o
  BY <1>1, AppendFacts DEF Add
<1> DEFINE r == [NewRes(n) EXCEPT !.pending = TRUE]
<1>4. /\ r \in Resource /\ r.name = n /\ r.pending /\ ~r.done /\ ~r.del
      /\ r.loads = 0 /\ r.timer = "off" /\ r.watch = "off" /\ ~r.asked
  BY DEF NewRes, Resource
<1>5. Put(o, r)
  BY <1>4 DEF Put, Add
<1>6. \A k \in 1..Len(slot) : slot[k] # NULL /\ obj[slot[k]].name # n
  BY DEF Add, Stops, Ids
<1> HIDE DEF r
<1> QED  BY <1>2, <1>3, <1>4, <1>5, <1>6 DEF Add, Call, worker, main, files

LEMMA AddStep ==
  ASSUME ResmanInv, NEW n \in Names, NEW o \in Objs, Add(n, o)
  PROVE  ResmanInv'
<1>0. /\ ResourceType /\ ThreadType /\ SlotsLive /\ Covered /\ Fresh /\ Locks /\ Empty
      /\ Watch /\ First /\ FreedOk /\ NoDone /\ Lost
  BY DEF ResmanInv
<1>1. /\ UNCHANGED <<conf, lock, wpc, wobj, mpc, i, event, wake>>
      /\ mpc = "idle" /\ block[o] = "unused" /\ block' = [block EXCEPT ![o] = "live"]
      /\ \A k \in 1..Len(slot) : slot[k] # NULL /\ obj[slot[k]].name # n
      /\ slot' \in Seq(Objs \cup {NULL}) /\ Len(slot) \in Nat /\ Len(slot') = Len(slot) + 1
      /\ \A k \in 1..Len(slot) : slot'[k] = slot[k]
      /\ slot'[Len(slot) + 1] = o
      /\ queue' \in Seq(Objs) /\ Len(queue) \in Nat /\ Len(queue') = Len(queue) + 1
      /\ \A k \in 1..Len(queue) : queue'[k] = queue[k]
      /\ queue'[Len(queue) + 1] = o
      /\ \E r : /\ Put(o, r) /\ r.name = n /\ r.pending /\ ~r.done /\ ~r.del
                /\ r.loads = 0 /\ r.timer = "off" /\ r.watch = "off" /\ ~r.asked
  BY AddEffect
<1>14. /\ \A p : InQueue(p)' <=> InQueue(p) \/ p = o
       /\ \A p : p # o /\ OnceInQueue(p) => OnceInQueue(p)'
       /\ ~InQueue(o) => OnceInQueue(o)'
  BY <1>1, AppendedQueue
<1>2. ResourceType'
  BY <1>0, <1>1 DEF ResourceType, ThreadType, Put
<1>3. ThreadType'
  BY <1>0, <1>1 DEF ResourceType, ThreadType, WorkerLabels, MainLabels, Put
<1>4. SlotsLive'
  <2>1. \A k \in 1..Len(slot) : slot[k] # o /\ slot[k] \in Objs /\ block[slot[k]] = "live"
    BY <1>0, <1>1 DEF SlotsLive, ResourceType
  <2>2. /\ \A k \in 1..Len(slot') : k \in 1..Len(slot) \/ k = Len(slot) + 1
        /\ Len(slot) + 1 \in 1..Len(slot') /\ 1..Len(slot) \subseteq 1..Len(slot')
    BY <1>1
  <2>3. \A k \in 1..Len(slot') : block'[slot'[k]] = "live"
    BY <1>0, <1>1, <2>1, <2>2 DEF ResourceType
  <2>4. ASSUME NEW p \in Objs, block'[p] = "live" PROVE \E k \in 1..Len(slot') : slot'[k] = p
    <3>1. CASE p = o
      BY <1>1, <2>2, <3>1
    <3>2. CASE p # o
      <4>1. block[p] = "live"
        BY <1>0, <1>1, <2>4, <3>2 DEF ResourceType
      <4> QED  BY <1>0, <1>1, <2>2, <4>1 DEF SlotsLive
    <3> QED  BY <3>1, <3>2
  <2>5. obj'[o].name = n /\ \A k \in 1..Len(slot) : obj'[slot[k]] = obj[slot[k]]
    BY <1>0, <1>1, <2>1 DEF Put, ResourceType
  <2>6. \A k, l \in 1..Len(slot) : obj[slot[k]].name = obj[slot[l]].name => k = l
    BY <1>0, <1>1 DEF SlotsLive
  <2>7. \A k, l \in 1..Len(slot') : obj'[slot'[k]].name = obj'[slot'[l]].name => k = l
    BY <1>1, <2>2, <2>5, <2>6
  <2> QED  BY <2>3, <2>4, <2>7 DEF SlotsLive
<1>5. Covered'
  BY <1>0, <1>1, <1>14 DEF ResourceType, ThreadType, Covered, SlotsLive, Empty, Destroyed, Put
<1>6. Fresh'
  BY <1>0, <1>1, <1>14 DEF ResourceType, ThreadType, Fresh, SlotsLive, Put
<1>7. Locks'
  BY <1>0, <1>1 DEF ResourceType, ThreadType, Locks, Put
<1>8. Empty'
  BY <1>0, <1>1 DEF ResourceType, ThreadType, Empty, Destroyed, Put
<1>9. Watch'
  BY <1>0, <1>1 DEF ResourceType, ThreadType, Watch, SlotsLive, Fresh, Put
<1>10. First'
  BY <1>0, <1>1, <1>14 DEF ResourceType, ThreadType, First, Watch, Fresh, Empty, FirstJob, Has, HasOne, HasNone, Destroyed, Put
<1>11. FreedOk'
  BY <1>0, <1>1, <1>14 DEF ResourceType, ThreadType, FreedOk, First, Watch, Locks, Fresh, SlotsLive, Destroyed, FirstJob, Has, HasOne, HasNone, Put
<1>12. NoDone'
  BY <1>0, <1>1 DEF ResourceType, ThreadType, NoDone, Put
<1>13. Lost'
  BY <1>0, <1>1 DEF ResourceType, ThreadType, Lost, SlotsLive, NoDone, Told, Put
<1> QED  BY <1>2, <1>3, <1>4, <1>5, <1>6, <1>7, <1>8, <1>9, <1>10, <1>11, <1>12, <1>13 DEF ResmanInv

LEMMA RemoveEffect ==
  ASSUME ResmanInv, NEW k \in Ids, Remove(k)
  PROVE  /\ UNCHANGED <<conf, slot, block, lock, queue, wpc, wobj, mpc, i, event, wake>>
         /\ slot[k] \in Objs /\ block[slot[k]] = "live"
         /\ \E r : /\ Put(slot[k], r) /\ r.asked
                   /\ r.name = obj[slot[k]].name /\ r.pending = obj[slot[k]].pending /\ r.done = obj[slot[k]].done
                   /\ r.loads = obj[slot[k]].loads /\ r.timer = obj[slot[k]].timer /\ r.watch = obj[slot[k]].watch
<1>1. slot[k] \in Objs /\ obj[slot[k]] \in Resource /\ obj \in [Objs -> Resource \cup {NULL}]
  BY DEF ResmanInv, ResourceType, ThreadType, Remove, SlotsLive, Ids
<1> DEFINE r == [obj[slot[k]] EXCEPT !.del = TRUE, !.asked = TRUE]
<1>2. obj' = [obj EXCEPT ![slot[k]] = r]
  BY <1>1 DEF Remove, Set
<1>3. /\ r \in Resource /\ r.asked
      /\ r.name = obj[slot[k]].name /\ r.pending = obj[slot[k]].pending /\ r.done = obj[slot[k]].done /\ r.loads = obj[slot[k]].loads
      /\ r.timer = obj[slot[k]].timer /\ r.watch = obj[slot[k]].watch
  BY <1>1 DEF Resource
<1>4. Put(slot[k], r)
  BY <1>1, <1>2, <1>3 DEF Put
<1> HIDE DEF r
<1> QED  BY <1>1, <1>3, <1>4 DEF Remove, worker, main, files, ResmanInv, SlotsLive, Ids

LEMMA RemoveStep ==
  ASSUME ResmanInv, NEW k \in Ids, Remove(k)
  PROVE  ResmanInv'
<1>0. /\ ResourceType /\ ThreadType /\ SlotsLive /\ Covered /\ Fresh /\ Locks /\ Empty
      /\ Watch /\ First /\ FreedOk /\ NoDone /\ Lost
  BY DEF ResmanInv
<1>1. /\ UNCHANGED <<conf, slot, block, lock, queue, wpc, wobj, mpc, i, event, wake>>
      /\ slot[k] \in Objs /\ block[slot[k]] = "live"
      /\ \E r : /\ Put(slot[k], r) /\ r.asked
                /\ r.name = obj[slot[k]].name /\ r.pending = obj[slot[k]].pending /\ r.done = obj[slot[k]].done
                /\ r.loads = obj[slot[k]].loads /\ r.timer = obj[slot[k]].timer /\ r.watch = obj[slot[k]].watch
  BY RemoveEffect
<1>2. ResourceType'
  BY <1>0, <1>1 DEF ResourceType, ThreadType, Put
<1>3. ThreadType'
  BY <1>0, <1>1 DEF ResourceType, ThreadType, WorkerLabels, MainLabels, Put
<1>4. SlotsLive'
  BY <1>0, <1>1 DEF ResourceType, ThreadType, SlotsLive, Put
<1>5. Covered'
  BY <1>0, <1>1 DEF ResourceType, ThreadType, Covered, SlotsLive, Empty, InQueue, Destroyed, Put
<1>6. Fresh'
  BY <1>0, <1>1 DEF ResourceType, ThreadType, Fresh, SlotsLive, InQueue, Put
<1>7. Locks'
  BY <1>0, <1>1 DEF ResourceType, ThreadType, Locks, Put
<1>8. Empty'
  BY <1>0, <1>1 DEF ResourceType, ThreadType, Empty, Destroyed, Put
<1>9. Watch'
  BY <1>0, <1>1 DEF ResourceType, ThreadType, Watch, SlotsLive, Fresh, InQueue, Put
<1>10. First'
  BY <1>0, <1>1 DEF ResourceType, ThreadType, First, Watch, Fresh, Empty, FirstJob, InQueue, OnceInQueue, Has, HasOne, HasNone, Destroyed, Put
<1>11. FreedOk'
  BY <1>0, <1>1 DEF ResourceType, ThreadType, FreedOk, First, Watch, Locks, Fresh, SlotsLive, InQueue, Destroyed, FirstJob, OnceInQueue, Has, HasOne, HasNone, Put
<1>12. NoDone'
  BY <1>0, <1>1 DEF ResourceType, ThreadType, NoDone, Put
<1>13. Lost'
  BY <1>0, <1>1 DEF ResourceType, ThreadType, Lost, SlotsLive, NoDone, Told, Put
<1> QED  BY <1>2, <1>3, <1>4, <1>5, <1>6, <1>7, <1>8, <1>9, <1>10, <1>11, <1>12, <1>13 DEF ResmanInv

LEMMA SweepEffect ==
  ASSUME ResmanInv, Sweep
  PROVE  /\ UNCHANGED <<conf, obj, lock, queue, wpc, wobj, mpc, event, wake>>
         /\ mpc = "sweep" /\ i' = i + 1
         /\ \/ UNCHANGED <<slot, block>>
            \/ /\ i \in 1..Len(slot) /\ slot[i] \in Objs
               /\ obj[slot[i]].del /\ ~obj[slot[i]].pending
               /\ slot' \in Seq(Objs \cup {NULL}) /\ Len(slot') = Len(slot)
               /\ \A k \in 1..Len(slot) : slot'[k] = IF k = i THEN NULL ELSE slot[k]
               /\ block' = [block EXCEPT ![slot[i]] = "freed"]
<1>1. slot \in Seq(Objs \cup {NULL}) /\ NULL \in Objs \cup {NULL}
  BY DEF ResmanInv, ResourceType
<1>2. i \in 1..Len(slot)
  BY DEF Sweep, Ids
<1>3. CASE UNCHANGED <<slot, block>>
  BY <1>3 DEF Sweep, NextIndex, worker, files
<1>4. CASE /\ slot[i] # NULL /\ obj[slot[i]].del /\ ~obj[slot[i]].pending
           /\ slot' = [slot EXCEPT ![i] = NULL] /\ block' = [block EXCEPT ![slot[i]] = "freed"]
  <2>1. slot' \in Seq(Objs \cup {NULL}) /\ Len(slot') = Len(slot)
        /\ \A k \in 1..Len(slot) : slot'[k] = IF k = i THEN NULL ELSE slot[k]
    BY <1>1, <1>2, <1>4, ExceptSeq
  <2>2. slot[i] \in Objs
    BY <1>1, <1>2, <1>4
  <2> QED  BY <1>2, <1>4, <2>1, <2>2 DEF Sweep, NextIndex, worker, files
<1> QED  BY <1>3, <1>4 DEF Sweep, RemoveResource, Deletable

LEMMA SweepStep ==
  ASSUME ResmanInv, Sweep
  PROVE  ResmanInv'
<1>0. /\ ResourceType /\ ThreadType /\ SlotsLive /\ Covered /\ Fresh /\ Locks /\ Empty
      /\ Watch /\ First /\ FreedOk /\ NoDone /\ Lost
  BY DEF ResmanInv
<1>1. /\ UNCHANGED <<conf, obj, lock, queue, wpc, wobj, mpc, event, wake>>
      /\ mpc = "sweep" /\ i' = i + 1
      /\ \/ UNCHANGED <<slot, block>>
         \/ /\ i \in 1..Len(slot) /\ slot[i] \in Objs
            /\ obj[slot[i]].del /\ ~obj[slot[i]].pending
            /\ slot' \in Seq(Objs \cup {NULL}) /\ Len(slot') = Len(slot)
            /\ \A k \in 1..Len(slot) : slot'[k] = IF k = i THEN NULL ELSE slot[k]
            /\ block' = [block EXCEPT ![slot[i]] = "freed"]
  BY SweepEffect
<1>2. ResourceType'
  <2>1. CASE UNCHANGED <<slot, block>>
    BY <1>0, <1>1, <2>1 DEF ResourceType
  <2>2. CASE ~UNCHANGED <<slot, block>>
    <3>1. slot[i] \in Objs /\ block[slot[i]] = "live" /\ obj[slot[i]] \in Resource
      BY <1>0, <1>1, <2>2, Nulls DEF SlotsLive, ResourceType
    <3>2. block' \in [Objs -> {"unused", "live", "freed"}]
      BY <1>0, <1>1, <2>2, <3>1 DEF ResourceType
    <3>3. \A o \in Objs : block'[o] # "unused" => obj[o] \in Resource
      BY <1>0, <1>1, <2>2, <3>1 DEF ResourceType
    <3> QED  BY <1>0, <1>1, <2>2, <3>2, <3>3 DEF ResourceType
  <2> QED  BY <2>1, <2>2
<1>3. ThreadType'
  BY <1>0, <1>1 DEF ResourceType, ThreadType, WorkerLabels, MainLabels, Put
<1>4. SlotsLive'
  <2>1. CASE UNCHANGED <<slot, block>>
    BY <1>0, <1>1, <2>1 DEF SlotsLive
  <2>2. CASE ~UNCHANGED <<slot, block>>
    BY <1>0, <1>1, <2>2, ErasedSlots
  <2> QED  BY <2>1, <2>2
<1>5. Covered'
  BY <1>0, <1>1 DEF ResourceType, ThreadType, Covered, SlotsLive, Empty, InQueue, Destroyed, Put
<1>6. Fresh'
  BY <1>0, <1>1 DEF ResourceType, ThreadType, Fresh, SlotsLive, InQueue, Put
<1>7. Locks'
  BY <1>0, <1>1 DEF ResourceType, ThreadType, Locks, Put
<1>8. Empty'
  BY <1>0, <1>1 DEF ResourceType, ThreadType, Empty, Destroyed, Put
<1>9. Watch'
  BY <1>0, <1>1 DEF ResourceType, ThreadType, Watch, SlotsLive, Fresh, InQueue, Put
<1>10. First'
  BY <1>0, <1>1 DEF ResourceType, ThreadType, First, Watch, Fresh, Empty, FirstJob, InQueue, OnceInQueue, Has, HasOne, HasNone, Destroyed, Put
<1>11. FreedOk'
  BY <1>0, <1>1 DEF ResourceType, ThreadType, FreedOk, First, Watch, Locks, Fresh, SlotsLive, InQueue, Destroyed, FirstJob, OnceInQueue, Has, HasOne, HasNone, Put
<1>12. NoDone'
  BY <1>0, <1>1 DEF ResourceType, ThreadType, NoDone, Put
<1>13. Lost'
  BY <1>0, <1>1 DEF ResourceType, ThreadType, Lost, SlotsLive, NoDone, Told, Put
<1> QED  BY <1>2, <1>3, <1>4, <1>5, <1>6, <1>7, <1>8, <1>9, <1>10, <1>11, <1>12, <1>13 DEF ResmanInv

LEMMA ModifiedEffect ==
  ASSUME ResmanInv, Modified
  PROVE  /\ UNCHANGED <<conf, slot, block, lock, queue, wpc, wobj, i, wake>> /\ event' = NULL
         /\ mpc = "sweep" /\ mpc' = "drain" /\ event.obj \in Objs
         /\ block[event.obj] = "live" /\ obj[event.obj].watch = "on"
         /\ \E r : /\ Put(event.obj, r) /\ TRUE
                   /\ r.name = obj[event.obj].name /\ r.pending = obj[event.obj].pending /\ r.done = obj[event.obj].done /\ r.del = obj[event.obj].del
                   /\ r.loads = obj[event.obj].loads /\ r.watch = obj[event.obj].watch /\ r.asked = obj[event.obj].asked
<1>0. event \in [obj : Objs, kind : {"modified", "replaced", "deleted"}] /\ block[event.obj] = "live"
  BY DEF ResmanInv, ThreadType, Modified, Watched
<1>1. event.obj \in Objs /\ obj[event.obj] \in Resource /\ obj \in [Objs -> Resource \cup {NULL}]
  BY <1>0 DEF ResmanInv, ResourceType
<1> DEFINE r == [obj[event.obj] EXCEPT !.timer = "armed"]
<1>2. obj' = [obj EXCEPT ![event.obj] = r]
  BY <1>1 DEF Modified, Set
<1>3. /\ r \in Resource /\ TRUE
      /\ r.name = obj[event.obj].name /\ r.pending = obj[event.obj].pending /\ r.done = obj[event.obj].done /\ r.del = obj[event.obj].del
      /\ r.loads = obj[event.obj].loads /\ r.watch = obj[event.obj].watch /\ r.asked = obj[event.obj].asked
  BY <1>1 DEF Resource
<1>4. Put(event.obj, r)
  BY <1>1, <1>2, <1>3 DEF Put
<1> HIDE DEF r
<1> QED  BY <1>0, <1>1, <1>3, <1>4 DEF Modified, CheckWatch, Watched, MainGoto, worker

LEMMA ModifiedStep ==
  ASSUME ResmanInv, Modified
  PROVE  ResmanInv'
<1>0. /\ ResourceType /\ ThreadType /\ SlotsLive /\ Covered /\ Fresh /\ Locks /\ Empty
      /\ Watch /\ First /\ FreedOk /\ NoDone /\ Lost
  BY DEF ResmanInv
<1>1. /\ UNCHANGED <<conf, slot, block, lock, queue, wpc, wobj, i, wake>> /\ event' = NULL
      /\ mpc = "sweep" /\ mpc' = "drain" /\ event.obj \in Objs
      /\ block[event.obj] = "live" /\ obj[event.obj].watch = "on"
      /\ \E r : /\ Put(event.obj, r) /\ TRUE
                /\ r.name = obj[event.obj].name /\ r.pending = obj[event.obj].pending /\ r.done = obj[event.obj].done /\ r.del = obj[event.obj].del
                /\ r.loads = obj[event.obj].loads /\ r.watch = obj[event.obj].watch /\ r.asked = obj[event.obj].asked
  BY ModifiedEffect
<1>2. ResourceType'
  BY <1>0, <1>1 DEF ResourceType, ThreadType, Put
<1>3. ThreadType'
  BY <1>0, <1>1 DEF ResourceType, ThreadType, WorkerLabels, MainLabels, Put
<1>4. SlotsLive'
  BY <1>0, <1>1 DEF ResourceType, ThreadType, SlotsLive, Put
<1>5. Covered'
  BY <1>0, <1>1 DEF ResourceType, ThreadType, Covered, SlotsLive, Empty, InQueue, Destroyed, Put
<1>6. Fresh'
  BY <1>0, <1>1 DEF ResourceType, ThreadType, Fresh, SlotsLive, InQueue, Put
<1>7. Locks'
  BY <1>0, <1>1 DEF ResourceType, ThreadType, Locks, Put
<1>8. Empty'
  BY <1>0, <1>1 DEF ResourceType, ThreadType, Empty, Destroyed, Put
<1>9. Watch'
  BY <1>0, <1>1 DEF ResourceType, ThreadType, Watch, SlotsLive, Fresh, InQueue, Put
<1>10. First'
  BY <1>0, <1>1 DEF ResourceType, ThreadType, First, Watch, Fresh, Empty, FirstJob, InQueue, OnceInQueue, Has, HasOne, HasNone, Destroyed, Put
<1>11. FreedOk'
  BY <1>0, <1>1 DEF ResourceType, ThreadType, FreedOk, First, Watch, Locks, Fresh, SlotsLive, InQueue, Destroyed, FirstJob, OnceInQueue, Has, HasOne, HasNone, Put
<1>12. NoDone'
  BY <1>0, <1>1 DEF ResourceType, ThreadType, NoDone, Put
<1>13. Lost'
  BY <1>0, <1>1 DEF ResourceType, ThreadType, Lost, SlotsLive, NoDone, Told, Put
<1> QED  BY <1>2, <1>3, <1>4, <1>5, <1>6, <1>7, <1>8, <1>9, <1>10, <1>11, <1>12, <1>13 DEF ResmanInv

LEMMA ReplacedEffect ==
  ASSUME ResmanInv, Replaced
  PROVE  /\ UNCHANGED <<conf, slot, block, lock, wpc, wobj, i, wake>> /\ event' = NULL
         /\ mpc = "sweep" /\ mpc' = "drain" /\ event.obj \in Objs
         /\ block[event.obj] = "live" /\ obj[event.obj].watch = "on"
         /\ queue' \in Seq(Objs) /\ Len(queue) \in Nat /\ Len(queue') = Len(queue) + 1
         /\ \A k \in 1..Len(queue) : queue'[k] = queue[k]
         /\ queue'[Len(queue) + 1] = event.obj
         /\ \E r : /\ Put(event.obj, r) /\ TRUE
                   /\ r.name = obj[event.obj].name /\ r.done = obj[event.obj].done /\ r.del = obj[event.obj].del
                   /\ r.loads = obj[event.obj].loads /\ r.timer = obj[event.obj].timer /\ r.watch = obj[event.obj].watch /\ r.asked = obj[event.obj].asked
<1>0. event \in [obj : Objs, kind : {"modified", "replaced", "deleted"}] /\ block[event.obj] = "live"
  BY DEF ResmanInv, ThreadType, Replaced, Watched
<1>1. event.obj \in Objs /\ obj[event.obj] \in Resource /\ obj \in [Objs -> Resource \cup {NULL}]
  BY <1>0 DEF ResmanInv, ResourceType
<1> DEFINE r == [obj[event.obj] EXCEPT !.pending = TRUE]
<1>2. obj' = [obj EXCEPT ![event.obj] = r]
  BY <1>1 DEF Replaced, Set
<1>3. /\ r \in Resource /\ TRUE
      /\ r.name = obj[event.obj].name /\ r.done = obj[event.obj].done /\ r.del = obj[event.obj].del /\ r.loads = obj[event.obj].loads
      /\ r.timer = obj[event.obj].timer /\ r.watch = obj[event.obj].watch /\ r.asked = obj[event.obj].asked
  BY <1>1 DEF Resource
<1>4. Put(event.obj, r)
  BY <1>1, <1>2, <1>3 DEF Put
<1>5. /\ queue' \in Seq(Objs) /\ Len(queue) \in Nat /\ Len(queue') = Len(queue) + 1
      /\ \A k \in 1..Len(queue) : queue'[k] = queue[k]
      /\ queue'[Len(queue) + 1] = event.obj
  BY <1>1, AppendFacts DEF Replaced, ResmanInv, ResourceType
<1> HIDE DEF r
<1> QED  BY <1>0, <1>1, <1>3, <1>4, <1>5 DEF Replaced, CheckWatch, Watched, MainGoto, worker

LEMMA ReplacedStep ==
  ASSUME ResmanInv, Replaced
  PROVE  ResmanInv'
<1>0. /\ ResourceType /\ ThreadType /\ SlotsLive /\ Covered /\ Fresh /\ Locks /\ Empty
      /\ Watch /\ First /\ FreedOk /\ NoDone /\ Lost
  BY DEF ResmanInv
<1>1. /\ UNCHANGED <<conf, slot, block, lock, wpc, wobj, i, wake>> /\ event' = NULL
      /\ mpc = "sweep" /\ mpc' = "drain" /\ event.obj \in Objs
      /\ block[event.obj] = "live" /\ obj[event.obj].watch = "on"
      /\ queue' \in Seq(Objs) /\ Len(queue) \in Nat /\ Len(queue') = Len(queue) + 1
      /\ \A k \in 1..Len(queue) : queue'[k] = queue[k]
      /\ queue'[Len(queue) + 1] = event.obj
      /\ \E r : /\ Put(event.obj, r) /\ TRUE
                /\ r.name = obj[event.obj].name /\ r.done = obj[event.obj].done /\ r.del = obj[event.obj].del
                /\ r.loads = obj[event.obj].loads /\ r.timer = obj[event.obj].timer /\ r.watch = obj[event.obj].watch /\ r.asked = obj[event.obj].asked
  BY ReplacedEffect
<1>15. PICK e \in Objs : e = event.obj
  BY <1>1
<1>14. /\ \A p : InQueue(p)' <=> InQueue(p) \/ p = e
       /\ \A p : p # e /\ OnceInQueue(p) => OnceInQueue(p)'
       /\ ~InQueue(e) => OnceInQueue(e)'
  BY <1>1, <1>15, AppendedQueue
<1>2. ResourceType'
  BY <1>0, <1>1 DEF ResourceType, ThreadType, Put
<1>3. ThreadType'
  BY <1>0, <1>1 DEF ResourceType, ThreadType, WorkerLabels, MainLabels, Put
<1>4. SlotsLive'
  BY <1>0, <1>1 DEF ResourceType, ThreadType, SlotsLive, Put
<1>5. Covered'
  BY <1>0, <1>1, <1>14, <1>15 DEF ResourceType, ThreadType, Covered, SlotsLive, Empty, Destroyed, Put
<1>6. Fresh'
  BY <1>0, <1>1, <1>14, <1>15 DEF ResourceType, ThreadType, Fresh, SlotsLive, Put
<1>7. Locks'
  BY <1>0, <1>1 DEF ResourceType, ThreadType, Locks, Put
<1>8. Empty'
  BY <1>0, <1>1 DEF ResourceType, ThreadType, Empty, Destroyed, Put
<1>9. Watch'
  BY <1>0, <1>1 DEF ResourceType, ThreadType, Watch, SlotsLive, Fresh, Put
<1>10. First'
  BY <1>0, <1>1, <1>14, <1>15 DEF ResourceType, ThreadType, First, Watch, Fresh, Empty, FirstJob, Has, HasOne, HasNone, Destroyed, Put
<1>11. FreedOk'
  BY <1>0, <1>1, <1>14, <1>15 DEF ResourceType, ThreadType, FreedOk, First, Watch, Locks, Fresh, SlotsLive, Destroyed, FirstJob, Has, HasOne, HasNone, Put
<1>12. NoDone'
  BY <1>0, <1>1 DEF ResourceType, ThreadType, NoDone, Put
<1>13. Lost'
  BY <1>0, <1>1 DEF ResourceType, ThreadType, Lost, SlotsLive, NoDone, Told, Put
<1> QED  BY <1>2, <1>3, <1>4, <1>5, <1>6, <1>7, <1>8, <1>9, <1>10, <1>11, <1>12, <1>13 DEF ResmanInv

LEMMA DeletedEffect ==
  ASSUME ResmanInv, Deleted
  PROVE  /\ UNCHANGED <<conf, slot, block, lock, queue, wpc, wobj, i, wake>> /\ event' = NULL
         /\ mpc = "sweep" /\ mpc' = "drain" /\ event.obj \in Objs
         /\ block[event.obj] = "live" /\ obj[event.obj].watch = "on"
         /\ \E r : /\ Put(event.obj, r) /\ TRUE
                   /\ r.name = obj[event.obj].name /\ r.pending = obj[event.obj].pending /\ r.done = obj[event.obj].done /\ r.del = obj[event.obj].del
                   /\ r.loads = obj[event.obj].loads /\ r.timer = obj[event.obj].timer /\ r.asked = obj[event.obj].asked
<1>0. event \in [obj : Objs, kind : {"modified", "replaced", "deleted"}] /\ block[event.obj] = "live"
  BY DEF ResmanInv, ThreadType, Deleted, Watched
<1>1. event.obj \in Objs /\ obj[event.obj] \in Resource /\ obj \in [Objs -> Resource \cup {NULL}]
  BY <1>0 DEF ResmanInv, ResourceType
<1> DEFINE r == [obj[event.obj] EXCEPT !.watch = "dropped"]
<1>2. obj' = [obj EXCEPT ![event.obj] = r]
  BY <1>1 DEF Deleted, Set
<1>3. /\ r \in Resource /\ TRUE
      /\ r.name = obj[event.obj].name /\ r.pending = obj[event.obj].pending /\ r.done = obj[event.obj].done /\ r.del = obj[event.obj].del
      /\ r.loads = obj[event.obj].loads /\ r.timer = obj[event.obj].timer /\ r.asked = obj[event.obj].asked
  BY <1>1 DEF Resource
<1>4. Put(event.obj, r)
  BY <1>1, <1>2, <1>3 DEF Put
<1> HIDE DEF r
<1> QED  BY <1>0, <1>1, <1>3, <1>4 DEF Deleted, CheckWatch, Watched, MainGoto, worker

LEMMA DeletedStep ==
  ASSUME ResmanInv, Deleted
  PROVE  ResmanInv'
<1>0. /\ ResourceType /\ ThreadType /\ SlotsLive /\ Covered /\ Fresh /\ Locks /\ Empty
      /\ Watch /\ First /\ FreedOk /\ NoDone /\ Lost
  BY DEF ResmanInv
<1>1. /\ UNCHANGED <<conf, slot, block, lock, queue, wpc, wobj, i, wake>> /\ event' = NULL
      /\ mpc = "sweep" /\ mpc' = "drain" /\ event.obj \in Objs
      /\ block[event.obj] = "live" /\ obj[event.obj].watch = "on"
      /\ \E r : /\ Put(event.obj, r) /\ TRUE
                /\ r.name = obj[event.obj].name /\ r.pending = obj[event.obj].pending /\ r.done = obj[event.obj].done /\ r.del = obj[event.obj].del
                /\ r.loads = obj[event.obj].loads /\ r.timer = obj[event.obj].timer /\ r.asked = obj[event.obj].asked
  BY DeletedEffect
<1>2. ResourceType'
  BY <1>0, <1>1 DEF ResourceType, ThreadType, Put
<1>3. ThreadType'
  BY <1>0, <1>1 DEF ResourceType, ThreadType, WorkerLabels, MainLabels, Put
<1>4. SlotsLive'
  BY <1>0, <1>1 DEF ResourceType, ThreadType, SlotsLive, Put
<1>5. Covered'
  BY <1>0, <1>1 DEF ResourceType, ThreadType, Covered, SlotsLive, Empty, InQueue, Destroyed, Put
<1>6. Fresh'
  BY <1>0, <1>1 DEF ResourceType, ThreadType, Fresh, SlotsLive, InQueue, Put
<1>7. Locks'
  BY <1>0, <1>1 DEF ResourceType, ThreadType, Locks, Put
<1>8. Empty'
  BY <1>0, <1>1 DEF ResourceType, ThreadType, Empty, Destroyed, Put
<1>9. Watch'
  BY <1>0, <1>1 DEF ResourceType, ThreadType, Watch, SlotsLive, Fresh, InQueue, Put
<1>10. First'
  BY <1>0, <1>1 DEF ResourceType, ThreadType, First, Watch, Fresh, Empty, FirstJob, InQueue, OnceInQueue, Has, HasOne, HasNone, Destroyed, Put
<1>11. FreedOk'
  BY <1>0, <1>1 DEF ResourceType, ThreadType, FreedOk, First, Watch, Locks, Fresh, SlotsLive, InQueue, Destroyed, FirstJob, OnceInQueue, Has, HasOne, HasNone, Put
<1>12. NoDone'
  BY <1>0, <1>1 DEF ResourceType, ThreadType, NoDone, Put
<1>13. Lost'
  BY <1>0, <1>1 DEF ResourceType, ThreadType, Lost, SlotsLive, NoDone, Told, Put
<1> QED  BY <1>2, <1>3, <1>4, <1>5, <1>6, <1>7, <1>8, <1>9, <1>10, <1>11, <1>12, <1>13 DEF ResmanInv

LEMMA ScanReloadEffect ==
  ASSUME ResmanInv, NEW o \in Objs, ScanReload(o)
  PROVE  /\ UNCHANGED <<conf, lock, wpc, wobj, event, wake>>
         /\ mpc = "scan" /\ i \in 1..Len(slot) /\ slot[i] = o /\ lock[o] = NULL /\ block[o] = "live"
         /\ UNCHANGED <<slot, block, mpc>> /\ i' = i + 1
         /\ ~obj[o].done /\ obj[o].timer # "off"
         /\ queue' \in Seq(Objs) /\ Len(queue) \in Nat /\ Len(queue') = Len(queue) + 1
         /\ \A k \in 1..Len(queue) : queue'[k] = queue[k]
         /\ queue'[Len(queue) + 1] = o
         /\ \E r : /\ Put(o, r) /\ TRUE
                   /\ r.name = obj[o].name /\ r.done = obj[o].done /\ r.del = obj[o].del
                   /\ r.loads = obj[o].loads /\ r.watch = obj[o].watch /\ r.asked = obj[o].asked
<1>0. i \in 1..Len(slot) /\ slot[i] = o /\ block[o] = "live"
  BY DEF ResmanInv, SlotsLive, ScanReload, Scan, Ids
<1>1. o \in Objs /\ obj[o] \in Resource /\ obj \in [Objs -> Resource \cup {NULL}]
  BY <1>0 DEF ResmanInv, ResourceType
<1> DEFINE r == [obj[o] EXCEPT !.timer = "off", !.pending = TRUE]
<1>2. obj' = [obj EXCEPT ![o] = r]
  BY <1>1 DEF ScanReload, Set
<1>3. /\ r \in Resource /\ TRUE
      /\ r.name = obj[o].name /\ r.done = obj[o].done /\ r.del = obj[o].del /\ r.loads = obj[o].loads
      /\ r.watch = obj[o].watch /\ r.asked = obj[o].asked
  BY <1>1 DEF Resource
<1>4. Put(o, r)
  BY <1>1, <1>2, <1>3 DEF Put
<1>5. /\ queue' \in Seq(Objs) /\ Len(queue) \in Nat /\ Len(queue') = Len(queue) + 1
      /\ \A k \in 1..Len(queue) : queue'[k] = queue[k]
      /\ queue'[Len(queue) + 1] = o
  BY <1>1, AppendFacts DEF ScanReload, ResmanInv, ResourceType
<1> HIDE DEF r
<1> QED  BY <1>0, <1>1, <1>3, <1>4, <1>5 DEF ScanReload, Scan, NextIndex, worker, files

LEMMA ScanReloadStep ==
  ASSUME ResmanInv, NEW o \in Objs, ScanReload(o)
  PROVE  ResmanInv'
<1>0. /\ ResourceType /\ ThreadType /\ SlotsLive /\ Covered /\ Fresh /\ Locks /\ Empty
      /\ Watch /\ First /\ FreedOk /\ NoDone /\ Lost
  BY DEF ResmanInv
<1>1. /\ UNCHANGED <<conf, lock, wpc, wobj, event, wake>>
      /\ mpc = "scan" /\ i \in 1..Len(slot) /\ slot[i] = o /\ lock[o] = NULL /\ block[o] = "live"
      /\ UNCHANGED <<slot, block, mpc>> /\ i' = i + 1
      /\ ~obj[o].done /\ obj[o].timer # "off"
      /\ queue' \in Seq(Objs) /\ Len(queue) \in Nat /\ Len(queue') = Len(queue) + 1
      /\ \A k \in 1..Len(queue) : queue'[k] = queue[k]
      /\ queue'[Len(queue) + 1] = o
      /\ \E r : /\ Put(o, r) /\ TRUE
                /\ r.name = obj[o].name /\ r.done = obj[o].done /\ r.del = obj[o].del
                /\ r.loads = obj[o].loads /\ r.watch = obj[o].watch /\ r.asked = obj[o].asked
  BY ScanReloadEffect
<1>14. /\ \A p : InQueue(p)' <=> InQueue(p) \/ p = o
       /\ \A p : p # o /\ OnceInQueue(p) => OnceInQueue(p)'
       /\ ~InQueue(o) => OnceInQueue(o)'
  BY <1>1, AppendedQueue
<1>2. ResourceType'
  BY <1>0, <1>1 DEF ResourceType, ThreadType, Put
<1>3. ThreadType'
  BY <1>0, <1>1 DEF ResourceType, ThreadType, WorkerLabels, MainLabels, Put
<1>4. SlotsLive'
  BY <1>0, <1>1 DEF ResourceType, ThreadType, SlotsLive, Put
<1>5. Covered'
  BY <1>0, <1>1, <1>14 DEF ResourceType, ThreadType, Covered, SlotsLive, Empty, Destroyed, Put
<1>6. Fresh'
  BY <1>0, <1>1, <1>14 DEF ResourceType, ThreadType, Fresh, SlotsLive, Put
<1>7. Locks'
  BY <1>0, <1>1 DEF ResourceType, ThreadType, Locks, Put
<1>8. Empty'
  BY <1>0, <1>1 DEF ResourceType, ThreadType, Empty, Destroyed, Put
<1>9. Watch'
  BY <1>0, <1>1 DEF ResourceType, ThreadType, Watch, SlotsLive, Fresh, Put
<1>10. First'
  BY <1>0, <1>1, <1>14 DEF ResourceType, ThreadType, First, Watch, Fresh, Empty, FirstJob, Has, HasOne, HasNone, Destroyed, Put
<1>11. FreedOk'
  BY <1>0, <1>1, <1>14 DEF ResourceType, ThreadType, FreedOk, First, Watch, Locks, Fresh, SlotsLive, Destroyed, FirstJob, Has, HasOne, HasNone, Put
<1>12. NoDone'
  BY <1>0, <1>1 DEF ResourceType, ThreadType, NoDone, Put
<1>13. Lost'
  BY <1>0, <1>1 DEF ResourceType, ThreadType, Lost, SlotsLive, NoDone, Told, Put
<1> QED  BY <1>2, <1>3, <1>4, <1>5, <1>6, <1>7, <1>8, <1>9, <1>10, <1>11, <1>12, <1>13 DEF ResmanInv

LEMMA ScanFailedEffect ==
  ASSUME ResmanInv, NEW o \in Objs, ScanFailed(o)
  PROVE  /\ UNCHANGED <<conf, lock, wpc, wobj, event, wake>>
         /\ mpc = "scan" /\ i \in 1..Len(slot) /\ slot[i] = o /\ lock[o] = NULL /\ block[o] = "live"
         /\ UNCHANGED <<queue, mpc>> /\ i' = i + 1
         /\ obj[o].done /\ obj[o].loads = 0
         /\ \/ ~conf.done_func /\ UNCHANGED <<slot, block>>
            \/ /\ slot' \in Seq(Objs \cup {NULL}) /\ Len(slot') = Len(slot)
               /\ \A k \in 1..Len(slot) : slot'[k] = IF k = i THEN NULL ELSE slot[k]
               /\ block' = [block EXCEPT ![o] = "freed"]
         /\ \E r : /\ Put(o, r) /\ ~r.done
                   /\ r.name = obj[o].name /\ r.pending = obj[o].pending /\ r.del = obj[o].del
                   /\ r.loads = obj[o].loads /\ r.timer = obj[o].timer /\ r.watch = obj[o].watch /\ r.asked = obj[o].asked
<1>0. i \in 1..Len(slot) /\ slot[i] = o /\ block[o] = "live"
  BY DEF ResmanInv, SlotsLive, ScanFailed, Scan, Ids
<1>1. o \in Objs /\ obj[o] \in Resource /\ obj \in [Objs -> Resource \cup {NULL}]
  BY <1>0 DEF ResmanInv, ResourceType
<1> DEFINE r == [obj[o] EXCEPT !.done = FALSE]
<1>2. obj' = [obj EXCEPT ![o] = r]
  BY <1>1 DEF ScanFailed, Set
<1>3. /\ r \in Resource /\ ~r.done
      /\ r.name = obj[o].name /\ r.pending = obj[o].pending /\ r.del = obj[o].del /\ r.loads = obj[o].loads
      /\ r.timer = obj[o].timer /\ r.watch = obj[o].watch /\ r.asked = obj[o].asked
  BY <1>1 DEF Resource
<1>4. Put(o, r)
  BY <1>1, <1>2, <1>3 DEF Put
<1>5. \/ ~conf.done_func /\ UNCHANGED <<slot, block>>
      \/ /\ slot' \in Seq(Objs \cup {NULL}) /\ Len(slot') = Len(slot)
         /\ \A k \in 1..Len(slot) : slot'[k] = IF k = i THEN NULL ELSE slot[k]
         /\ block' = [block EXCEPT ![o] = "freed"]
  <2>1. CASE slot' = [slot EXCEPT ![i] = NULL] /\ block' = [block EXCEPT ![o] = "freed"]
    <3>1. slot \in Seq(Objs \cup {NULL}) /\ NULL \in Objs \cup {NULL}
      BY DEF ResmanInv, ResourceType
    <3> QED  BY <1>0, <2>1, <3>1, ExceptSeq
  <2>2. CASE ~CanStopWatch(obj[o]) /\ UNCHANGED <<slot, block>>
    BY <1>0, <2>2 DEF ResmanInv, Watch, CanStopWatch, ScanFailed
  <2> QED  BY <1>0, <2>1, <2>2 DEF ScanFailed, RemoveResource
<1> HIDE DEF r
<1> QED  BY <1>0, <1>1, <1>3, <1>4, <1>5 DEF ScanFailed, Scan, NextIndex, worker, files

LEMMA ScanFailedStep ==
  ASSUME ResmanInv, NEW o \in Objs, ScanFailed(o)
  PROVE  ResmanInv'
<1>0. /\ ResourceType /\ ThreadType /\ SlotsLive /\ Covered /\ Fresh /\ Locks /\ Empty
      /\ Watch /\ First /\ FreedOk /\ NoDone /\ Lost
  BY DEF ResmanInv
<1>1. /\ UNCHANGED <<conf, lock, wpc, wobj, event, wake>>
      /\ mpc = "scan" /\ i \in 1..Len(slot) /\ slot[i] = o /\ lock[o] = NULL /\ block[o] = "live"
      /\ UNCHANGED <<queue, mpc>> /\ i' = i + 1
      /\ obj[o].done /\ obj[o].loads = 0
      /\ \/ ~conf.done_func /\ UNCHANGED <<slot, block>>
         \/ /\ slot' \in Seq(Objs \cup {NULL}) /\ Len(slot') = Len(slot)
            /\ \A k \in 1..Len(slot) : slot'[k] = IF k = i THEN NULL ELSE slot[k]
            /\ block' = [block EXCEPT ![o] = "freed"]
      /\ \E r : /\ Put(o, r) /\ ~r.done
                /\ r.name = obj[o].name /\ r.pending = obj[o].pending /\ r.del = obj[o].del
                /\ r.loads = obj[o].loads /\ r.timer = obj[o].timer /\ r.watch = obj[o].watch /\ r.asked = obj[o].asked
  BY ScanFailedEffect
<1>2. ResourceType'
  <2>1. /\ conf \in Setups /\ queue \in Seq(Objs) /\ lock \in [Objs -> Workers \cup {NULL}]
        /\ UNCHANGED <<conf, queue, lock>>
    BY <1>0, <1>1 DEF ResourceType
  <2>2. slot' \in Seq(Objs \cup {NULL})
    BY <1>0, <1>1 DEF ResourceType
  <2>3. block' \in [Objs -> {"unused", "live", "freed"}]
        /\ \A p \in Objs : block'[p] # "unused" => block[p] # "unused"
    BY <1>0, <1>1 DEF ResourceType
  <2>4. obj' \in [Objs -> Resource \cup {NULL}]
        /\ \A p \in Objs : obj[p] \in Resource => obj'[p] \in Resource
    BY <1>0, <1>1 DEF ResourceType, Put
  <2> QED  BY <1>0, <2>1, <2>2, <2>3, <2>4 DEF ResourceType
<1>3. ThreadType'
  BY <1>0, <1>1 DEF ResourceType, ThreadType, WorkerLabels, MainLabels, Put
<1>4. SlotsLive'
  <2>1. \A p \in Objs : obj'[p].name = obj[p].name
    BY <1>0, <1>1 DEF ResourceType, Put
  <2>2. CASE UNCHANGED <<slot, block>>
    BY <1>0, <1>1, <2>1, <2>2 DEF SlotsLive, ResourceType
  <2>3. CASE ~UNCHANGED <<slot, block>>
    BY <1>0, <1>1, <2>1, <2>3, ErasedSlots
  <2> QED  BY <2>2, <2>3
<1>5. Covered'
  BY <1>0, <1>1 DEF ResourceType, ThreadType, Covered, SlotsLive, Empty, InQueue, Destroyed, Put
<1>6. Fresh'
  <2>1. \A p \in Objs : block[p] # "unused" => block'[p] # "unused"
    BY <1>0, <1>1 DEF ResourceType
  <2>2. wobj \in [Workers -> Objs \cup {NULL}] /\ UNCHANGED <<queue, wobj>>
    BY <1>0, <1>1 DEF ThreadType
  <2> QED  BY <1>0, <2>1, <2>2 DEF Fresh, InQueue
<1>7. Locks'
  BY <1>0, <1>1 DEF ResourceType, ThreadType, Locks, Put
<1>8. Empty'
  BY <1>0, <1>1 DEF ResourceType, ThreadType, Empty, Destroyed, Put
<1>9. Watch'
  BY <1>0, <1>1 DEF ResourceType, ThreadType, Watch, SlotsLive, Fresh, InQueue, Put
<1>10. First'
  BY <1>0, <1>1 DEF ResourceType, ThreadType, First, Watch, Fresh, Empty, FirstJob, InQueue, OnceInQueue, Has, HasOne, HasNone, Destroyed, Put
<1>11. FreedOk'
  <2> SUFFICES ASSUME conf.done_func, ~Destroyed, NEW p \in Objs,
                      block'[p] = "freed", ~obj'[p].asked
               PROVE  ~InQueue(p) /\ \A w \in Workers : wobj[w] = p => wpc[w] = "report"
    BY <1>1 DEF FreedOk, InQueue, Destroyed
  <2>1. CASE p = o
    <3>1. ~InQueue(o) /\ HasNone(o)
      BY <1>0, <1>1 DEF First, FirstJob
    <3>2. \A w \in Workers : wobj[w] = o => wpc[w] \notin {"flag", "unlock"}
      BY <1>0, <1>1, Nulls DEF Locks
    <3>3. \A w \in Workers : wobj[w] = o => wpc[w] # "idle"
      BY <1>0, Nulls DEF ThreadType
    <3> QED  BY <1>0, <2>1, <3>1, <3>2, <3>3 DEF HasNone, Has, ThreadType, WorkerLabels
  <2>2. CASE p # o
    <3>1. block[p] = "freed" /\ ~obj[p].asked
      BY <1>0, <1>1, <2>2 DEF ResourceType, Put
    <3> QED  BY <1>0, <3>1 DEF FreedOk
  <2> QED  BY <2>1, <2>2
<1>12. NoDone'
  BY <1>0, <1>1 DEF ResourceType, ThreadType, NoDone, Put
<1>13. Lost'
  <2> SUFFICES ASSUME ~conf.slice, NEW p \in Objs, block'[p] = "live", obj'[p].done
               PROVE  Told(p)'
    BY <1>1 DEF Lost
  <2>1. p # o
    BY <1>0, <1>1 DEF ResourceType, Put
  <2>2. block[p] = "live" /\ obj[p].done
    BY <1>0, <1>1, <2>1 DEF ResourceType, Put
  <2>3. Told(p)
    BY <1>0, <1>1, <2>2 DEF Lost
  <2>4. i \in Nat /\ Len(slot) \in Nat /\ slot[i] = o /\ Len(slot') = Len(slot)
        /\ \A k \in 1..Len(slot) : k # i => slot'[k] = slot[k]
    BY <1>0, <1>1 DEF ThreadType, ResourceType
  <2>5. \A k \in 1..Len(slot) : k >= i /\ slot[k] = p => k >= i + 1 /\ slot'[k] = p
    BY <2>1, <2>4
  <2> QED  BY <1>1, <2>3, <2>4, <2>5 DEF Told
<1> QED  BY <1>2, <1>3, <1>4, <1>5, <1>6, <1>7, <1>8, <1>9, <1>10, <1>11, <1>12, <1>13 DEF ResmanInv

LEMMA ScanDoneEffect ==
  ASSUME ResmanInv, NEW o \in Objs, ScanDone(o)
  PROVE  /\ UNCHANGED <<conf, lock, wpc, wobj, event, wake>>
         /\ mpc = "scan" /\ i \in 1..Len(slot) /\ slot[i] = o /\ lock[o] = NULL /\ block[o] = "live"
         /\ UNCHANGED <<slot, block, queue>>
         /\ \/ i' = i + 1 /\ UNCHANGED mpc
            \/ conf.slice /\ mpc' = "idle" /\ i' = i
         /\ \E r : /\ Put(o, r) /\ ~r.done /\ r.loads # 0 /\ r.name = obj[o].name
                   /\ r.pending = obj[o].pending /\ r.del = obj[o].del /\ r.asked = obj[o].asked
<1>0. i \in 1..Len(slot) /\ slot[i] = o /\ block[o] = "live" /\ obj[o] \in Resource
  BY DEF ResmanInv, SlotsLive, ResourceType, ScanDone, Scan, Ids
<1> DEFINE c == [obj[o] EXCEPT !.done = FALSE, !.loads = @ + 1]
           r == StartWatch(c)
<1>1. /\ c \in Resource /\ c.loads # 0 /\ c.done = FALSE
      /\ c.name = obj[o].name /\ c.pending = obj[o].pending /\ c.del = obj[o].del /\ c.asked = obj[o].asked
  BY <1>0, CountedIsResource
<1>2. Put(o, r)
  BY <1>1, StartWatchIsResource DEF Put, ScanDone, Store
<1> HIDE DEF c
<1>3. ~r.done /\ r.loads # 0 /\ r.name = obj[o].name
      /\ r.pending = obj[o].pending /\ r.del = obj[o].del /\ r.asked = obj[o].asked
  BY <1>1, StartWatchIsResource
<1> HIDE DEF r
<1> QED  BY <1>0, <1>2, <1>3 DEF ScanDone, Scan, NextIndex, MainGoto, worker, files

LEMMA ScanDoneStep ==
  ASSUME ResmanInv, NEW o \in Objs, ScanDone(o)
  PROVE  ResmanInv'
<1>0. /\ ResourceType /\ ThreadType /\ SlotsLive /\ Covered /\ Fresh /\ Locks /\ Empty
      /\ Watch /\ First /\ FreedOk /\ NoDone /\ Lost
  BY DEF ResmanInv
<1>1. /\ UNCHANGED <<conf, lock, wpc, wobj, event, wake>>
      /\ mpc = "scan" /\ i \in 1..Len(slot) /\ slot[i] = o /\ lock[o] = NULL /\ block[o] = "live"
      /\ UNCHANGED <<slot, block, queue>>
      /\ \/ i' = i + 1 /\ UNCHANGED mpc
         \/ conf.slice /\ mpc' = "idle" /\ i' = i
      /\ \E r : /\ Put(o, r) /\ ~r.done /\ r.loads # 0 /\ r.name = obj[o].name
                /\ r.pending = obj[o].pending /\ r.del = obj[o].del /\ r.asked = obj[o].asked
  BY ScanDoneEffect
<1>2. ResourceType'
  BY <1>0, <1>1 DEF ResourceType, ThreadType, Put
<1>3. ThreadType'
  BY <1>0, <1>1 DEF ResourceType, ThreadType, WorkerLabels, MainLabels, Put
<1>4. SlotsLive'
  BY <1>0, <1>1 DEF ResourceType, ThreadType, SlotsLive, Put
<1>5. Covered'
  BY <1>0, <1>1 DEF ResourceType, ThreadType, Covered, SlotsLive, Empty, InQueue, Destroyed, Put
<1>6. Fresh'
  BY <1>0, <1>1 DEF ResourceType, ThreadType, Fresh, SlotsLive, InQueue, Put
<1>7. Locks'
  BY <1>0, <1>1 DEF ResourceType, ThreadType, Locks, Put
<1>8. Empty'
  BY <1>0, <1>1 DEF ResourceType, ThreadType, Empty, Destroyed, Put
<1>9. Watch'
  BY <1>0, <1>1 DEF ResourceType, ThreadType, Watch, SlotsLive, Fresh, InQueue, Put
<1>10. First'
  BY <1>0, <1>1 DEF ResourceType, ThreadType, First, Watch, Fresh, Empty, FirstJob, InQueue, OnceInQueue, Has, HasOne, HasNone, Destroyed, Put
<1>11. FreedOk'
  BY <1>0, <1>1 DEF ResourceType, ThreadType, FreedOk, First, Watch, Locks, Fresh, SlotsLive, InQueue, Destroyed, FirstJob, OnceInQueue, Has, HasOne, HasNone, Put
<1>12. NoDone'
  BY <1>0, <1>1 DEF ResourceType, ThreadType, NoDone, Put
<1>13. Lost'
  BY <1>0, <1>1 DEF ResourceType, ThreadType, Lost, SlotsLive, NoDone, Told, Put
<1> QED  BY <1>2, <1>3, <1>4, <1>5, <1>6, <1>7, <1>8, <1>9, <1>10, <1>11, <1>12, <1>13 DEF ResmanInv

LEMMA ScanSkipEffect ==
  ASSUME ResmanInv, NEW o \in Objs, ScanSkip(o)
  PROVE  /\ UNCHANGED <<conf, lock, wpc, wobj, event, wake>>
         /\ mpc = "scan" /\ i \in 1..Len(slot) /\ slot[i] = o /\ lock[o] = NULL /\ block[o] = "live"
         /\ UNCHANGED <<slot, obj, block, queue, mpc>> /\ i' = i + 1
         /\ ~obj[o].done
BY DEF ScanSkip, Scan, NextIndex, Ids, ResmanInv, SlotsLive, worker, files

LEMMA ScanSkipStep ==
  ASSUME ResmanInv, NEW o \in Objs, ScanSkip(o)
  PROVE  ResmanInv'
<1>0. /\ ResourceType /\ ThreadType /\ SlotsLive /\ Covered /\ Fresh /\ Locks /\ Empty
      /\ Watch /\ First /\ FreedOk /\ NoDone /\ Lost
  BY DEF ResmanInv
<1>1. /\ UNCHANGED <<conf, lock, wpc, wobj, event, wake>>
      /\ mpc = "scan" /\ i \in 1..Len(slot) /\ slot[i] = o /\ lock[o] = NULL /\ block[o] = "live"
      /\ UNCHANGED <<slot, obj, block, queue, mpc>> /\ i' = i + 1
      /\ ~obj[o].done
  BY ScanSkipEffect
<1>2. ResourceType'
  BY <1>0, <1>1 DEF ResourceType, ThreadType, Put
<1>3. ThreadType'
  BY <1>0, <1>1 DEF ResourceType, ThreadType, WorkerLabels, MainLabels, Put
<1>4. SlotsLive'
  BY <1>0, <1>1 DEF ResourceType, ThreadType, SlotsLive, Put
<1>5. Covered'
  BY <1>0, <1>1 DEF ResourceType, ThreadType, Covered, SlotsLive, Empty, InQueue, Destroyed, Put
<1>6. Fresh'
  BY <1>0, <1>1 DEF ResourceType, ThreadType, Fresh, SlotsLive, InQueue, Put
<1>7. Locks'
  BY <1>0, <1>1 DEF ResourceType, ThreadType, Locks, Put
<1>8. Empty'
  BY <1>0, <1>1 DEF ResourceType, ThreadType, Empty, Destroyed, Put
<1>9. Watch'
  BY <1>0, <1>1 DEF ResourceType, ThreadType, Watch, SlotsLive, Fresh, InQueue, Put
<1>10. First'
  BY <1>0, <1>1 DEF First, FirstJob, InQueue, OnceInQueue, HasOne, HasNone, Has
<1>11. FreedOk'
  BY <1>0, <1>1 DEF ResourceType, ThreadType, FreedOk, First, Watch, Locks, Fresh, SlotsLive, InQueue, Destroyed, FirstJob, OnceInQueue, Has, HasOne, HasNone, Put
<1>12. NoDone'
  BY <1>0, <1>1 DEF ResourceType, ThreadType, NoDone, Put
<1>13. Lost'
  BY <1>0, <1>1 DEF ResourceType, ThreadType, Lost, SlotsLive, NoDone, Told, Put
<1> QED  BY <1>2, <1>3, <1>4, <1>5, <1>6, <1>7, <1>8, <1>9, <1>10, <1>11, <1>12, <1>13 DEF ResmanInv

LEMMA ScanNullEffect ==
  ASSUME ResmanInv, ScanNull
  PROVE  /\ UNCHANGED <<conf, slot, obj, block, lock, queue, wpc, wobj>> /\ UNCHANGED <<event, wake, mpc>>
         /\ mpc = "scan" /\ i \in 1..Len(slot) /\ slot[i] = NULL /\ i' = i + 1
BY DEF ScanNull, NextIndex, Ids, shared, worker, files

LEMMA ScanNullStep ==
  ASSUME ResmanInv, ScanNull
  PROVE  ResmanInv'
<1>0. /\ ResourceType /\ ThreadType /\ SlotsLive /\ Covered /\ Fresh /\ Locks /\ Empty
      /\ Watch /\ First /\ FreedOk /\ NoDone /\ Lost
  BY DEF ResmanInv
<1>1. /\ UNCHANGED <<conf, slot, obj, block, lock, queue, wpc, wobj>> /\ UNCHANGED <<event, wake, mpc>>
      /\ mpc = "scan" /\ i \in 1..Len(slot) /\ slot[i] = NULL /\ i' = i + 1
  BY ScanNullEffect
<1>2. ResourceType'
  BY <1>0, <1>1 DEF ResourceType, ThreadType, Put
<1>3. ThreadType'
  BY <1>0, <1>1 DEF ResourceType, ThreadType, WorkerLabels, MainLabels, Put
<1>4. SlotsLive'
  BY <1>0, <1>1 DEF ResourceType, ThreadType, SlotsLive, Put
<1>5. Covered'
  BY <1>0, <1>1 DEF ResourceType, ThreadType, Covered, SlotsLive, Empty, InQueue, Destroyed, Put
<1>6. Fresh'
  BY <1>0, <1>1 DEF ResourceType, ThreadType, Fresh, SlotsLive, InQueue, Put
<1>7. Locks'
  BY <1>0, <1>1 DEF ResourceType, ThreadType, Locks, Put
<1>8. Empty'
  BY <1>0, <1>1 DEF ResourceType, ThreadType, Empty, Destroyed, Put
<1>9. Watch'
  BY <1>0, <1>1 DEF ResourceType, ThreadType, Watch, SlotsLive, Fresh, InQueue, Put
<1>10. First'
  BY <1>0, <1>1 DEF ResourceType, ThreadType, First, Watch, Fresh, Empty, FirstJob, InQueue, OnceInQueue, Has, HasOne, HasNone, Destroyed, Put
<1>11. FreedOk'
  BY <1>0, <1>1 DEF ResourceType, ThreadType, FreedOk, First, Watch, Locks, Fresh, SlotsLive, InQueue, Destroyed, FirstJob, OnceInQueue, Has, HasOne, HasNone, Put
<1>12. NoDone'
  BY <1>0, <1>1 DEF ResourceType, ThreadType, NoDone, Put
<1>13. Lost'
  BY <1>0, <1>1, Nulls DEF ResourceType, ThreadType, Lost, SlotsLive, NoDone, Told, Put
<1> QED  BY <1>2, <1>3, <1>4, <1>5, <1>6, <1>7, <1>8, <1>9, <1>10, <1>11, <1>12, <1>13 DEF ResmanInv

LEMMA DestroyEffect ==
  ASSUME ResmanInv, Destroy
  PROVE  /\ UNCHANGED <<conf, obj, lock, queue, wpc, wobj, i, event, wake>>
         /\ slot' = <<>> /\ mpc' = "release"
         /\ block' = [o \in Objs |-> IF block[o] = "live" THEN "freed" ELSE block[o]]
BY DEF Destroy, Call, Live, MainGoto, worker, files

LEMMA DestroyStep ==
  ASSUME ResmanInv, Destroy
  PROVE  ResmanInv'
<1>0. /\ ResourceType /\ ThreadType /\ SlotsLive /\ Covered /\ Fresh /\ Locks /\ Empty
      /\ Watch /\ First /\ FreedOk /\ NoDone /\ Lost
  BY DEF ResmanInv
<1>1. /\ UNCHANGED <<conf, obj, lock, queue, wpc, wobj, i, event, wake>>
      /\ slot' = <<>> /\ mpc' = "release"
      /\ block' = [o \in Objs |-> IF block[o] = "live" THEN "freed" ELSE block[o]]
  BY DestroyEffect
<1>2. ResourceType'
  BY <1>0, <1>1 DEF ResourceType, ThreadType, Put
<1>3. ThreadType'
  BY <1>0, <1>1 DEF ResourceType, ThreadType, WorkerLabels, MainLabels, Put
<1>4. SlotsLive'
  BY <1>0, <1>1 DEF ResourceType, ThreadType, SlotsLive, Put
<1>5. Covered'
  BY <1>0, <1>1 DEF ResourceType, ThreadType, Covered, SlotsLive, Empty, InQueue, Destroyed, Put
<1>6. Fresh'
  BY <1>0, <1>1 DEF ResourceType, ThreadType, Fresh, SlotsLive, InQueue, Put
<1>7. Locks'
  BY <1>0, <1>1 DEF ResourceType, ThreadType, Locks, Put
<1>8. Empty'
  BY <1>0, <1>1 DEF ResourceType, ThreadType, Empty, Destroyed, Put
<1>9. Watch'
  BY <1>0, <1>1 DEF ResourceType, ThreadType, Watch, SlotsLive, Fresh, InQueue, Put
<1>10. First'
  BY <1>0, <1>1 DEF ResourceType, ThreadType, First, Watch, Fresh, Empty, FirstJob, InQueue, OnceInQueue, Has, HasOne, HasNone, Destroyed, Put
<1>11. FreedOk'
  BY <1>0, <1>1 DEF ResourceType, ThreadType, FreedOk, First, Watch, Locks, Fresh, SlotsLive, InQueue, Destroyed, FirstJob, OnceInQueue, Has, HasOne, HasNone, Put
<1>12. NoDone'
  BY <1>0, <1>1 DEF ResourceType, ThreadType, NoDone, Put
<1>13. Lost'
  BY <1>0, <1>1 DEF ResourceType, ThreadType, Lost, SlotsLive, NoDone, Told, Put
<1> QED  BY <1>2, <1>3, <1>4, <1>5, <1>6, <1>7, <1>8, <1>9, <1>10, <1>11, <1>12, <1>13 DEF ResmanInv

LEMMA ReleaseEffect ==
  ASSUME ResmanInv, Release
  PROVE  /\ UNCHANGED <<conf, slot, obj, block, lock, wpc, wobj, i, event, wake>>
         /\ mpc = "release" /\ mpc' = "join" /\ queue' = <<>>
BY DEF Release, MainGoto, worker, files

LEMMA ReleaseStep ==
  ASSUME ResmanInv, Release
  PROVE  ResmanInv'
<1>0. /\ ResourceType /\ ThreadType /\ SlotsLive /\ Covered /\ Fresh /\ Locks /\ Empty
      /\ Watch /\ First /\ FreedOk /\ NoDone /\ Lost
  BY DEF ResmanInv
<1>1. /\ UNCHANGED <<conf, slot, obj, block, lock, wpc, wobj, i, event, wake>>
      /\ mpc = "release" /\ mpc' = "join" /\ queue' = <<>>
  BY ReleaseEffect
<1>2. ResourceType'
  BY <1>0, <1>1 DEF ResourceType, ThreadType, Put
<1>3. ThreadType'
  BY <1>0, <1>1 DEF ResourceType, ThreadType, WorkerLabels, MainLabels, Put
<1>4. SlotsLive'
  BY <1>0, <1>1 DEF ResourceType, ThreadType, SlotsLive, Put
<1>5. Covered'
  BY <1>0, <1>1 DEF ResourceType, ThreadType, Covered, SlotsLive, Empty, InQueue, Destroyed, Put
<1>6. Fresh'
  BY <1>0, <1>1 DEF ResourceType, ThreadType, Fresh, SlotsLive, InQueue, Put
<1>7. Locks'
  BY <1>0, <1>1 DEF ResourceType, ThreadType, Locks, Put
<1>8. Empty'
  BY <1>0, <1>1 DEF ResourceType, ThreadType, Empty, Destroyed, Put
<1>9. Watch'
  BY <1>0, <1>1 DEF ResourceType, ThreadType, Watch, SlotsLive, Fresh, InQueue, Put
<1>10. First'
  BY <1>0, <1>1 DEF ResourceType, ThreadType, First, Watch, Fresh, Empty, FirstJob, InQueue, OnceInQueue, Has, HasOne, HasNone, Destroyed, Put
<1>11. FreedOk'
  BY <1>0, <1>1 DEF ResourceType, ThreadType, FreedOk, First, Watch, Locks, Fresh, SlotsLive, InQueue, Destroyed, FirstJob, OnceInQueue, Has, HasOne, HasNone, Put
<1>12. NoDone'
  BY <1>0, <1>1 DEF ResourceType, ThreadType, NoDone, Put
<1>13. Lost'
  BY <1>0, <1>1 DEF ResourceType, ThreadType, Lost, SlotsLive, NoDone, Told, Put
<1> QED  BY <1>2, <1>3, <1>4, <1>5, <1>6, <1>7, <1>8, <1>9, <1>10, <1>11, <1>12, <1>13 DEF ResmanInv

LEMMA TimeUpEffect ==
  ASSUME ResmanInv, NEW o \in Objs, TimeUp(o)
  PROVE  /\ UNCHANGED <<conf, slot, block, lock, queue, wpc, wobj, mpc, i, event, wake>>
         /\ block[o] = "live" /\ obj[o].timer # "off"
         /\ \E r : /\ Put(o, r) /\ TRUE
                   /\ r.name = obj[o].name /\ r.pending = obj[o].pending /\ r.done = obj[o].done /\ r.del = obj[o].del
                   /\ r.loads = obj[o].loads /\ r.watch = obj[o].watch /\ r.asked = obj[o].asked
<1>1. o \in Objs /\ obj[o] \in Resource /\ obj \in [Objs -> Resource \cup {NULL}]
  BY DEF ResmanInv, ResourceType, ThreadType, TimeUp
<1> DEFINE r == [obj[o] EXCEPT !.timer = "due"]
<1>2. obj' = [obj EXCEPT ![o] = r]
  BY <1>1 DEF TimeUp, Set
<1>3. /\ r \in Resource /\ TRUE
      /\ r.name = obj[o].name /\ r.pending = obj[o].pending /\ r.done = obj[o].done /\ r.del = obj[o].del
      /\ r.loads = obj[o].loads /\ r.watch = obj[o].watch /\ r.asked = obj[o].asked
  BY <1>1 DEF Resource
<1>4. Put(o, r)
  BY <1>1, <1>2, <1>3 DEF Put
<1> HIDE DEF r
<1> QED  BY <1>1, <1>3, <1>4 DEF TimeUp, worker, main, files

LEMMA TimeUpStep ==
  ASSUME ResmanInv, NEW o \in Objs, TimeUp(o)
  PROVE  ResmanInv'
<1>0. /\ ResourceType /\ ThreadType /\ SlotsLive /\ Covered /\ Fresh /\ Locks /\ Empty
      /\ Watch /\ First /\ FreedOk /\ NoDone /\ Lost
  BY DEF ResmanInv
<1>1. /\ UNCHANGED <<conf, slot, block, lock, queue, wpc, wobj, mpc, i, event, wake>>
      /\ block[o] = "live" /\ obj[o].timer # "off"
      /\ \E r : /\ Put(o, r) /\ TRUE
                /\ r.name = obj[o].name /\ r.pending = obj[o].pending /\ r.done = obj[o].done /\ r.del = obj[o].del
                /\ r.loads = obj[o].loads /\ r.watch = obj[o].watch /\ r.asked = obj[o].asked
  BY TimeUpEffect
<1>2. ResourceType'
  BY <1>0, <1>1 DEF ResourceType, ThreadType, Put
<1>3. ThreadType'
  BY <1>0, <1>1 DEF ResourceType, ThreadType, WorkerLabels, MainLabels, Put
<1>4. SlotsLive'
  BY <1>0, <1>1 DEF ResourceType, ThreadType, SlotsLive, Put
<1>5. Covered'
  BY <1>0, <1>1 DEF ResourceType, ThreadType, Covered, SlotsLive, Empty, InQueue, Destroyed, Put
<1>6. Fresh'
  BY <1>0, <1>1 DEF ResourceType, ThreadType, Fresh, SlotsLive, InQueue, Put
<1>7. Locks'
  BY <1>0, <1>1 DEF ResourceType, ThreadType, Locks, Put
<1>8. Empty'
  BY <1>0, <1>1 DEF ResourceType, ThreadType, Empty, Destroyed, Put
<1>9. Watch'
  BY <1>0, <1>1 DEF ResourceType, ThreadType, Watch, SlotsLive, Fresh, InQueue, Put
<1>10. First'
  BY <1>0, <1>1 DEF ResourceType, ThreadType, First, Watch, Fresh, Empty, FirstJob, InQueue, OnceInQueue, Has, HasOne, HasNone, Destroyed, Put
<1>11. FreedOk'
  BY <1>0, <1>1 DEF ResourceType, ThreadType, FreedOk, First, Watch, Locks, Fresh, SlotsLive, InQueue, Destroyed, FirstJob, OnceInQueue, Has, HasOne, HasNone, Put
<1>12. NoDone'
  BY <1>0, <1>1 DEF ResourceType, ThreadType, NoDone, Put
<1>13. Lost'
  BY <1>0, <1>1 DEF ResourceType, ThreadType, Lost, SlotsLive, NoDone, Told, Put
<1> QED  BY <1>2, <1>3, <1>4, <1>5, <1>6, <1>7, <1>8, <1>9, <1>10, <1>11, <1>12, <1>13 DEF ResmanInv

-----------------------------------------------------------------------------
(* The other steps change only where the main thread is, the pipe, or the  *)
(* event.                                                                  *)

LEMMA InitHolds == Init => ResmanInv
<1> SUFFICES ASSUME Init PROVE ResmanInv
  OBVIOUS
<1>1. /\ conf \in Setups /\ slot = <<>> /\ queue = <<>> /\ mpc = "idle" /\ i = 1
      /\ event = NULL
      /\ Len(slot) = 0 /\ Len(queue) = 0 /\ 1..Len(slot) = {} /\ 1..Len(queue) = {}
  BY ResmanAssumption DEF Init
<1>2. /\ \A o \in Objs : block[o] = "unused" /\ obj[o] = NULL /\ lock[o] = NULL
      /\ \A w \in Workers : wpc[w] = "idle" /\ wobj[w] = NULL
  BY DEF Init
<1>3. ResourceType
  BY <1>1, <1>2 DEF ResourceType, Init
<1>4. ThreadType
  BY <1>1, <1>2 DEF ThreadType, Init, WorkerLabels, MainLabels
<1>5. SlotsLive /\ Covered /\ Empty /\ NoDone /\ Lost
  BY <1>1, <1>2 DEF SlotsLive, Covered, Empty, NoDone, Lost
<1>6. Fresh /\ Locks
  BY <1>1, <1>2, Nulls DEF Fresh, Locks, InQueue
<1>7. Watch /\ First /\ FreedOk
  BY <1>1, <1>2 DEF Watch, First, FreedOk
<1> QED  BY <1>3, <1>4, <1>5, <1>6, <1>7 DEF ResmanInv

LEMMA QuietStep ==
  ASSUME ResmanInv, UNCHANGED <<conf, slot, obj, block, lock, queue, wpc, wobj>>,
         mpc' \in MainLabels, i' \in Nat \ {0},
         event' \in [obj : Objs, kind : {"modified", "replaced", "deleted"}] \cup {NULL},
         Destroyed' <=> Destroyed, Lost'
  PROVE  ResmanInv'
<1>1. ResourceType' /\ ThreadType' /\ SlotsLive'
  BY DEF ResmanInv, ResourceType, ThreadType, SlotsLive
<1>2. Covered' /\ Fresh' /\ Locks'
  BY DEF ResmanInv, Covered, Fresh, Locks, InQueue
<1>3. Empty' /\ Watch' /\ NoDone'
  BY DEF ResmanInv, Empty, Watch, NoDone
<1>4. First'
  BY DEF ResmanInv, First, FirstJob, InQueue, OnceInQueue, HasOne, HasNone, Has
<1>5. FreedOk'
  BY DEF ResmanInv, FreedOk, InQueue
<1> QED  BY <1>1, <1>2, <1>3, <1>4, <1>5 DEF ResmanInv

LEMMA StillTold ==
  ASSUME ResmanInv, UNCHANGED <<conf, slot, obj, block, lock, queue, wpc, wobj>>,
         \/ mpc' \in {"sweep", "drain"}
         \/ wake' = wake /\ mpc \notin {"sweep", "drain", "scan"}
         \/ wake' = wake /\ mpc' = mpc /\ i' = i
  PROVE  Lost'
BY DEF ResmanInv, Lost, Told

LEMMA MainQuiet ==
  ASSUME ResmanInv,
         Poll \/ Wait \/ Select \/ WaitAll \/ AllDone \/ TestPending
           \/ CountJobs \/ WaitPending \/ Join \/ NoEvent
  PROVE  ResmanInv'
<1>1. /\ UNCHANGED <<conf, slot, obj, block, lock, queue, wpc, wobj>>
      /\ mpc' \in MainLabels /\ i' \in Nat \ {0}
      /\ event' = event \/ event' = NULL
      /\ Destroyed' <=> Destroyed
      /\ \/ mpc' \in {"sweep", "drain"}
         \/ wake' = wake /\ mpc \notin {"sweep", "drain", "scan"}
  <2>1. i \in Nat \ {0}
    BY DEF ResmanInv, ThreadType
  <2>2. CASE Poll \/ Wait \/ Select \/ WaitAll
    BY <2>1, <2>2 DEF Poll, Wait, Select, WaitAll, Call, MainGoto, shared, worker, files,
       MainLabels, Destroyed
  <2>3. CASE AllDone \/ TestPending
    BY <2>1, <2>3 DEF AllDone, TestPending, MainGoto, shared, worker, files,
       MainLabels, Destroyed
  <2>4. CASE CountJobs \/ WaitPending \/ Join
    BY <2>1, <2>4 DEF CountJobs, WaitPending, Join, MainGoto, shared, worker, files,
       MainLabels, Destroyed
  <2>5. CASE NoEvent
    BY <2>1, <2>5 DEF NoEvent, CheckWatch, MainGoto, worker, MainLabels, Destroyed
  <2> QED  BY <2>2, <2>3, <2>4, <2>5
<1>2. Lost'
  BY <1>1, StillTold
<1>3. event' \in [obj : Objs, kind : {"modified", "replaced", "deleted"}] \cup {NULL}
  BY <1>1 DEF ResmanInv, ThreadType
<1> QED  BY <1>1, <1>2, <1>3, QuietStep

LEMMA WaitJobStep ==
  ASSUME ResmanInv, NEW k \in Ids, WaitJob(k)
  PROVE  ResmanInv'
<1>1. /\ UNCHANGED <<conf, slot, obj, block, lock, queue, wpc, wobj, event, wake>>
      /\ mpc = "idle" /\ mpc' = "test" /\ i' = k
  BY DEF WaitJob, Call, shared, worker, files
<1>2. k \in Nat \ {0}
  BY DEF Ids
<1>3. Lost'
  BY <1>1, StillTold
<1>4. event' \in [obj : Objs, kind : {"modified", "replaced", "deleted"}] \cup {NULL}
  BY <1>1 DEF ResmanInv, ThreadType
<1>5. mpc' \in MainLabels /\ (Destroyed' <=> Destroyed)
  BY <1>1 DEF MainLabels, Destroyed
<1> QED  BY <1>1, <1>2, <1>3, <1>4, <1>5, QuietStep

\* poll empties the pipe, and then looks at every resource that has a done_func.
LEMMA DrainStep ==
  ASSUME ResmanInv, Drain
  PROVE  ResmanInv'
<1>1. /\ UNCHANGED <<conf, slot, obj, block, lock, queue, wpc, wobj, event>>
      /\ mpc = "drain" /\ mpc' = (IF conf.done_func THEN "scan" ELSE "idle") /\ i' = 1
  BY DEF Drain, shared, worker, files
<1>2. Lost'
  <2> SUFFICES ASSUME NEW o \in Objs, block[o] = "live", obj[o].done PROVE Told(o)'
    BY <1>1 DEF Lost
  <2>1. conf.done_func
    BY DEF ResmanInv, NoDone
  <2>2. \E k \in 1..Len(slot) : slot[k] = o
    BY DEF ResmanInv, SlotsLive
  <2> QED  BY <1>1, <2>1, <2>2 DEF Told
<1>3. event' \in [obj : Objs, kind : {"modified", "replaced", "deleted"}] \cup {NULL}
  BY <1>1 DEF ResmanInv, ThreadType
<1>4. mpc' \in MainLabels /\ i' \in Nat \ {0} /\ (Destroyed' <=> Destroyed)
  BY <1>1 DEF MainLabels, Destroyed
<1> QED  BY <1>1, <1>2, <1>3, <1>4, QuietStep

LEMMA ScanEndStep ==
  ASSUME ResmanInv, ScanEnd
  PROVE  ResmanInv'
<1>1. /\ UNCHANGED <<conf, slot, obj, block, lock, queue, wpc, wobj, event, wake, i>>
      /\ mpc = "scan" /\ mpc' = "idle" /\ i \notin 1..Len(slot)
  BY DEF ScanEnd, MainGoto, shared, worker, files, Ids
<1>2. i \in Nat \ {0} /\ Len(slot) \in Nat
  BY DEF ResmanInv, ThreadType, ResourceType
<1>3. \A k \in 1..Len(slot) : ~(k >= i)
  BY <1>1, <1>2
<1>4. Lost'
  BY <1>1, <1>3 DEF ResmanInv, Lost, Told
<1>5. event' \in [obj : Objs, kind : {"modified", "replaced", "deleted"}] \cup {NULL}
  BY <1>1 DEF ResmanInv, ThreadType
<1>6. mpc' \in MainLabels /\ i' \in Nat \ {0} /\ (Destroyed' <=> Destroyed)
  BY <1>1, <1>2 DEF MainLabels, Destroyed
<1> QED  BY <1>1, <1>4, <1>5, <1>6, QuietStep

\* A fault, an event, or nothing.
LEMMA OutsideStep ==
  ASSUME ResmanInv,
         UNCHANGED <<conf, slot, obj, block, lock, queue, wpc, wobj, mpc, i, wake>>,
         event' \in [obj : Objs, kind : {"modified", "replaced", "deleted"}] \cup {NULL}
  PROVE  ResmanInv'
<1>1. Lost'
  BY StillTold
<1>2. mpc' \in MainLabels /\ i' \in Nat \ {0} /\ (Destroyed' <=> Destroyed)
  BY DEF ResmanInv, ThreadType, Destroyed
<1> QED  BY <1>1, <1>2, QuietStep

LEMMA NextStep == ResmanInv /\ [Next]_vars => ResmanInv'
<1> SUFFICES ASSUME ResmanInv, [Next]_vars PROVE ResmanInv'
  OBVIOUS
<1>0. event \in [obj : Objs, kind : {"modified", "replaced", "deleted"}] \cup {NULL}
  BY DEF ResmanInv, ThreadType
<1>1. ASSUME NEW w \in Workers, WorkerStep(w) PROVE ResmanInv'
  <2>1. CASE Take(w)  BY <2>1, TakeStep
  <2>2. CASE BeginTask(w)  BY <2>2, BeginTaskStep
  <2>3. CASE Load(w)  BY <2>3, LoadStep
  <2>4. CASE ClearPending(w)  BY <2>4, ClearPendingStep
  <2>5. CASE FlagDone(w)  BY <2>5, FlagDoneStep
  <2>6. CASE Unlock(w)  BY <2>6, UnlockStep
  <2>7. CASE Report(w)  BY <2>7, ReportStep
  <2>8. CASE UseAfterFree(w)
    BY <1>0, <2>8, OutsideStep DEF UseAfterFree, shared, worker, main, files
  <2> QED  BY <1>1, <2>1, <2>2, <2>3, <2>4, <2>5, <2>6, <2>7, <2>8 DEF WorkerStep
<1>2. ASSUME MainStep PROVE ResmanInv'
  <2>1. CASE Sweep  BY <2>1, SweepStep
  <2>2. CASE Modified  BY <2>2, ModifiedStep
  <2>3. CASE Replaced  BY <2>3, ReplacedStep
  <2>4. CASE Deleted  BY <2>4, DeletedStep
  <2>5. CASE Drain  BY <2>5, DrainStep
  <2>6. ASSUME NEW o \in Objs, ScanReload(o) \/ ScanSkip(o) \/ ScanFailed(o) \/ ScanDone(o)
        PROVE  ResmanInv'
    <3>1. CASE ScanReload(o)  BY <3>1, ScanReloadStep
    <3>2. CASE ScanSkip(o)  BY <3>2, ScanSkipStep
    <3>3. CASE ScanFailed(o)  BY <3>3, ScanFailedStep
    <3>4. CASE ScanDone(o)  BY <3>4, ScanDoneStep
    <3> QED  BY <2>6, <3>1, <3>2, <3>3, <3>4
  <2>7. CASE ScanNull  BY <2>7, ScanNullStep
  <2>8. CASE ScanEnd  BY <2>8, ScanEndStep
  <2>9. CASE NoEvent \/ Select \/ AllDone \/ TestPending \/ CountJobs \/ WaitPending \/ Join
    BY <2>9, MainQuiet
  <2>10. CASE Release  BY <2>10, ReleaseStep
  <2> QED  BY <1>2, <2>1, <2>2, <2>3, <2>4, <2>5, <2>6, <2>7, <2>8, <2>9, <2>10 DEF MainStep
<1>3. ASSUME MainLoop PROVE ResmanInv'
  BY <1>3, MainQuiet DEF MainLoop
<1>4. ASSUME MainCall PROVE ResmanInv'
  <2>1. ASSUME NEW n \in Names, NullDeref(n) PROVE ResmanInv'
    BY <1>0, <2>1, OutsideStep DEF NullDeref, shared, worker, main, files
  <2>2. ASSUME NEW n \in Names, NEW o \in Objs, Add(n, o) PROVE ResmanInv'
    BY <2>2, AddStep
  <2>3. ASSUME NEW k \in Ids, Remove(k) PROVE ResmanInv'
    BY <2>3, RemoveStep
  <2>4. ASSUME NEW k \in Ids, WaitJob(k) PROVE ResmanInv'
    BY <2>4, WaitJobStep
  <2>5. CASE WaitAll  BY <2>5, MainQuiet
  <2>6. CASE Destroy  BY <2>6, DestroyStep
  <2> QED  BY <1>4, <2>1, <2>2, <2>3, <2>4, <2>5, <2>6 DEF MainCall
<1>5. ASSUME NEW o \in Objs, TimeUp(o) PROVE ResmanInv'
  BY <1>5, TimeUpStep
<1>6. ASSUME NEW o \in Objs, NEW kind \in {"modified", "replaced", "deleted"},
             FileEvent(o, kind)
      PROVE  ResmanInv'
  BY <1>6, OutsideStep DEF FileEvent, shared, worker, main
<1>7. CASE UNCHANGED vars
  BY <1>0, <1>7, OutsideStep DEF vars, shared, worker, main, files
<1> QED  BY <1>1, <1>2, <1>3, <1>4, <1>5, <1>6, <1>7 DEF Next

LEMMA Invariance == Spec => []ResmanInv
BY InitHolds, NextStep, PTL DEF Spec

-----------------------------------------------------------------------------
(* What follows from it.                                                   *)

\* A name is in one slot, and the slots hold just the blocks that are not
\* freed, however calls, polls, loads and deletions interleave
\* (find_resource, add_resource and remove_resource in resman.c).
THEOREM ResourcesAreUnique == Spec => []OneBlockPerName
<1>1. ResmanInv => OneBlockPerName
  <2> SUFFICES ASSUME ResmanInv PROVE OneBlockPerName
    OBVIOUS
  <2>1. \A k \in Ids : slot[k] # NULL => slot[k] \in Objs /\ block[slot[k]] = "live"
    BY DEF ResmanInv, ResourceType, SlotsLive, Ids
  <2>2. \A o \in Live : o # NULL /\ \E k \in Ids : slot[k] = o
    BY Nulls DEF ResmanInv, SlotsLive, Ids, Live
  <2>3. Live = {slot[k] : k \in Ids} \ {NULL}
    BY <2>1, <2>2 DEF Live
  <2> QED  BY <2>3 DEF ResmanInv, SlotsLive, Ids, OneBlockPerName
<1> QED  BY <1>1, Invariance, PTL

\* A pending resource has a job in the queue or under way that will clear the
\* flag, whatever reloads overlap (resman_reload and work_func).
THEOREM PendingHasJob == Spec => []PendingIsCovered
<1>1. ResmanInv => PendingIsCovered
  BY DEF ResmanInv, Covered, InQueue, PendingIsCovered, Queued, Loading, Live
<1> QED  BY <1>1, Invariance, PTL

\* With a done_func a resource has exactly one first load: queued, under way
\* or waiting for its callback (resman_add, work_func, the loop of resman_poll).
THEOREM FirstLoadIsSingle == Spec => []OneFirstLoad
<1>1. ResmanInv => OneFirstLoad
  <2> SUFFICES ASSUME ResmanInv, conf.done_func, NEW o \in Live, obj[o].loads = 0
               PROVE  Cardinality({k \in 1..Len(queue) : queue[k] = o})
                      + Cardinality(Loading(o) \cup Flagging(o))
                      + (IF obj[o].done THEN 1 ELSE 0) = 1
    BY DEF OneFirstLoad
  <2> DEFINE Q == {k \in 1..Len(queue) : queue[k] = o}
             H == Loading(o) \cup Flagging(o)
  <2>1. FirstJob(o)
    BY DEF ResmanInv, First, Live
  <2>2. H = {w \in Workers : Has(w, o)}
    BY DEF Loading, Flagging, Has
  <2>3. OnceInQueue(o) => Cardinality(Q) = 1
    <3> SUFFICES ASSUME OnceInQueue(o) PROVE Cardinality(Q) = 1
      OBVIOUS
    <3>1. PICK k : Q = {k}
      BY DEF OnceInQueue
    <3> QED  BY <3>1, FS_Singleton
  <2>4. ~InQueue(o) => Cardinality(Q) = 0
    <3>1. ~InQueue(o) => Q = {}
      BY DEF InQueue
    <3> QED  BY <3>1, FS_EmptySet
  <2>5. HasOne(o) => Cardinality(H) = 1
    <3> SUFFICES ASSUME HasOne(o) PROVE Cardinality(H) = 1
      OBVIOUS
    <3>1. PICK w : H = {w}
      BY <2>2 DEF HasOne
    <3> QED  BY <3>1, FS_Singleton
  <2>6. HasNone(o) => Cardinality(H) = 0
    <3>1. HasNone(o) => H = {}
      BY <2>2 DEF HasNone
    <3> QED  BY <3>1, FS_EmptySet
  <2> HIDE DEF Q, H
  <2>7. Cardinality(Q) + Cardinality(H) + (IF obj[o].done THEN 1 ELSE 0) = 1
    BY <2>1, <2>3, <2>4, <2>5, <2>6 DEF FirstJob
  <2> QED  BY <2>7 DEF Q, H
<1> QED  BY <1>1, Invariance, PTL

\* With a done_func the manager frees nothing of its own accord that the queue
\* or a worker inside work_func still points to (resman.c:311-317).
THEOREM FreedIsNotUsed == Spec => []FreedIsUnused
<1>1. ResmanInv => FreedIsUnused
  BY DEF ResmanInv, FreedOk, FreedIsUnused, InQueue, Queued
<1> QED  BY <1>1, Invariance, PTL

\* resman_wait does not sleep on a finished load whose byte was written: poll
\* empties the pipe before it looks at the resources (resman.c:288, 304).
THEOREM DoneWakesTheCaller == Spec => []NoLostDone
<1>1. ResmanInv => NoLostDone
  BY DEF ResmanInv, Lost, Told, NoLostDone, Live
<1> QED  BY <1>1, Invariance, PTL

-----------------------------------------------------------------------------
(***************************************************************************)
(* With a done_func the manager keeps what was once loaded until it is     *)
(* told to remove it; the types of all its variables, with the keys of the *)
(* tree of watches; what resman_wait_all waits for; and who frees what a   *)
(* worker uses: proved on top of ResmanInv.                                *)
(***************************************************************************)
\* malloc has not returned the block, so nothing was written to it.
UnusedIsNull == \A o \in Objs : block[o] = "unused" => obj[o] = NULL

\* A resource whose first load has succeeded has no load to come that could
\* write its result before the first done callback reads it.
FirstGood ==
  conf.done_func => \A o \in Objs : block[o] = "live" /\ obj[o].loads = 0 /\ obj[o].good =>
    /\ obj[o].result = 0
    /\ ~InQueue(o)
    /\ \A w \in Workers : wobj[w] = o => wpc[w] \notin {"begin", "load"}

FreedWasBad ==
  conf.done_func => \A o \in Objs : block[o] = "freed" /\ ~obj[o].asked /\ ~Destroyed =>
    ~obj[o].good

KeptInv == UnusedIsNull /\ FirstGood /\ FreedWasBad

-----------------------------------------------------------------------------
(* Most steps leave what was loaded, and no step but Load and Add gives a  *)
(* resource before its first callback another job.                         *)

\* What KeptInv says of o survives the step.
Leaves(o) ==
  \/ block[o] = "unused" /\ block'[o] = "unused" /\ obj'[o] = obj[o]
  \/ /\ block[o] # "unused" /\ block'[o] # "unused"
     /\ block'[o] = "live" => block[o] = "live"
     /\ obj'[o].good = obj[o].good /\ obj'[o].result = obj[o].result
     /\ obj'[o].loads = 0 => obj[o].loads = 0
     /\ obj[o].asked => obj'[o].asked

\* It has no new job, unless it was called back before.
NoNewJob(o) ==
  obj'[o].loads = 0 /\ block'[o] = "live" =>
    /\ InQueue(o)' => InQueue(o)
    /\ \A w \in Workers : wobj'[w] = o /\ wpc'[w] \in {"begin", "load"} =>
         InQueue(o) \/ (wobj[w] = o /\ wpc[w] \in {"begin", "load"})

\* If it is freed, the caller said so or its first load failed.
FreedRightly(o) ==
  block'[o] = "freed" =>
    \/ block[o] = "freed" \/ obj[o].asked \/ Destroyed'
    \/ block[o] = "live" /\ obj[o].loads = 0 /\ obj[o].result = -1

LEMMA LeavesKept ==
  ASSUME KeptInv, conf' = conf, Destroyed => Destroyed',
         \A o \in Objs : Leaves(o),
         conf.done_func => \A o \in Objs : NoNewJob(o) /\ FreedRightly(o)
  PROVE  KeptInv'
<1>1. UnusedIsNull'
  BY DEF KeptInv, UnusedIsNull, Leaves
<1>2. FirstGood'
  BY DEF KeptInv, FirstGood, Leaves, NoNewJob
<1>3. FreedWasBad'
  BY DEF KeptInv, FirstGood, FreedWasBad, Leaves, FreedRightly
<1> QED  BY <1>1, <1>2, <1>3 DEF KeptInv

\* A step that changes no resource.
LEMMA SameResources ==
  ASSUME KeptInv, UNCHANGED <<conf, obj, block>>, Destroyed => Destroyed',
         \A o \in Objs : NoNewJob(o)
  PROVE  KeptInv'
<1>1. \A o \in Objs : Leaves(o) /\ FreedRightly(o)
  BY DEF Leaves, FreedRightly
<1> QED  BY <1>1, LeavesKept

LEMMA SameJobs ==
  ASSUME UNCHANGED <<queue, wpc, wobj>>, NEW o \in Objs
  PROVE  NoNewJob(o)
BY DEF NoNewJob, InQueue

\* r is s with nothing changed that matters here, but that it may have been
\* called back or removed.
Keeps(r, s) ==
  /\ r.good = s.good /\ r.result = s.result
  /\ r.loads = 0 => s.loads = 0
  /\ s.asked => r.asked

\* A step that writes one resource.
LEMMA OneResource ==
  ASSUME ResmanInv, NEW o \in Objs, NEW r, Put(o, r), block[o] # "unused",
         Keeps(r, obj[o]),
         \A p \in Objs : \/ block'[p] = block[p]
                         \/ block[p] = "live" /\ block'[p] = "freed"
  PROVE  \A p \in Objs : Leaves(p)
<1>1. obj \in [Objs -> Resource \cup {NULL}]
  BY DEF ResmanInv, ResourceType
<1>2. obj'[o] = r /\ \A p \in Objs : p # o => obj'[p] = obj[p]
  BY <1>1 DEF Put
<1> QED  BY <1>2 DEF Leaves, Keeps

-----------------------------------------------------------------------------
(* The workers.                                                            *)

LEMMA WorkerKeeps ==
  ASSUME ResmanInv, KeptInv, NEW w \in Workers,
         Take(w) \/ BeginTask(w) \/ Unlock(w) \/ Report(w) \/ UseAfterFree(w)
  PROVE  KeptInv'
<1>0. ThreadType /\ ResourceType
  BY DEF ResmanInv
<1>1. CASE Take(w)
  <2>1. /\ UNCHANGED <<conf, obj, block, mpc>>
        /\ wpc' = [wpc EXCEPT ![w] = "begin"] /\ wobj' = [wobj EXCEPT ![w] = queue[1]]
        /\ Len(queue) \in Nat /\ Len(queue) >= 1 /\ Len(queue') = Len(queue) - 1
        /\ \A k \in 1..Len(queue') : queue'[k] = queue[k + 1]
    BY <1>1, TakeEffect DEF Take, shared
  <2>2. \A p : InQueue(p) <=> InQueue(p)' \/ p = queue[1]
    BY <2>1, TakenQueue
  <2>3. \A o \in Objs : NoNewJob(o)
    BY <1>0, <2>1, <2>2 DEF NoNewJob, ThreadType
  <2> QED  BY <2>1, <2>3, SameResources DEF Destroyed
<1>2. CASE BeginTask(w)
  <2>1. /\ UNCHANGED <<conf, obj, block, queue, wobj, mpc>>
        /\ wpc[w] = "begin" /\ wpc' = [wpc EXCEPT ![w] = "load"]
    BY <1>2, BeginTaskEffect
  <2>2. \A o \in Objs : NoNewJob(o)
    BY <1>0, <2>1 DEF NoNewJob, InQueue, ThreadType
  <2> QED  BY <2>1, <2>2, SameResources DEF Destroyed
<1>3. CASE Unlock(w) \/ Report(w)
  <2>1. /\ UNCHANGED <<conf, obj, block, queue, mpc>>
        /\ wpc'[w] \in {"report", "idle"}
        /\ \A v \in Workers : v # w => wpc'[v] = wpc[v] /\ wobj'[v] = wobj[v]
    BY <1>0, <1>3 DEF ThreadType, Unlock, Work, Report, shared, main
  <2>2. \A o \in Objs : NoNewJob(o)
    BY <1>0, <2>1 DEF NoNewJob, InQueue
  <2> QED  BY <2>1, <2>2, SameResources DEF Destroyed
<1>4. CASE UseAfterFree(w)
  <2>1. UNCHANGED <<conf, obj, block, queue, wpc, wobj, mpc>>
    BY <1>4 DEF UseAfterFree, shared, worker, main
  <2> QED  BY <2>1, SameJobs, SameResources DEF Destroyed
<1> QED  BY <1>1, <1>2, <1>3, <1>4

\* If the load of a resource that was not called back succeeds, it was the only
\* job of that resource.
LEMMA LoadKeeps ==
  ASSUME ResmanInv, KeptInv, NEW w \in Workers, Load(w)
  PROVE  KeptInv'
<1> DEFINE o == wobj[w]
<1>0. /\ ResourceType /\ ThreadType /\ First /\ UnusedIsNull /\ FirstGood /\ FreedWasBad
  BY DEF ResmanInv, KeptInv
<1>1. /\ UNCHANGED <<conf, block, queue, wobj, mpc>>
      /\ wpc[w] = "load" /\ wpc' = [wpc EXCEPT ![w] = "loaded"]
      /\ o \in Objs /\ block[o] = "live" /\ obj[o] \in Resource
  BY <1>0, LoadEffect DEF ResourceType, Load, Work
<1>2. PICK x \in {0, -1} : obj' = [obj EXCEPT ![o].result = x, ![o].good = @ \/ x = 0]
  BY DEF Load
<1>3. /\ obj'[o].result = x /\ (obj'[o].good => obj[o].good \/ x = 0)
      /\ obj'[o].loads = obj[o].loads
      /\ \A p \in Objs : p # o => obj'[p] = obj[p]
  BY <1>0, <1>1, <1>2 DEF ResourceType, Resource
<1>4. UnusedIsNull'
  BY <1>0, <1>1, <1>3 DEF UnusedIsNull
<1>5. FirstGood'
  <2> SUFFICES ASSUME conf.done_func, NEW p \in Objs, block[p] = "live",
                      obj'[p].loads = 0, obj'[p].good
               PROVE  /\ obj'[p].result = 0
                      /\ ~InQueue(p)'
                      /\ \A v \in Workers : wobj'[v] = p => wpc'[v] \notin {"begin", "load"}
    BY <1>1 DEF FirstGood
  <2>1. CASE p # o
    <3>1. /\ obj[p].result = 0 /\ ~InQueue(p)
          /\ \A v \in Workers : wobj[v] = p => wpc[v] \notin {"begin", "load"}
      BY <1>0, <1>3, <2>1 DEF FirstGood
    <3> QED  BY <1>0, <1>1, <1>3, <2>1, <3>1 DEF InQueue, ThreadType
  <2>2. CASE p = o
    <3>1. ~obj[o].good
      BY <1>0, <1>1, <1>3, <2>2 DEF FirstGood
    <3>2. Has(w, o)
      BY <1>1 DEF Has
    <3>3. FirstJob(o)
      BY <1>0, <1>1, <1>3, <2>2 DEF First
    <3>4. ~InQueue(o) /\ \A v \in Workers : Has(v, o) => v = w
      BY <3>2, <3>3 DEF FirstJob, HasOne, HasNone
    <3>5. \A v \in Workers : wobj[v] = o /\ wpc[v] \in {"begin", "load"} => v = w
      BY <3>4 DEF Has
    <3> QED  BY <1>0, <1>1, <1>3, <2>2, <3>1, <3>4, <3>5 DEF InQueue, ThreadType
  <2> QED  BY <2>1, <2>2
<1>6. FreedWasBad'
  BY <1>0, <1>1, <1>3 DEF FreedWasBad, Destroyed
<1> QED  BY <1>4, <1>5, <1>6 DEF KeptInv

LEMMA ClearPendingKeeps ==
  ASSUME ResmanInv, KeptInv, NEW w \in Workers, ClearPending(w) \/ FlagDone(w)
  PROVE  KeptInv'
<1> DEFINE o == wobj[w]
<1>0. ResourceType /\ ThreadType
  BY DEF ResmanInv
<1>1. /\ UNCHANGED <<conf, block, queue, wobj, mpc>>
      /\ wpc'[w] \in {"flag", "unlock"} /\ \A v \in Workers : v # w => wpc'[v] = wpc[v]
      /\ o \in Objs /\ block[o] = "live" /\ obj[o] \in Resource
  BY <1>0 DEF ResourceType, ThreadType, ClearPending, FlagDone, Work, main
<1>2. PICK r : Put(o, r) /\ Keeps(r, obj[o])
  <2>1. CASE ClearPending(w)
    <3> DEFINE r == [obj[o] EXCEPT !.pending = FALSE]
    <3>1. obj' = [obj EXCEPT ![o] = r]
      BY <1>0, <1>1, <2>1 DEF ClearPending, Set, ResourceType
    <3>2. r \in Resource /\ Keeps(r, obj[o])
      BY <1>1 DEF Resource, Keeps
    <3> QED  BY <1>1, <3>1, <3>2 DEF Put
  <2>2. CASE FlagDone(w)
    <3> DEFINE r == Flagged(obj[o])
    <3>1. obj' = [obj EXCEPT ![o] = r]
      BY <2>2 DEF FlagDone, Store
    <3>2. r \in Resource /\ Keeps(r, obj[o])
      BY <1>1 DEF Resource, Flagged, StartWatch, Keeps
    <3> QED  BY <1>1, <3>1, <3>2 DEF Put
  <2> QED  BY <2>1, <2>2
<1>3. \A p \in Objs : Leaves(p)
  BY <1>1, <1>2, OneResource
<1>4. \A p \in Objs : NoNewJob(p) /\ FreedRightly(p)
  BY <1>1 DEF NoNewJob, FreedRightly, InQueue
<1> QED  BY <1>1, <1>3, <1>4, LeavesKept DEF Destroyed

-----------------------------------------------------------------------------
(* Calls, polls, and the world outside.                                    *)

\* One resource is written, and no job added.
LEMMA WritesOne ==
  ASSUME ResmanInv, KeptInv, NEW o \in Objs, block[o] = "live",
         UNCHANGED <<conf, block, queue, wpc, wobj>>, Destroyed => Destroyed',
         NEW r, Put(o, r), Keeps(r, obj[o])
  PROVE  KeptInv'
<1>1. \A p \in Objs : Leaves(p)
  BY OneResource
<1>2. \A p \in Objs : NoNewJob(p) /\ FreedRightly(p)
  BY SameJobs DEF FreedRightly
<1> QED  BY <1>1, <1>2, LeavesKept

\* One resource, which was called back before, is written and gets a job.
LEMMA Reloads ==
  ASSUME ResmanInv, KeptInv, NEW o \in Objs, block[o] = "live",
         conf.done_func => obj[o].loads # 0,
         UNCHANGED <<conf, block, wpc, wobj>>, Destroyed => Destroyed',
         queue' = Append(queue, o),
         NEW r, Put(o, r), Keeps(r, obj[o])
  PROVE  KeptInv'
<1>1. \A p \in Objs : Leaves(p)
  BY OneResource
<1>2. queue \in Seq(Objs) /\ obj \in [Objs -> Resource \cup {NULL}]
  BY DEF ResmanInv, ResourceType
<1>3. \A p : InQueue(p)' <=> InQueue(p) \/ p = o
  BY <1>2, AppendFacts, AppendedQueue
<1>4. ASSUME conf.done_func, NEW p \in Objs PROVE NoNewJob(p) /\ FreedRightly(p)
  <2>1. p = o => obj'[p].loads # 0
    BY <1>2, <1>4 DEF Put, Keeps
  <2> QED  BY <1>3, <2>1 DEF NoNewJob, FreedRightly
<1> QED  BY <1>1, <1>4, LeavesKept

LEMMA RemoveKeeps ==
  ASSUME ResmanInv, KeptInv, NEW k \in Ids, Remove(k)
  PROVE  KeptInv'
<1> DEFINE o == slot[k]
           r == [obj[o] EXCEPT !.del = TRUE, !.asked = TRUE]
<1>1. /\ UNCHANGED <<conf, block, queue, wpc, wobj, mpc>>
      /\ o \in Objs /\ block[o] = "live"
  BY RemoveEffect
<1>2. obj \in [Objs -> Resource \cup {NULL}] /\ obj[o] \in Resource
  BY <1>1 DEF ResmanInv, ResourceType
<1>3. r \in Resource /\ Keeps(r, obj[o])
  BY <1>2 DEF Resource, Keeps
<1>4. obj' = [obj EXCEPT ![o] = r]
  BY <1>2 DEF Remove
<1>5. Put(o, r)
  BY <1>1, <1>3, <1>4 DEF Put
<1> HIDE DEF r
<1> QED  BY <1>1, <1>3, <1>5, WritesOne DEF Destroyed

LEMMA TimeUpKeeps ==
  ASSUME ResmanInv, KeptInv, NEW o \in Objs, TimeUp(o)
  PROVE  KeptInv'
<1> DEFINE r == [obj[o] EXCEPT !.timer = "due"]
<1>1. UNCHANGED <<conf, block, queue, wpc, wobj, mpc>> /\ block[o] = "live"
  BY TimeUpEffect
<1>2. obj \in [Objs -> Resource \cup {NULL}] /\ obj[o] \in Resource
  BY <1>1 DEF ResmanInv, ResourceType
<1>3. r \in Resource /\ Keeps(r, obj[o])
  BY <1>2 DEF Resource, Keeps
<1>4. obj' = [obj EXCEPT ![o] = r]
  BY <1>2 DEF TimeUp, Set
<1>5. Put(o, r)
  BY <1>3, <1>4 DEF Put
<1> HIDE DEF r
<1> QED  BY <1>1, <1>3, <1>5, WritesOne DEF Destroyed

LEMMA CheckKeeps ==
  ASSUME ResmanInv, KeptInv, Modified \/ Replaced \/ Deleted
  PROVE  KeptInv'
<1> DEFINE o == event.obj
<1>1. /\ UNCHANGED <<conf, block, wpc, wobj>> /\ mpc = "sweep"
      /\ o \in Objs /\ block[o] = "live" /\ obj[o].watch = "on"
  BY ModifiedEffect, ReplacedEffect, DeletedEffect DEF Modified, Deleted, Watched
<1>2. obj \in [Objs -> Resource \cup {NULL}] /\ obj[o] \in Resource
  BY <1>1 DEF ResmanInv, ResourceType
<1>3. ~Destroyed
  BY <1>1 DEF Destroyed
<1>4. CASE Modified
  <2> DEFINE r == [obj[o] EXCEPT !.timer = "armed"]
  <2>1. r \in Resource /\ Keeps(r, obj[o])
    BY <1>2 DEF Resource, Keeps
  <2>2. obj' = [obj EXCEPT ![o] = r] /\ queue' = queue
    BY <1>2, <1>4 DEF Modified, Set
  <2>3. Put(o, r)
    BY <1>1, <2>1, <2>2 DEF Put
  <2> HIDE DEF r
  <2> QED  BY <1>1, <1>3, <2>1, <2>2, <2>3, WritesOne
<1>5. CASE Deleted
  <2> DEFINE r == [obj[o] EXCEPT !.watch = "dropped"]
  <2>1. r \in Resource /\ Keeps(r, obj[o])
    BY <1>2 DEF Resource, Keeps
  <2>2. obj' = [obj EXCEPT ![o] = r] /\ queue' = queue
    BY <1>2, <1>5 DEF Deleted, Set
  <2>3. Put(o, r)
    BY <1>1, <2>1, <2>2 DEF Put
  <2> HIDE DEF r
  <2> QED  BY <1>1, <1>3, <2>1, <2>2, <2>3, WritesOne
<1>6. CASE Replaced
  <2> DEFINE r == [obj[o] EXCEPT !.pending = TRUE]
  <2>1. r \in Resource /\ Keeps(r, obj[o])
    BY <1>2 DEF Resource, Keeps
  <2>2. obj' = [obj EXCEPT ![o] = r] /\ queue' = Append(queue, o)
    BY <1>2, <1>6 DEF Replaced, Set
  <2>3. Put(o, r)
    BY <1>1, <2>1, <2>2 DEF Put
  <2>4. conf.done_func => obj[o].loads # 0
    BY <1>1 DEF ResmanInv, Watch
  <2> HIDE DEF r
  <2> QED  BY <1>1, <1>3, <2>1, <2>2, <2>3, <2>4, Reloads
<1> QED  BY <1>4, <1>5, <1>6

LEMMA ScanReloadKeeps ==
  ASSUME ResmanInv, KeptInv, NEW o \in Objs, ScanReload(o)
  PROVE  KeptInv'
<1> DEFINE r == [obj[o] EXCEPT !.timer = "off", !.pending = TRUE]
<1>1. /\ UNCHANGED <<conf, block, wpc, wobj, mpc>>
      /\ block[o] = "live" /\ obj[o].timer # "off"
  BY ScanReloadEffect
<1>2. obj \in [Objs -> Resource \cup {NULL}] /\ obj[o] \in Resource
  BY <1>1 DEF ResmanInv, ResourceType
<1>3. r \in Resource /\ Keeps(r, obj[o])
  BY <1>2 DEF Resource, Keeps
<1>4. obj' = [obj EXCEPT ![o] = r] /\ queue' = Append(queue, o)
  BY <1>2 DEF ScanReload
<1>5. Put(o, r)
  BY <1>3, <1>4 DEF Put
<1>6. conf.done_func => obj[o].loads # 0
  BY <1>1 DEF ResmanInv, Watch
<1> HIDE DEF r
<1> QED  BY <1>1, <1>3, <1>4, <1>5, <1>6, Reloads DEF Destroyed

LEMMA ScanDoneKeeps ==
  ASSUME ResmanInv, KeptInv, NEW o \in Objs, ScanDone(o)
  PROVE  KeptInv'
<1> DEFINE c == [obj[o] EXCEPT !.done = FALSE, !.loads = @ + 1]
           r == StartWatch(c)
<1>1. /\ UNCHANGED <<conf, block, queue, wpc, wobj>>
      /\ block[o] = "live" /\ mpc = "scan"
  BY ScanDoneEffect
<1>2. obj[o] \in Resource
  BY <1>1 DEF ResmanInv, ResourceType
<1>3. c \in Resource /\ c.loads # 0
  BY <1>2, CountedIsResource
<1>4. c.good = obj[o].good /\ c.result = obj[o].result /\ c.asked = obj[o].asked
  BY <1>2 DEF Resource
<1>5. obj' = [obj EXCEPT ![o] = r]
  BY DEF ScanDone, Store
<1> HIDE DEF c
<1>6. r \in Resource /\ Keeps(r, obj[o])
  BY <1>3, <1>4 DEF Resource, StartWatch, Keeps
<1>7. Put(o, r)
  BY <1>5, <1>6 DEF Put
<1> HIDE DEF r
<1> QED  BY <1>1, <1>6, <1>7, WritesOne DEF Destroyed

-----------------------------------------------------------------------------
(* The steps that allocate and free.                                       *)

LEMMA SweepKeeps ==
  ASSUME ResmanInv, KeptInv, Sweep
  PROVE  KeptInv'
<1>1. /\ UNCHANGED <<conf, obj, queue, wpc, wobj, mpc>>
      /\ \/ UNCHANGED block
         \/ /\ slot[i] \in Objs /\ block[slot[i]] = "live" /\ obj[slot[i]].del
            /\ block' = [block EXCEPT ![slot[i]] = "freed"]
  BY SweepEffect, Nulls DEF ResmanInv, SlotsLive
<1>2. /\ block \in [Objs -> {"unused", "live", "freed"}]
      /\ conf.done_func => \A o \in Objs : block[o] = "live" /\ obj[o].del => obj[o].asked
  BY DEF ResmanInv, ResourceType, Watch
<1>3. \A o \in Objs : \/ block'[o] = block[o]
                      \/ block[o] = "live" /\ block'[o] = "freed" /\ obj[o].del
  BY <1>1, <1>2
<1>4. \A o \in Objs : Leaves(o)
  BY <1>1, <1>3 DEF Leaves
<1>5. conf.done_func => \A o \in Objs : NoNewJob(o) /\ FreedRightly(o)
  BY <1>1, <1>2, <1>3, SameJobs DEF FreedRightly
<1> QED  BY <1>1, <1>4, <1>5, LeavesKept DEF Destroyed

LEMMA ScanFailedKeeps ==
  ASSUME ResmanInv, KeptInv, NEW o \in Objs, ScanFailed(o)
  PROVE  KeptInv'
<1> DEFINE r == [obj[o] EXCEPT !.done = FALSE]
<1>1. /\ UNCHANGED <<conf, queue, wpc, wobj, mpc>>
      /\ block[o] = "live" /\ obj[o].loads = 0
      /\ \/ UNCHANGED block
         \/ block' = [block EXCEPT ![o] = "freed"]
  BY ScanFailedEffect
<1>2. /\ obj \in [Objs -> Resource \cup {NULL}] /\ obj[o] \in Resource
      /\ block \in [Objs -> {"unused", "live", "freed"}]
  BY <1>1 DEF ResmanInv, ResourceType
<1>3. r \in Resource /\ Keeps(r, obj[o])
  BY <1>2 DEF Resource, Keeps
<1>4. obj' = [obj EXCEPT ![o] = r] /\ obj[o].result = -1
  BY <1>2 DEF ScanFailed, Set
<1>5. Put(o, r)
  BY <1>3, <1>4 DEF Put
<1> HIDE DEF r
<1>6. \A p \in Objs : block'[p] = block[p] \/ (p = o /\ block'[p] = "freed")
  BY <1>1, <1>2
<1>7. \A p \in Objs : Leaves(p)
  BY <1>1, <1>3, <1>5, <1>6, OneResource
<1>8. \A p \in Objs : NoNewJob(p) /\ FreedRightly(p)
  BY <1>1, <1>4, <1>6, SameJobs DEF FreedRightly
<1> QED  BY <1>1, <1>7, <1>8, LeavesKept DEF Destroyed

LEMMA DestroyKeeps ==
  ASSUME ResmanInv, KeptInv, Destroy
  PROVE  KeptInv'
<1>1. /\ UNCHANGED <<conf, obj, queue, wpc, wobj>> /\ mpc' = "release"
      /\ block' = [o \in Objs |-> IF block[o] = "live" THEN "freed" ELSE block[o]]
  BY DestroyEffect
<1>2. Destroyed'
  BY <1>1 DEF Destroyed
<1>3. \A o \in Objs : Leaves(o)
  BY <1>1 DEF Leaves
<1>4. \A o \in Objs : NoNewJob(o) /\ FreedRightly(o)
  BY <1>1, <1>2, SameJobs DEF FreedRightly
<1> QED  BY <1>1, <1>2, <1>3, <1>4, LeavesKept

\* A new resource was never loaded, and nothing is added to what others have.
LEMMA AddKeeps ==
  ASSUME ResmanInv, KeptInv, NEW n \in Names, NEW o \in Objs, Add(n, o)
  PROVE  KeptInv'
<1>0. ResourceType /\ UnusedIsNull /\ FirstGood /\ FreedWasBad
  BY DEF ResmanInv, KeptInv
<1>1. /\ UNCHANGED <<conf, wpc, wobj, mpc>>
      /\ block' = [block EXCEPT ![o] = "live"]
      /\ queue' = Append(queue, o)
      /\ obj' = [obj EXCEPT ![o] = [NewRes(n) EXCEPT !.pending = TRUE]]
  BY AddEffect DEF Add
<1>2. ~obj'[o].good /\ block'[o] = "live"
      /\ \A p \in Objs : p # o => obj'[p] = obj[p] /\ block'[p] = block[p]
  BY <1>0, <1>1 DEF ResourceType, NewRes
<1>3. \A p : InQueue(p)' <=> InQueue(p) \/ p = o
  BY <1>0, <1>1, AppendFacts, AppendedQueue DEF ResourceType
<1>4. UnusedIsNull'
  BY <1>0, <1>2 DEF UnusedIsNull
<1>5. FirstGood'
  BY <1>0, <1>1, <1>2, <1>3 DEF FirstGood
<1>6. FreedWasBad'
  BY <1>0, <1>1, <1>2 DEF FreedWasBad, Destroyed
<1> QED  BY <1>4, <1>5, <1>6 DEF KeptInv

\* The steps that write no resource, and add no job.
LEMMA OthersKeep ==
  ASSUME KeptInv, UNCHANGED <<conf, obj, block, wpc, wobj>>,
         queue' = queue \/ queue' = <<>>, Destroyed => Destroyed'
  PROVE  KeptInv'
<1>1. \A o : InQueue(o)' => InQueue(o)
  <2>1. CASE queue' = queue  BY <2>1 DEF InQueue
  <2>2. CASE queue' = <<>>  BY <2>2 DEF InQueue
  <2> QED  BY <2>1, <2>2
<1>2. \A o \in Objs : NoNewJob(o)
  BY <1>1 DEF NoNewJob
<1> QED  BY <1>2, SameResources

-----------------------------------------------------------------------------
LEMMA InitKept == Init => KeptInv
BY DEF Init, KeptInv, UnusedIsNull, FirstGood, FreedWasBad

LEMMA NextKept == ResmanInv /\ KeptInv /\ [Next]_vars => KeptInv'
<1> SUFFICES ASSUME ResmanInv, KeptInv, [Next]_vars PROVE KeptInv'
  OBVIOUS
<1>1. ASSUME NEW w \in Workers, WorkerStep(w) PROVE KeptInv'
  BY <1>1, WorkerKeeps, LoadKeeps, ClearPendingKeeps DEF WorkerStep
<1>2. ASSUME MainStep PROVE KeptInv'
  <2>1. CASE Sweep  BY <2>1, SweepKeeps
  <2>2. CASE Modified \/ Replaced \/ Deleted  BY <2>2, CheckKeeps
  <2>3. ASSUME NEW o \in Objs, ScanReload(o) \/ ScanSkip(o) \/ ScanFailed(o) \/ ScanDone(o)
        PROVE  KeptInv'
    <3>1. CASE ScanSkip(o)
      BY <3>1, OthersKeep DEF ScanSkip, Scan, NextIndex, worker, Destroyed
    <3> QED  BY <2>3, <3>1, ScanReloadKeeps, ScanFailedKeeps, ScanDoneKeeps
  <2>4. CASE NoEvent
    BY <2>4, OthersKeep DEF NoEvent, CheckWatch, worker, Destroyed
  <2>5. CASE Drain \/ ScanNull \/ ScanEnd
    BY <2>5, OthersKeep DEF Drain, ScanNull, ScanEnd, NextIndex, MainGoto, shared, worker, Destroyed
  <2>6. CASE Select \/ AllDone \/ TestPending \/ CountJobs \/ WaitPending
    BY <2>6, OthersKeep DEF Select, AllDone, TestPending, CountJobs, WaitPending, MainGoto,
       shared, worker, Destroyed
  <2>7. CASE Release \/ Join
    BY <2>7, OthersKeep DEF Release, Join, MainGoto, shared, worker, Destroyed
  <2> QED  BY <1>2, <2>1, <2>2, <2>3, <2>4, <2>5, <2>6, <2>7 DEF MainStep
<1>3. ASSUME MainLoop PROVE KeptInv'
  BY <1>3, OthersKeep DEF MainLoop, Poll, Wait, MainGoto, shared, worker, Destroyed
<1>4. ASSUME MainCall PROVE KeptInv'
  <2>1. ASSUME NEW n \in Names, NullDeref(n) PROVE KeptInv'
    BY <2>1, OthersKeep DEF NullDeref, shared, worker, main, Destroyed
  <2>2. ASSUME NEW n \in Names, NEW o \in Objs, Add(n, o) PROVE KeptInv'
    BY <2>2, AddKeeps
  <2>3. ASSUME NEW k \in Ids, Remove(k) PROVE KeptInv'
    BY <2>3, RemoveKeeps
  <2>4. ASSUME NEW k \in Ids, WaitJob(k) PROVE KeptInv'
    BY <2>4, OthersKeep DEF WaitJob, Call, shared, worker, Destroyed
  <2>5. CASE WaitAll
    BY <2>5, OthersKeep DEF WaitAll, Call, MainGoto, shared, worker, Destroyed
  <2>6. CASE Destroy  BY <2>6, DestroyKeeps
  <2> QED  BY <1>4, <2>1, <2>2, <2>3, <2>4, <2>5, <2>6 DEF MainCall
<1>5. ASSUME NEW o \in Objs, TimeUp(o) PROVE KeptInv'
  BY <1>5, TimeUpKeeps
<1>6. ASSUME NEW o \in Objs, NEW kind \in {"modified", "replaced", "deleted"},
             FileEvent(o, kind)
      PROVE  KeptInv'
  BY <1>6, OthersKeep DEF FileEvent, shared, worker, main, Destroyed
<1>7. CASE UNCHANGED vars
  BY <1>7, OthersKeep DEF vars, shared, worker, main, Destroyed
<1> QED  BY <1>1, <1>2, <1>3, <1>4, <1>5, <1>6, <1>7 DEF Next

\* With a done_func a resource that was loaded once is kept until the caller
\* removes it, whatever later reloads return (resman.c:311-321).
THEOREM LoadedIsKept == Spec => []GoodIsKeptWhenDone
<1>1. Spec => []KeptInv
  BY InitKept, NextKept, Invariance, PTL DEF Spec
<1>2. ResmanInv /\ KeptInv => GoodIsKeptWhenDone
  BY DEF ResmanInv, ResourceType, Watch, KeptInv, UnusedIsNull, FreedWasBad,
     GoodIsKept, GoodIsKeptWhenDone
<1> QED  BY <1>1, <1>2, Invariance, PTL

-----------------------------------------------------------------------------
(* Types, and the keys of nresmap.                                        *)


\* The blocks whose file is watched, of which each has a key in nresmap.
WatchedIn(blocks, resources) ==
  {o \in Objs : blocks[o] = "live" /\ resources[o].watch = "on"}

Keys ==
  /\ nresmap \in Nat
  /\ fault = "none" => Cardinality(WatchedIn(block, obj)) <= nresmap

RestType ==
  /\ conf \in Confs /\ target \in Int /\ wake \in BOOLEAN
  /\ stale \subseteq Names /\ nevents \in 0..MaxEvents
  /\ fault \in {"none", "null_deref", "use_after_free"}

LEMMA WatchedFinite ==
  ASSUME NEW blocks, NEW resources
  PROVE  /\ IsFiniteSet(WatchedIn(blocks, resources))
         /\ Cardinality(WatchedIn(blocks, resources)) \in Nat
<1>1. WatchedIn(blocks, resources) \subseteq Objs
  BY DEF WatchedIn
<1>2. IsFiniteSet(WatchedIn(blocks, resources))
  BY <1>1, ResmanAssumption, FS_Subset
<1> QED  BY <1>2, FS_CardinalityType

LEMMA NoNewKey ==
  ASSUME Keys, fault = "none", nresmap' \in Nat, nresmap' >= nresmap,
         WatchedIn(block', obj') \subseteq WatchedIn(block, obj)
  PROVE  Keys'
<1>1. Cardinality(WatchedIn(block', obj')) <= Cardinality(WatchedIn(block, obj))
  BY WatchedFinite, FS_Subset
<1>2. Cardinality(WatchedIn(block, obj)) \in Nat /\ Cardinality(WatchedIn(block', obj')) \in Nat
  BY WatchedFinite
<1> QED  BY <1>1, <1>2 DEF Keys

LEMMA OneKeyMore ==
  ASSUME Keys, fault = "none", nresmap' = nresmap + 1, NEW o \in Objs,
         WatchedIn(block', obj') \subseteq WatchedIn(block, obj) \cup {o}
  PROVE  Keys'
<1> DEFINE now == WatchedIn(block, obj)
           then == WatchedIn(block', obj')
<1>1. /\ IsFiniteSet(now) /\ Cardinality(now) \in Nat
      /\ IsFiniteSet(then) /\ Cardinality(then) \in Nat
  BY WatchedFinite
<1> HIDE DEF now, then
<1>2. IsFiniteSet(now \cup {o}) /\ Cardinality(now \cup {o}) <= Cardinality(now) + 1
  <2>1. IsFiniteSet(now \cup {o}) /\
        Cardinality(now \cup {o}) = IF o \in now THEN Cardinality(now) ELSE Cardinality(now) + 1
    BY <1>1, FS_AddElement
  <2> QED  BY <1>1, <2>1
<1>3. Cardinality(then) <= Cardinality(now \cup {o}) /\ Cardinality(now \cup {o}) \in Nat
  BY <1>2, FS_Subset, FS_CardinalityType DEF now, then
<1>4. Cardinality(then) <= Cardinality(now) + 1
  BY <1>1, <1>2, <1>3
<1> QED  BY <1>1, <1>4 DEF Keys, now, then

LEMMA OneKeyLess ==
  ASSUME Keys, fault = "none", nresmap > 1, nresmap' = nresmap - 1,
         NEW o \in WatchedIn(block, obj),
         WatchedIn(block', obj') \subseteq WatchedIn(block, obj) \ {o}
  PROVE  Keys'
<1> DEFINE now == WatchedIn(block, obj)
           then == WatchedIn(block', obj')
<1>1. /\ IsFiniteSet(now) /\ Cardinality(now) \in Nat
      /\ IsFiniteSet(then) /\ Cardinality(then) \in Nat
  BY WatchedFinite
<1> HIDE DEF now, then
<1>2. IsFiniteSet(now \ {o}) /\ Cardinality(now \ {o}) = Cardinality(now) - 1
  BY <1>1, FS_RemoveElement DEF now
<1>3. Cardinality(then) <= Cardinality(now \ {o})
  BY <1>2, FS_Subset DEF now, then
<1> QED  BY <1>1, <1>2, <1>3 DEF Keys, now, then

\* One resource is written and keeps its watch; blocks may be freed.
LEMMA SameWatch ==
  ASSUME ResmanInv, Keys, fault = "none", nresmap' \in Nat, nresmap' >= nresmap,
         NEW o, NEW r, Put(o, r), r.watch = obj[o].watch,
         \A p \in Objs : block'[p] = "live" => block[p] = "live"
  PROVE  Keys'
<1>1. obj \in [Objs -> Resource \cup {NULL}]
  BY DEF ResmanInv, ResourceType
<1>2. obj'[o] = r /\ \A p \in Objs : p # o => obj'[p] = obj[p]
  BY <1>1 DEF Put
<1>3. WatchedIn(block', obj') \subseteq WatchedIn(block, obj)
  BY <1>2 DEF WatchedIn
<1> QED  BY <1>3, NoNewKey

\* No resource is written.
LEMMA SameResource ==
  ASSUME Keys, fault = "none", nresmap' = nresmap, obj' = obj,
         \A p \in Objs : block'[p] = "live" => block[p] = "live"
  PROVE  Keys'
<1>1. WatchedIn(block', obj') \subseteq WatchedIn(block, obj)
  BY DEF WatchedIn
<1> QED  BY <1>1, NoNewKey DEF Keys

\* A resource is stored whose watch is the same, or new.
LEMMA Stored ==
  ASSUME ResmanInv, Keys, fault = "none", NEW o \in Objs, NEW r, Store(o, r), block' = block,
         r.watch = obj[o].watch \/ r.watch = "on"
  PROVE  Keys'
<1>1. obj'[o] = r /\ \A p \in Objs : p # o => obj'[p] = obj[p]
  BY DEF ResmanInv, ResourceType, Store
<1>2. CASE r.watch = obj[o].watch
  <2>1. WatchedIn(block', obj') \subseteq WatchedIn(block, obj)
    BY <1>1, <1>2 DEF WatchedIn
  <2>2. nresmap' = nresmap /\ nresmap \in Nat
    BY <1>2 DEF Store, Keys
  <2> QED  BY <2>1, <2>2, NoNewKey
<1>3. CASE r.watch # obj[o].watch
  <2>1. WatchedIn(block', obj') \subseteq WatchedIn(block, obj) \cup {o}
    BY <1>1, <1>3 DEF WatchedIn
  <2>2. nresmap' = nresmap + 1
    BY <1>3 DEF Store
  <2> QED  BY <2>1, <2>2, OneKeyMore
<1> QED  BY <1>2, <1>3

\* A fault ends what nresmap promises.
LEMMA FaultKeys ==
  ASSUME Keys, nresmap' = nresmap, fault' # "none"
  PROVE  Keys'
BY DEF Keys

\* remove_resource drops the key of the resource, which some other step may write.
LEMMA RemovedKey ==
  ASSUME ResmanInv, Keys, fault = "none", NEW k \in Ids, slot[k] \in Objs,
         block[slot[k]] = "live", RemoveResource(k),
         obj' = obj \/ \E r : Put(slot[k], r) /\ r.watch = obj[slot[k]].watch
  PROVE  Keys'
<1> DEFINE o == slot[k]
<1>0. /\ block \in [Objs -> {"unused", "live", "freed"}]
      /\ obj \in [Objs -> Resource \cup {NULL}]
  BY DEF ResmanInv, ResourceType
<1>1. \A p \in Objs : obj'[p].watch = obj[p].watch
  BY <1>0 DEF Put
<1>2. CASE fault' # "none"
  BY <1>2, FaultKeys DEF RemoveResource
<1>3. CASE fault' = "none"
  <2>1. /\ CanStopWatch(obj[o]) /\ block' = [block EXCEPT ![o] = "freed"]
        /\ nresmap' = IF obj[o].watch = "on" THEN nresmap - 1 ELSE nresmap
    BY <1>3 DEF RemoveResource
  <2>2. block'[o] = "freed" /\ \A p \in Objs : p # o => block'[p] = block[p]
    BY <1>0, <2>1
  <2> HIDE DEF o
  <2>3. WatchedIn(block', obj') \subseteq WatchedIn(block, obj) \ {o}
    BY <1>1, <2>2 DEF WatchedIn
  <2>4. CASE obj[o].watch = "on"
    <3>1. o \in WatchedIn(block, obj) /\ nresmap > 1
      BY <2>1, <2>4 DEF WatchedIn, CanStopWatch, o
    <3> QED  BY <2>1, <2>3, <2>4, <3>1, OneKeyLess
  <2>5. CASE obj[o].watch # "on"
    <3>1. /\ WatchedIn(block', obj') \subseteq WatchedIn(block, obj)
          /\ nresmap' = nresmap /\ nresmap \in Nat
      BY <2>1, <2>3, <2>5 DEF Keys
    <3> QED  BY <3>1, NoNewKey
  <2> QED  BY <2>4, <2>5
<1> QED  BY <1>2, <1>3

-----------------------------------------------------------------------------
LEMMA WorkerKeys ==
  ASSUME ResmanInv, Keys, NEW w \in Workers, WorkerStep(w)
  PROVE  Keys'
<1>0. fault = "none" /\ nresmap \in Nat
  BY DEF WorkerStep, Keys
<1>1. CASE Take(w) \/ BeginTask(w) \/ Unlock(w) \/ Report(w)
  <2>1. UNCHANGED <<nresmap, obj, block>>
    BY <1>1 DEF Take, BeginTask, Unlock, Report, Work, shared
  <2> QED  BY <1>0, <2>1, SameResource
<1>2. CASE Load(w)
  <2>1. UNCHANGED <<nresmap, block>> /\ \E r : Put(wobj[w], r) /\ r.watch = obj[wobj[w]].watch
    BY <1>2, LoadEffect DEF Load, LikeTo
  <2> QED  BY <1>0, <2>1, SameWatch
<1>3. CASE ClearPending(w)
  <2>1. UNCHANGED <<nresmap, block>> /\ \E r : Put(wobj[w], r) /\ r.watch = obj[wobj[w]].watch
    BY <1>3, ClearPendingEffect DEF ClearPending
  <2> QED  BY <1>0, <2>1, SameWatch
<1>4. CASE FlagDone(w)
  <2>1. wobj[w] \in Objs /\ block' = block
    BY <1>4, FlagDoneEffect
  <2>2. Store(wobj[w], Flagged(obj[wobj[w]]))
    BY <1>4 DEF FlagDone
  <2>3. obj[wobj[w]] \in Resource
    BY <1>4, <2>1 DEF FlagDone, Work, ResmanInv, ResourceType
  <2>4. Flagged(obj[wobj[w]]).watch = obj[wobj[w]].watch \/ Flagged(obj[wobj[w]]).watch = "on"
    BY <2>3 DEF Flagged, StartWatch, Resource
  <2> QED  BY <1>0, <2>1, <2>2, <2>4, Stored
<1>5. CASE UseAfterFree(w)
  BY <1>5, FaultKeys DEF UseAfterFree
<1> QED  BY <1>1, <1>2, <1>3, <1>4, <1>5 DEF WorkerStep

LEMMA ScanKeys ==
  ASSUME ResmanInv, Keys, fault = "none", NEW o \in Objs,
         ScanReload(o) \/ ScanSkip(o) \/ ScanFailed(o) \/ ScanDone(o)
  PROVE  Keys'
<1>0. nresmap \in Nat
  BY DEF Keys
<1>1. CASE ScanReload(o)
  <2>1. UNCHANGED <<nresmap, block>> /\ \E r : Put(o, r) /\ r.watch = obj[o].watch
    BY <1>1, ScanReloadEffect DEF ScanReload
  <2> QED  BY <1>0, <2>1, SameWatch
<1>2. CASE ScanSkip(o)
  BY <1>2, SameResource DEF ScanSkip
<1>3. CASE ScanFailed(o)
  <2>1. /\ i \in Ids /\ slot[i] = o /\ block[o] = "live"
        /\ \E r : Put(o, r) /\ r.watch = obj[o].watch
    BY <1>3, ScanFailedEffect DEF Ids
  <2>2. RemoveResource(i)
    BY <1>3 DEF ScanFailed
  <2> QED  BY <2>1, <2>2, RemovedKey
<1>4. CASE ScanDone(o)
  <2> DEFINE r == [obj[o] EXCEPT !.done = FALSE, !.loads = @ + 1]
  <2>1. block' = block /\ block[o] = "live"
    BY <1>4, ScanDoneEffect
  <2>2. Store(o, StartWatch(r))
    BY <1>4 DEF ScanDone
  <2>3. r.watch = obj[o].watch
    BY <2>1 DEF ResmanInv, ResourceType, Resource
  <2> HIDE DEF r
  <2>4. r \in Resource
    BY <2>1, CountedIsResource DEF r, ResmanInv, ResourceType
  <2>5. StartWatch(r).watch = obj[o].watch \/ StartWatch(r).watch = "on"
    BY <2>3, <2>4 DEF StartWatch, Resource
  <2> QED  BY <2>1, <2>2, <2>5, Stored
<1> QED  BY <1>1, <1>2, <1>3, <1>4

LEMMA MainKeys ==
  ASSUME ResmanInv, Keys, MainStep \/ MainLoop
  PROVE  Keys'
<1>0. fault = "none" /\ nresmap \in Nat
  BY DEF MainStep, MainLoop, Keys
<1>1. CASE Sweep
  <2>1. CASE UNCHANGED <<slot, block, nresmap, fault>>
    BY <1>0, <1>1, <2>1, SameResource DEF Sweep
  <2>2. CASE Deletable(i) /\ RemoveResource(i)
    <3>1. i \in Ids /\ slot[i] \in Objs
      BY <1>1, <2>2 DEF Sweep, Deletable, Ids, ResmanInv, ResourceType
    <3>2. block[slot[i]] = "live"
      BY <2>2, <3>1, Nulls DEF ResmanInv, SlotsLive, Ids
    <3> QED  BY <1>0, <1>1, <2>2, <3>1, <3>2, RemovedKey DEF Sweep
  <2> QED  BY <1>1, <2>1, <2>2 DEF Sweep
<1>2. CASE Modified
  <2>1. UNCHANGED <<nresmap, block>> /\ \E r : Put(event.obj, r) /\ r.watch = obj[event.obj].watch
    BY <1>2, ModifiedEffect DEF Modified
  <2> QED  BY <1>0, <2>1, SameWatch
<1>3. CASE Replaced
  <2>1. /\ nresmap' = nresmap + 1 /\ block' = block
        /\ \E r : Put(event.obj, r) /\ r.watch = obj[event.obj].watch
    BY <1>3, ReplacedEffect DEF Replaced
  <2> QED  BY <1>0, <2>1, SameWatch
<1>4. CASE Deleted
  <2> DEFINE o == event.obj
  <2>1. /\ block' = block /\ o \in Objs /\ block[o] = "live" /\ obj[o].watch = "on"
    BY <1>4, DeletedEffect
  <2>2. CASE fault' # "none"
    <3>1. nresmap' = nresmap
      BY <1>0, <1>4, <2>2 DEF Deleted
    <3> QED  BY <2>2, <3>1, FaultKeys
  <2>3. CASE fault' = "none"
    <3>1. nresmap > 1 /\ nresmap' = nresmap - 1
      BY <1>4, <2>3 DEF Deleted
    <3>2. obj'[o].watch = "dropped" /\ \A p \in Objs : p # o => obj'[p] = obj[p]
      BY <1>4, <2>1 DEF Deleted, Set, ResmanInv, ResourceType, Resource
    <3> HIDE DEF o
    <3>3. o \in WatchedIn(block, obj) /\ WatchedIn(block', obj') \subseteq WatchedIn(block, obj) \ {o}
      BY <2>1, <3>2 DEF WatchedIn
    <3> QED  BY <1>0, <3>1, <3>3, OneKeyLess
  <2> QED  BY <2>2, <2>3
<1>5. ASSUME NEW o \in Objs, ScanReload(o) \/ ScanSkip(o) \/ ScanFailed(o) \/ ScanDone(o)
      PROVE  Keys'
  BY <1>0, <1>5, ScanKeys
<1>6. CASE \/ NoEvent \/ Drain \/ ScanNull \/ ScanEnd \/ Select \/ AllDone \/ TestPending
           \/ CountJobs \/ WaitPending \/ Release \/ Join \/ Poll \/ Wait
  <2>1. UNCHANGED <<nresmap, obj, block>>
    BY <1>6 DEF NoEvent, CheckWatch, Drain, ScanNull, ScanEnd, Select, AllDone, TestPending,
       CountJobs, WaitPending, Release, Join, Poll, Wait, shared
  <2> QED  BY <1>0, <2>1, SameResource
<1> QED  BY <1>1, <1>2, <1>3, <1>4, <1>5, <1>6 DEF MainStep, MainLoop

LEMMA CallKeys ==
  ASSUME ResmanInv, Keys, MainCall
  PROVE  Keys'
<1>0. fault = "none" /\ nresmap \in Nat
  BY DEF MainCall, Keys
<1>1. ASSUME NEW n \in Names, NullDeref(n) PROVE Keys'
  BY <1>1, FaultKeys DEF NullDeref
<1>2. ASSUME NEW n \in Names, NEW o \in Objs, Add(n, o) PROVE Keys'
  <2>1. block' = [block EXCEPT ![o] = "live"] /\ \E r : Put(o, r) /\ r.watch = "off"
    BY <1>2, AddEffect
  <2>2. \A p \in Objs : IF p = o THEN obj'[p].watch = "off"
                        ELSE obj'[p] = obj[p] /\ block'[p] = block[p]
    BY <2>1 DEF Put, ResmanInv, ResourceType
  <2>3. WatchedIn(block', obj') \subseteq WatchedIn(block, obj)
    BY <2>2 DEF WatchedIn
  <2>4. nresmap' = nresmap
    BY <1>2 DEF Add
  <2> QED  BY <1>0, <2>3, <2>4, NoNewKey
<1>3. ASSUME NEW k \in Ids, Remove(k) PROVE Keys'
  <2>1. UNCHANGED <<nresmap, block>> /\ \E r : Put(slot[k], r) /\ r.watch = obj[slot[k]].watch
    BY <1>3, RemoveEffect DEF Remove
  <2> QED  BY <1>0, <2>1, SameWatch
<1>4. ASSUME NEW k \in Ids, WaitJob(k) PROVE Keys'
  BY <1>0, <1>4, SameResource DEF WaitJob, shared
<1>5. CASE WaitAll
  BY <1>0, <1>5, SameResource DEF WaitAll, shared
<1>6. CASE Destroy
  <2>1. UNCHANGED <<nresmap, obj>> /\ \A p \in Objs : block'[p] = "live" => block[p] = "live"
    BY <1>6, DestroyEffect DEF Destroy
  <2> QED  BY <1>0, <2>1, SameResource
<1> QED  BY <1>1, <1>2, <1>3, <1>4, <1>5, <1>6 DEF MainCall

LEMMA NextKeys == ResmanInv /\ Keys /\ [Next]_vars => Keys'
<1> SUFFICES ASSUME ResmanInv, Keys, [Next]_vars PROVE Keys'
  OBVIOUS
<1>1. ASSUME NEW o \in Objs, TimeUp(o) PROVE Keys'
  <2>1. /\ fault = "none" /\ nresmap \in Nat /\ UNCHANGED <<nresmap, block>>
        /\ \E r : Put(o, r) /\ r.watch = obj[o].watch
    BY <1>1, TimeUpEffect DEF TimeUp, Keys
  <2> QED  BY <2>1, SameWatch
<1>2. ASSUME NEW o \in Objs, NEW kind \in {"modified", "replaced", "deleted"}, FileEvent(o, kind)
      PROVE  Keys'
  BY <1>2, SameResource DEF FileEvent, shared
<1>3. CASE UNCHANGED vars
  BY <1>3 DEF vars, shared, Keys
<1> QED  BY <1>1, <1>2, <1>3, WorkerKeys, MainKeys, CallKeys DEF Next

-----------------------------------------------------------------------------
\* The variables that the invariants above say nothing of.
LEMMA WorkerRest ==
  ASSUME ResmanInv, RestType, NEW w \in Workers, WorkerStep(w)
  PROVE  RestType'
<1>1. conf' = conf /\ UNCHANGED <<target, nevents>>
  BY DEF WorkerStep, Take, BeginTask, Load, ClearPending, FlagDone, Unlock, Report, UseAfterFree,
     Work, main, files
<1>2. fault' \in {fault, "use_after_free"} /\ wake' \in {wake, TRUE} /\ stale' \subseteq stale
  BY DEF WorkerStep, Take, BeginTask, Load, ClearPending, FlagDone, Unlock, Report, UseAfterFree,
     Work, main, files
<1> QED  BY <1>1, <1>2 DEF RestType

LEMMA PendingJobsInt ==
  ASSUME ResmanInv
  PROVE  PendingJobs \in Nat
<1> DEFINE busy == {w \in Workers : wpc[w] # "idle"}
<1>1. IsFiniteSet(busy)
  BY ResmanAssumption, FS_Subset
<1>2. Cardinality(busy) \in Nat /\ Len(queue) \in Nat
  BY <1>1, FS_CardinalityType DEF ResmanInv, ResourceType
<1> HIDE DEF busy
<1>3. PendingJobs = Len(queue) + Cardinality(busy)
  BY DEF PendingJobs, busy
<1> QED  BY <1>2, <1>3

LEMMA MainRest ==
  ASSUME ResmanInv, RestType, MainStep \/ MainLoop \/ MainCall
  PROVE  RestType'
<1>1. CASE CountJobs
  <2>1. UNCHANGED <<conf, wake, stale, nevents, fault>> /\ target' = PendingJobs - 1
    BY <1>1 DEF CountJobs, files
  <2> QED  BY <2>1, PendingJobsInt DEF RestType
<1>2. CASE Drain
  <2>1. UNCHANGED <<conf, target, stale, nevents, fault>> /\ wake' = FALSE
    BY <1>2 DEF Drain, files
  <2> QED  BY <2>1 DEF RestType
<1>3. CASE Sweep \/ NoEvent \/ Modified \/ Replaced \/ Deleted
  <2>1. UNCHANGED <<conf, target, wake, stale, nevents>> /\ fault' \in {fault, "null_deref"}
    BY <1>3 DEF Sweep, RemoveResource, CheckWatch, NoEvent, Modified, Replaced, Deleted,
       MainGoto, NextIndex, files
  <2> QED  BY <2>1 DEF RestType
<1>4. ASSUME NEW o \in Objs, ScanReload(o) \/ ScanSkip(o) \/ ScanFailed(o) \/ ScanDone(o)
      PROVE  RestType'
  <2>1. UNCHANGED <<conf, target, wake, stale, nevents>> /\ fault' \in {fault, "null_deref"}
    BY <1>4 DEF ScanReload, ScanSkip, ScanFailed, ScanDone, Scan, RemoveResource,
       MainGoto, NextIndex, files
  <2> QED  BY <2>1 DEF RestType
<1>5. CASE \/ ScanNull \/ ScanEnd \/ Select \/ AllDone \/ TestPending \/ WaitPending
           \/ Release \/ Join \/ Poll \/ Wait
  <2>1. UNCHANGED <<conf, target, wake, stale, nevents, fault>>
    BY <1>5 DEF ScanNull, ScanEnd, Select, AllDone, TestPending, WaitPending, Release, Join,
       Poll, Wait, MainGoto, NextIndex, files
  <2> QED  BY <2>1 DEF RestType
<1>6. CASE MainCall
  <2>1. UNCHANGED <<conf, target, wake, stale, nevents>> /\ fault' \in {fault, "null_deref"}
    BY <1>6 DEF MainCall, NullDeref, Add, Remove, WaitJob, WaitAll, Destroy, MainGoto, main, files
  <2> QED  BY <2>1 DEF RestType
<1> QED  BY <1>1, <1>2, <1>3, <1>4, <1>5, <1>6 DEF MainStep, MainLoop

LEMMA NextRest == ResmanInv /\ RestType /\ [Next]_vars => RestType'
<1> SUFFICES ASSUME ResmanInv, RestType, [Next]_vars PROVE RestType'
  OBVIOUS
<1>1. ASSUME NEW o \in Objs, TimeUp(o) PROVE RestType'
  BY <1>1 DEF TimeUp, main, files, RestType
<1>2. ASSUME NEW o \in Objs, NEW kind \in {"modified", "replaced", "deleted"}, FileEvent(o, kind)
      PROVE  RestType'
  <2>1. /\ UNCHANGED <<conf, target, wake, fault>> /\ block[o] = "live"
        /\ nevents < MaxEvents /\ nevents' = nevents + 1
        /\ stale' \in {stale, stale \cup {obj[o].name}}
    BY <1>2 DEF FileEvent, main
  <2>2. obj[o].name \in Names
    BY <2>1 DEF ResmanInv, ResourceType, Resource
  <2> QED  BY <2>1, <2>2, ResmanAssumption DEF RestType
<1>3. CASE UNCHANGED vars
  BY <1>3 DEF vars, main, files, RestType
<1> QED  BY <1>1, <1>2, <1>3, WorkerRest, MainRest DEF Next

LEMMA InitTyped == Init => Keys /\ RestType
<1> SUFFICES ASSUME Init PROVE Keys /\ RestType
  OBVIOUS
<1>1. WatchedIn(block, obj) = {}
  BY DEF Init, WatchedIn
<1>2. nresmap = 0 /\ target = 0
  BY DEF Init
<1>3. Cardinality(WatchedIn(block, obj)) = 0
  BY <1>1, FS_EmptySet
<1>4. Keys
  BY <1>2, <1>3 DEF Keys
<1>5. wake \in BOOLEAN /\ conf \in Confs
  BY DEF Init
<1>6. stale \subseteq Names /\ fault \in {"none", "null_deref", "use_after_free"}
  BY DEF Init
<1>7. nevents \in 0..MaxEvents
  BY ResmanAssumption DEF Init
<1>8. RestType
  BY <1>2, <1>5, <1>6, <1>7 DEF RestType
<1> QED  BY <1>4, <1>8

\* Every variable has its type; a block has contents once malloc returned it;
\* and each watched resource has a key in the tree of watches, so a tree that is
\* down to one key has one watched resource at most (resman.c:330, 577;
\* filewatch_linux.c:66-91).
THEOREM ResmanIsTyped == Spec => []TypeOK
<1>1. Spec => [](Keys /\ RestType)
  BY InitTyped, NextKeys, NextRest, Invariance, PTL DEF Spec
<1>2. Spec => []KeptInv
  BY InitKept, NextKept, Invariance, PTL DEF Spec
<1>3. ResmanInv /\ KeptInv /\ Keys /\ RestType => TypeOK
  <2> SUFFICES ASSUME ResmanInv, KeptInv, Keys, RestType PROVE TypeOK
    OBVIOUS
  <2>1. WatchedIn(block, obj) = {o \in Live : obj[o].watch = "on"}
    BY DEF WatchedIn, Live
  <2>2. nresmap >= Cardinality({o \in Live : obj[o].watch = "on"}) \/ fault # "none"
    BY <2>1, WatchedFinite DEF Keys
  <2>3. \A o \in Objs : IF block[o] = "unused" THEN obj[o] = NULL ELSE obj[o] \in Resource
    BY DEF ResmanInv, ResourceType, KeptInv, UnusedIsNull
  <2> QED  BY <2>2, <2>3 DEF TypeOK, ResmanInv, ResourceType, ThreadType, RestType
<1> QED  BY <1>1, <1>2, <1>3, Invariance, PTL

-----------------------------------------------------------------------------
(* What resman_wait_all has waited for.                                    *)

\* No resource waits for a load, and each was loaded: its callback came, or
\* comes with the next poll.
AllLoaded ==
  \A o \in Live : ~obj[o].pending /\ (conf.done_func => obj[o].done \/ obj[o].loads > 0)

\* An idle pool has nothing queued, and no worker has a job.
LEMMA IdlePool ==
  ASSUME ResmanInv, PendingJobs = 0
  PROVE  Len(queue) = 0 /\ \A w \in Workers : wpc[w] = "idle"
<1> DEFINE Busy == {w \in Workers : wpc[w] # "idle"}
<1>1. IsFiniteSet(Busy)
  BY FS_Subset, ResmanAssumption
<1>2. Cardinality(Busy) \in Nat /\ (Cardinality(Busy) = 0 <=> Busy = {})
  BY <1>1, FS_CardinalityType, FS_EmptySet
<1>3. Len(queue) \in Nat
  BY DEF ResmanInv, ResourceType
<1>4. Len(queue) + Cardinality(Busy) = 0
  BY DEF PendingJobs
<1>5. Len(queue) = 0 /\ Busy = {}
  BY <1>2, <1>3, <1>4
<1> QED  BY <1>5

LEMMA IdleMeansLoaded ==
  ASSUME ResmanInv, PendingJobs = 0
  PROVE  AllLoaded
<1> SUFFICES ASSUME NEW o \in Objs, block[o] = "live"
             PROVE  ~obj[o].pending /\ (conf.done_func => obj[o].done \/ obj[o].loads > 0)
  BY DEF AllLoaded, Live
<1>1. ~InQueue(o)
  BY IdlePool DEF InQueue
<1>2. \A w \in Workers : wpc[w] \notin {"begin", "load", "loaded"} /\ ~Has(w, o)
  BY IdlePool DEF Has
<1>3. ~obj[o].pending
  BY <1>1, <1>2 DEF ResmanInv, Covered
<1>4. obj[o].loads \in Nat
  BY DEF ResmanInv, ResourceType, Resource
<1>5. ASSUME conf.done_func, obj[o].loads = 0 PROVE obj[o].done
  <2>1. FirstJob(o)
    BY <1>5 DEF ResmanInv, First
  <2> QED  BY <1>1, <1>2, <2>1 DEF FirstJob, OnceInQueue, InQueue, HasOne
<1> QED  BY <1>3, <1>4, <1>5

\* Only AllDone ends the wait.
LEMMA WaitAllEnds ==
  ASSUME [Next]_vars, mpc = "wait_all", mpc' # mpc
  PROVE  PendingJobs = 0
<1>1. ASSUME NEW w \in Workers, WorkerStep(w) PROVE FALSE
  BY <1>1 DEF WorkerStep, Take, BeginTask, Load, ClearPending, FlagDone, Unlock, Report,
              UseAfterFree, Work, main
<1>2. ASSUME NEW o \in Objs, TimeUp(o) PROVE FALSE
  BY <1>2 DEF TimeUp, main
<1>3. ASSUME NEW o \in Objs, NEW kind \in {"modified", "replaced", "deleted"}, FileEvent(o, kind)
      PROVE  FALSE
  BY <1>3 DEF FileEvent, main
<1>4. ~MainLoop /\ ~MainCall
  BY DEF MainLoop, MainCall, Poll, Wait, NullDeref, Add, Remove, WaitJob, WaitAll, Destroy, Call
<1>5. CASE MainStep
  <2>1. AllDone
    BY <1>5 DEF MainStep, Sweep, NoEvent, Modified, Replaced, Deleted, CheckWatch, Drain,
      Scan, ScanReload, ScanSkip, ScanFailed, ScanDone, ScanNull, ScanEnd, Select, AllDone,
      TestPending, CountJobs, WaitPending, Release, Join
  <2> QED  BY <2>1 DEF AllDone
<1>6. CASE UNCHANGED vars
  BY <1>6 DEF vars, main
<1> QED  BY <1>1, <1>2, <1>3, <1>4, <1>5, <1>6 DEF Next

\* resman_wait_all returns when each resource that is there has been loaded, and
\* none waits for a reload: the pool counts its jobs, and First and Covered say
\* that a resource without a job needs none (resman.c:255-258).
THEOREM WaitAllLoads == Spec => [][mpc = "wait_all" /\ mpc' # mpc => AllLoaded]_vars
<1>1. ResmanInv /\ [Next]_vars => (mpc = "wait_all" /\ mpc' # mpc => AllLoaded)
  BY WaitAllEnds, IdleMeansLoaded
<1> QED  BY <1>1, Invariance, PTL DEF Spec

-----------------------------------------------------------------------------
(* Whose memory a worker can find freed.                                   *)

\* A worker inside work_func has lost its resource to the caller, by
\* resman_remove or by resman_destroy.
TakenAway ==
  fault = "use_after_free" /\ conf.done_func =>
    Destroyed \/ \E w \in Workers : wobj[w] \in Objs /\ obj[wobj[w]].asked

LEMMA OthersDoNotFault ==
  ASSUME [Next]_vars, \A w \in Workers : ~UseAfterFree(w)
  PROVE  UNCHANGED vars \/ (fault = "none" /\ fault' \in {"none", "null_deref"})
<1>1. ASSUME NEW w \in Workers, WorkerStep(w) PROVE fault = "none" /\ fault' = fault
  BY <1>1 DEF WorkerStep, Take, BeginTask, Load, ClearPending, FlagDone, Unlock, Report, Work
<1>2. CASE MainLoop
  BY <1>2 DEF MainLoop, Poll, Wait
<1>3. CASE MainCall
  BY <1>3 DEF MainCall, NullDeref, Add, Remove, WaitJob, WaitAll, Destroy
<1>4. CASE MainStep
  <2>1. ASSUME Sweep PROVE fault' \in {fault, "null_deref"}
    BY <2>1 DEF Sweep, RemoveResource
  <2>2. ASSUME NoEvent \/ Modified \/ Replaced \/ Deleted PROVE fault' \in {fault, "null_deref"}
    BY <2>2 DEF NoEvent, Modified, Replaced, Deleted
  <2>3. ASSUME NEW o \in Objs, ScanReload(o) \/ ScanSkip(o) \/ ScanFailed(o) \/ ScanDone(o)
        PROVE  fault' \in {fault, "null_deref"}
    BY <2>3 DEF ScanReload, ScanSkip, ScanFailed, ScanDone, RemoveResource
  <2>4. ASSUME Drain \/ ScanNull \/ ScanEnd \/ Select \/ AllDone \/ TestPending \/ CountJobs
               \/ WaitPending \/ Release \/ Join
        PROVE  fault' = fault
    BY <2>4 DEF Drain, ScanNull, ScanEnd, Select, AllDone, TestPending, CountJobs, WaitPending,
                Release, Join
  <2> QED  BY <1>4, <2>1, <2>2, <2>3, <2>4 DEF MainStep
<1>5. ASSUME NEW o \in Objs, TimeUp(o) PROVE fault = "none" /\ fault' = fault
  BY <1>5 DEF TimeUp
<1>6. ASSUME NEW o \in Objs, NEW kind \in {"modified", "replaced", "deleted"}, FileEvent(o, kind)
      PROVE  fault = "none" /\ fault' = fault
  BY <1>6 DEF FileEvent
<1>7. CASE Next
  BY <1>1, <1>2, <1>3, <1>4, <1>5, <1>6, <1>7 DEF Next
<1> QED  BY <1>7

LEMMA TakenAwayStep == ResmanInv /\ TakenAway /\ [Next]_vars => TakenAway'
<1> SUFFICES ASSUME ResmanInv, TakenAway, [Next]_vars PROVE TakenAway'
  OBVIOUS
<1>1. ASSUME NEW w \in Workers, UseAfterFree(w) PROVE TakenAway'
  <2>1. wpc[w] # "idle" /\ wobj[w] \in Objs /\ block[wobj[w]] = "freed" /\ wpc[w] # "report"
    BY <1>1 DEF UseAfterFree, ResmanInv, ThreadType
  <2>2. conf.done_func => Destroyed \/ obj[wobj[w]].asked
    BY <2>1 DEF ResmanInv, FreedOk
  <2>3. UNCHANGED <<conf, obj, wobj, mpc>>
    BY <1>1 DEF UseAfterFree, shared, worker, main
  <2> QED  BY <2>1, <2>2, <2>3 DEF TakenAway, Destroyed
<1>2. CASE UNCHANGED vars
  BY <1>2 DEF TakenAway, Destroyed, vars, shared, worker, main
<1> QED  BY <1>1, <1>2, OthersDoNotFault DEF TakenAway

\* With a done_func a worker finds its resource freed only when the caller has
\* removed it, or destroyed the manager: no failed load, change of a file or
\* reload takes a resource from under work_func (resman.c:274, 312, 544-580).
THEOREM OnlyTheCallerFrees == Spec => []TakenAway
<1>1. Init => TakenAway
  BY DEF Init, TakenAway
<1> QED  BY <1>1, TakenAwayStep, Invariance, PTL DEF Spec
=============================================================================
