---------------------------- MODULE FileWatchProofs ---------------------------
(***************************************************************************)
(* Proofs about the file watcher for Linux: whom its keys and events lead  *)
(* to, what is watched, and when its assertion holds, for any finite set   *)
(* of resources and any number of changes on disk.                         *)
(***************************************************************************)
EXTENDS FileWatch, FiniteSetTheorems, FunctionTheorems, TLAPS

WatchEvent == [wd : Int, kind : {"modify", "written", "ignored"}]

\* What is in the queue, in any order.
EventsIn(q) == {q[k] : k \in 1..Len(q)}

WatchType ==
  /\ inode \in [Objs -> Nat] /\ nextinode \in Nat \ {0}
  /\ nextwd \in Nat \ {0}
  /\ watching \in [DOMAIN watching -> Nat] /\ DOMAIN watching \subseteq 1..nextwd-1
  /\ nresmap \in [DOMAIN nresmap -> Objs] /\ DOMAIN nresmap \subseteq 1..nextwd-1
  /\ nfd \in [Objs -> Int] /\ \A o \in Objs : nfd[o] >= -1 /\ nfd[o] < nextwd
  /\ events \in Seq(WatchEvent) /\ buf \in WatchEvent \cup {NoEvent}

\* No two names lead to one inode.
OneFile ==
  /\ \A o \in Objs : inode[o] < nextinode
  /\ \A o, p \in Objs : inode[o] = inode[p] /\ inode[o] # 0 => o = p

\* What the kernel watches is in the tree, with its present wd and file.
Owned ==
  \A wd \in DOMAIN watching :
    /\ wd \in DOMAIN nresmap /\ nfd[nresmap[wd]] = wd
    /\ watching[wd] # 0 /\ watching[wd] = inode[nresmap[wd]]

\* Of the keys that lead to a resource one at most is its nfd.
KeysOk ==
  /\ \A o \in Objs : nfd[o] \in DOMAIN nresmap => nresmap[nfd[o]] = o
  /\ \A o \in Objs : nfd[o] = 0 => \A wd \in DOMAIN nresmap : nresmap[wd] # o
  /\ \A o, p \in Objs : nfd[o] = nfd[p] /\ nfd[o] > 0 => o = p

\* While nothing is being read no event leads to a key of an older file: those
\* were read, all of them, when the file was found to be replaced.
QueueOk ==
  /\ buf # NoEvent => wstep \in {"read", "junk"}
  /\ \A e \in EventsIn(events) : e.wd \in DOMAIN nresmap =>
       /\ nfd[nresmap[e.wd]] # -1
       /\ wstep \in {"idle", "scan"} => nfd[nresmap[e.wd]] = e.wd

\* What is in modset is the nfd of a resource, and the kernel watches it unless
\* the file is gone again: another event for it leaves its nfd as it is.
ModsetOk ==
  /\ wstep \in {"idle", "scan"} => modset = {}
  /\ ~twice /\ ~misread => \A wd \in modset : \E o \in Objs :
       nfd[o] = wd /\ (inode[o] # 0 => wd \in DOMAIN watching)

\* TrackedIsWatched, for one resource, in terms of the set of events.
Sound(o) ==
  \/ nfd[o] \in DOMAIN watching /\ watching[nfd[o]] = inode[o]
  \/ [wd |-> nfd[o], kind |-> "ignored"] \in EventsIn(events) \cup {buf}

TrackedOk ==
  /\ wstep = "junk" => several
  /\ ~several /\ fault = "none" => \A o \in Objs : Tracked(o) => Sound(o)

WatchInv ==
  /\ WatchType /\ OneFile /\ Owned /\ KeysOk
  /\ QueueOk /\ ModsetOk /\ TrackedOk /\ AssertHasCause

-----------------------------------------------------------------------------
(* What the helpers do.                                                    *)

LEMMA Single ==
  ASSUME NEW q \in Seq(WatchEvent), q # <<>>, ~(Len(q) > 1)
  PROVE  EventsIn(q) = {Head(q)}
<1>1. Len(q) \in Nat /\ Len(q) # 0 /\ Head(q) = q[1]
  OBVIOUS
<1>2. 1..Len(q) = {1}
  BY <1>1
<1> QED  BY <1>1, <1>2 DEF EventsIn

LEMMA OneEvent ==
  ASSUME NEW w, NEW kind, NEW e \in [wd : {w}, kind : {kind}]
  PROVE  e = [wd |-> w, kind |-> kind]
OBVIOUS

LEMMA PostEffect ==
  ASSUME NEW q \in Seq(WatchEvent), NEW wds \in SUBSET Int, NEW kind \in {"modify", "written", "ignored"}
  PROVE  /\ Post(q, wds, kind) \in Seq(WatchEvent)
         /\ EventsIn(q) \subseteq EventsIn(Post(q, wds, kind))
         /\ EventsIn(Post(q, wds, kind)) \subseteq EventsIn(q) \cup [wd : wds, kind : {kind}]
         /\ \A w : wds = {w} => [wd |-> w, kind |-> kind] \in EventsIn(Post(q, wds, kind))
<1>1. CASE wds = {}
  BY <1>1 DEF Post
<1>2. CASE wds # {} /\ q # <<>> /\ q[Len(q)] \in [wd : wds, kind : {kind}]
  <2>1. Len(q) \in 1..Len(q)
    BY <1>2
  <2>2. q[Len(q)] \in EventsIn(q)
    BY <2>1 DEF EventsIn
  <2>3. Post(q, wds, kind) = q
    BY <1>2 DEF Post
  <2>4. ASSUME NEW w, wds = {w} PROVE q[Len(q)] = [wd |-> w, kind |-> kind]
    BY <1>2, <2>4, OneEvent
  <2> QED  BY <1>2, <2>2, <2>3, <2>4
<1>3. CASE wds # {} /\ ~(q # <<>> /\ q[Len(q)] \in [wd : wds, kind : {kind}])
  <2> DEFINE e == [wd |-> CHOOSE wd \in wds : TRUE, kind |-> kind]
  <2>1. e \in [wd : wds, kind : {kind}] /\ e \in WatchEvent
    BY <1>3 DEF WatchEvent
  <2>2. Post(q, wds, kind) = Append(q, e)
    BY <1>3 DEF Post
  <2>5. ASSUME NEW w, wds = {w} PROVE e = [wd |-> w, kind |-> kind]
    BY <2>1, <2>5, OneEvent
  <2> HIDE DEF e
  <2>3. /\ Append(q, e) \in Seq(WatchEvent) /\ Len(Append(q, e)) = Len(q) + 1
        /\ Len(q) \in Nat
        /\ \A k \in 1..Len(q) : Append(q, e)[k] = q[k]
        /\ Append(q, e)[Len(q) + 1] = e
    BY <2>1
  <2>4. EventsIn(Append(q, e)) = EventsIn(q) \cup {e}
    BY <2>3 DEF EventsIn
  <2> QED  BY <2>1, <2>2, <2>3, <2>4, <2>5
<1> QED  BY <1>1, <1>2, <1>3

\* A file that is watched is watched by its resource's nfd only.
LEMMA WdOfFile ==
  ASSUME WatchInv, NEW o \in Objs, inode[o] # 0
  PROVE  WdOf(inode[o]) = {nfd[o]} \cap DOMAIN watching
<1>1. ASSUME NEW wd \in DOMAIN watching, watching[wd] = inode[o] PROVE wd = nfd[o]
  BY <1>1 DEF WatchInv, WatchType, OneFile, Owned
<1>2. ASSUME nfd[o] \in DOMAIN watching PROVE watching[nfd[o]] = inode[o]
  BY <1>2 DEF WatchInv, Owned, KeysOk
<1> QED  BY <1>1, <1>2 DEF WdOf

LEMMA UnwatchEffect ==
  ASSUME WatchInv, NEW wds \in SUBSET Int, Unwatch(wds)
  PROVE  /\ events' \in Seq(WatchEvent)
         /\ EventsIn(events) \subseteq EventsIn(events')
         /\ \A e \in EventsIn(events') : e \in EventsIn(events) \/ e.wd \in wds \cap DOMAIN watching
         /\ \A wd \in DOMAIN watching : wds = {wd} =>
              [wd |-> wd, kind |-> "ignored"] \in EventsIn(events')
         /\ DOMAIN watching' = DOMAIN watching \ wds
         /\ \A wd \in DOMAIN watching' : watching'[wd] = watching[wd]
<1> DEFINE gone == wds \cap DOMAIN watching
<1>1. events \in Seq(WatchEvent) /\ gone \in SUBSET Int /\ events' = Post(events, gone, "ignored")
  BY DEF WatchInv, WatchType, Unwatch
<1>2. ASSUME NEW wd \in DOMAIN watching, wds = {wd}
      PROVE  [wd |-> wd, kind |-> "ignored"] \in EventsIn(events')
  <2>1. gone = {wd}
    BY <1>2
  <2> HIDE DEF gone
  <2> QED  BY <1>1, <2>1, PostEffect
<1>3. DOMAIN watching' = DOMAIN watching \ wds /\ \A wd \in DOMAIN watching' : watching'[wd] = watching[wd]
  BY DEF Unwatch
<1> HIDE DEF gone
<1>4. /\ events' \in Seq(WatchEvent)
      /\ EventsIn(events) \subseteq EventsIn(events')
      /\ EventsIn(events') \subseteq EventsIn(events) \cup [wd : gone, kind : {"ignored"}]
  BY <1>1, PostEffect
<1>5. \A e \in EventsIn(events') : e \in EventsIn(events) \/ e.wd \in gone
  BY <1>4
<1> QED  BY <1>2, <1>3, <1>4, <1>5 DEF gone

\* inotify_add_watch gives a resource the wd it has, or one never used before.
LEMMA AddWatchEffect ==
  ASSUME WatchInv, NEW o \in Objs, AddWatch(o)
  PROVE  /\ NewWd(o) \in 1..nextwd'-1 /\ nextwd' \in Nat /\ nextwd' >= nextwd
         /\ inode[o] # 0 /\ nfd' = [nfd EXCEPT ![o] = NewWd(o)]
         /\ DOMAIN watching' = DOMAIN watching \cup {NewWd(o)} /\ watching'[NewWd(o)] = inode[o]
         /\ \A wd \in DOMAIN watching \ {NewWd(o)} : watching'[wd] = watching[wd]
         /\ DOMAIN nresmap' = DOMAIN nresmap \cup {NewWd(o)} /\ nresmap'[NewWd(o)] = o
         /\ \A wd \in DOMAIN nresmap \ {NewWd(o)} : nresmap'[wd] = nresmap[wd]
         /\ \/ NewWd(o) = nfd[o] /\ nfd[o] \in DOMAIN watching
            \/ NewWd(o) = nextwd /\ nfd[o] \notin DOMAIN watching
         /\ NewWd(o) \in DOMAIN nresmap => nresmap[NewWd(o)] = o
         /\ \A p \in Objs \ {o} : nfd[p] # NewWd(o)
<1> USE DEF AddWatch
<1>1. WdOf(inode[o]) = {nfd[o]} \cap DOMAIN watching
  BY WdOfFile
<1>2. \/ NewWd(o) = nfd[o] /\ nfd[o] \in DOMAIN watching /\ nextwd' = nextwd
      \/ NewWd(o) = nextwd /\ nfd[o] \notin DOMAIN watching /\ nextwd' = nextwd + 1
  BY <1>1 DEF NewWd
<1>3. NewWd(o) \in 1..nextwd'-1 /\ nextwd' \in Nat /\ nextwd' >= nextwd
  BY <1>2 DEF WatchInv, WatchType
<1>4. NewWd(o) \in DOMAIN nresmap => nresmap[NewWd(o)] = o
  BY <1>2 DEF WatchInv, WatchType, KeysOk
<1>5. \A p \in Objs \ {o} : nfd[p] # NewWd(o)
  BY <1>2 DEF WatchInv, WatchType, KeysOk
<1>6. /\ DOMAIN watching' = DOMAIN watching \cup {NewWd(o)} /\ watching'[NewWd(o)] = inode[o]
      /\ \A wd \in DOMAIN watching \ {NewWd(o)} : watching'[wd] = watching[wd]
  BY DEF Put
<1>7. /\ DOMAIN nresmap' = DOMAIN nresmap \cup {NewWd(o)} /\ nresmap'[NewWd(o)] = o
      /\ \A wd \in DOMAIN nresmap \ {NewWd(o)} : nresmap'[wd] = nresmap[wd]
  BY DEF Put
<1> QED  BY <1>2, <1>3, <1>4, <1>5, <1>6, <1>7

-----------------------------------------------------------------------------
(* The steps, those of the disk first.                                     *)

\* What a change on disk leaves alone, and when it keeps the invariant.
LEMMA DiskStep ==
  ASSUME WatchInv, fault = "none", UNCHANGED <<nextwd, resource, check, fault>>,
         WatchType', OneFile', Owned', ModsetOk',
         \A e \in EventsIn(events') : e \in EventsIn(events) \/ e.wd \in DOMAIN watching,
         \A p \in Objs : Tracked(p) /\ Sound(p) => Sound(p)'
  PROVE  WatchInv'
<1> USE DEF resource, check
<1>1. KeysOk' /\ AssertHasCause'
  BY DEF WatchInv, KeysOk, AssertHasCause
<1>2. QueueOk'
  <2> SUFFICES ASSUME NEW e \in EventsIn(events'), e.wd \in DOMAIN nresmap
               PROVE  /\ nfd[nresmap[e.wd]] # -1
                      /\ wstep \in {"idle", "scan"} => nfd[nresmap[e.wd]] = e.wd
    BY DEF WatchInv, QueueOk
  <2>1. CASE e \in EventsIn(events)
    BY <2>1 DEF WatchInv, QueueOk
  <2>2. CASE e.wd \in DOMAIN watching
    BY <2>2 DEF WatchInv, WatchType, Owned
  <2> QED  BY <2>1, <2>2
<1>3. TrackedOk'
  BY DEF WatchInv, TrackedOk, Tracked
<1> QED  BY <1>1, <1>2, <1>3 DEF WatchInv

LEMMA WriteStep == ASSUME WatchInv, NEW o \in Objs, Write(o) PROVE WatchInv'
<1> USE DEF Write, Change, resource, check
<1>0. WatchType /\ OneFile /\ Owned
  BY DEF WatchInv
<1>1. WdOf(inode[o]) \in SUBSET Int /\ WdOf(inode[o]) \subseteq DOMAIN watching
  BY <1>0 DEF WdOf, WatchType
<1>2. /\ events' \in Seq(WatchEvent)
      /\ EventsIn(events) \subseteq EventsIn(events')
      /\ EventsIn(events') \subseteq EventsIn(events) \cup [wd : WdOf(inode[o]), kind : {"modify"}]
  BY <1>0, <1>1, PostEffect DEF WatchType
<1>3. WatchType' /\ OneFile' /\ Owned'
  BY <1>0, <1>2 DEF WatchType, OneFile, Owned
<1>4. \A e \in EventsIn(events') : e \in EventsIn(events) \/ e.wd \in DOMAIN watching
  BY <1>1, <1>2
<1>5. \A p \in Objs : Sound(p) => Sound(p)'
  BY <1>2 DEF Sound
<1>6. ModsetOk'
  BY DEF WatchInv, ModsetOk
<1> QED  BY <1>3, <1>4, <1>5, <1>6, DiskStep

\* A name leads elsewhere, and the old file is watched no more.
LEMMA ReplaceStep == ASSUME WatchInv, NEW o \in Objs, Replace(o) \/ Unlink(o) PROVE WatchInv'
<1> DEFINE wds == WdOf(inode[o])
<1> USE DEF Replace, Unlink, Change, resource, check
<1>0. WatchType /\ OneFile /\ Owned /\ KeysOk
  BY DEF WatchInv
<1>1. wds \in SUBSET Int /\ Unwatch(wds)
  BY <1>0 DEF WdOf, WatchType
<1>2. wds \subseteq {nfd[o]} /\ nfd[o] \notin DOMAIN watching \ wds
  <2>1. CASE inode[o] # 0
    BY <2>1, WdOfFile
  <2>2. CASE inode[o] = 0
    BY <1>0, <2>2 DEF WdOf, Owned, KeysOk, WatchType
  <2> QED  BY <2>1, <2>2
<1> HIDE DEF wds
<1>3. /\ events' \in Seq(WatchEvent)
      /\ EventsIn(events) \subseteq EventsIn(events')
      /\ \A e \in EventsIn(events') : e \in EventsIn(events) \/ e.wd \in wds \cap DOMAIN watching
      /\ \A wd \in DOMAIN watching : wds = {wd} =>
           [wd |-> wd, kind |-> "ignored"] \in EventsIn(events')
      /\ DOMAIN watching' = DOMAIN watching \ wds
      /\ \A wd \in DOMAIN watching' : watching'[wd] = watching[wd]
  BY <1>1, UnwatchEffect
<1>4. \/ inode' = [inode EXCEPT ![o] = nextinode] /\ nextinode' = nextinode + 1
      \/ inode' = [inode EXCEPT ![o] = 0] /\ nextinode' = nextinode
  OBVIOUS
<1>10. fault = "none" /\ UNCHANGED <<nextwd, resource, check, fault>>
  OBVIOUS
<1>11. ~twice' => ~twice /\ (nfd[o] \notin modset \/ inode' = [inode EXCEPT ![o] = 0])
  OBVIOUS
<1> HIDE DEF Replace, Unlink, Change
<1>5. WatchType'
  <2>1. watching' \in [DOMAIN watching' -> Nat]
    BY <1>0, <1>1, <1>3 DEF Unwatch, WatchType
  <2>2. inode' \in [Objs -> Nat] /\ nextinode' \in Nat \ {0}
    BY <1>0, <1>4 DEF WatchType
  <2> QED  BY <1>0, <1>3, <1>10, <2>1, <2>2 DEF WatchType
<1>6. OneFile'
  <2>1. CASE inode' = [inode EXCEPT ![o] = nextinode] /\ nextinode' = nextinode + 1
    <3>1. \A p \in Objs : inode'[p] = (IF p = o THEN nextinode ELSE inode[p]) /\ inode[p] \in Nat
      BY <1>0, <2>1 DEF WatchType
    <3>2. \A p \in Objs : inode'[p] < nextinode' /\ (p # o => inode'[p] # inode'[o])
      BY <1>0, <2>1, <3>1 DEF WatchType, OneFile
    <3> QED  BY <1>0, <3>1, <3>2 DEF OneFile
  <2>2. CASE inode' = [inode EXCEPT ![o] = 0] /\ nextinode' = nextinode
    BY <1>0, <2>2 DEF WatchType, OneFile
  <2> QED  BY <1>4, <2>1, <2>2
<1>7. Owned'
  <2> SUFFICES ASSUME NEW wd \in DOMAIN watching'
               PROVE  /\ wd \in DOMAIN nresmap /\ nfd[nresmap[wd]] = wd
                      /\ watching'[wd] # 0 /\ watching'[wd] = inode'[nresmap[wd]]
    BY <1>10 DEF Owned
  <2>1. wd \in DOMAIN watching /\ wd # nfd[o] /\ watching'[wd] = watching[wd]
    BY <1>2, <1>3
  <2>2. nresmap[wd] # o /\ nresmap[wd] \in Objs
    BY <1>0, <2>1 DEF Owned, WatchType
  <2> QED  BY <1>0, <1>4, <2>1, <2>2 DEF Owned, WatchType
<1>8. ASSUME NEW p \in Objs, Tracked(p), Sound(p) PROVE Sound(p)'
  <2>1. CASE [wd |-> nfd[p], kind |-> "ignored"] \in EventsIn(events) \cup {buf}
    BY <1>3, <1>10, <2>1 DEF Sound
  <2>2. CASE nfd[p] \in DOMAIN watching /\ watching[nfd[p]] = inode[p]
    <3>1. CASE p = o
      <4>1. wds = {nfd[o]}
        BY <1>2, <2>2, <3>1
      <4> QED  BY <1>3, <1>10, <2>2, <3>1, <4>1 DEF Sound
    <3>2. CASE p # o
      <4>1. nfd[p] # nfd[o]
        BY <1>0, <1>8, <3>2 DEF KeysOk, Tracked
      <4> QED  BY <1>0, <1>2, <1>3, <1>4, <1>10, <2>2, <3>2, <4>1 DEF Sound, WatchType
    <3> QED  BY <3>1, <3>2
  <2> QED  BY <1>8, <2>1, <2>2 DEF Sound
<1>9. \A e \in EventsIn(events') : e \in EventsIn(events) \/ e.wd \in DOMAIN watching
  BY <1>3
<1>12. ModsetOk'
  <2> SUFFICES ASSUME ~twice', ~misread, NEW wd \in modset
               PROVE  \E p \in Objs : nfd[p] = wd /\ (inode'[p] # 0 => wd \in DOMAIN watching')
    BY <1>10 DEF ModsetOk, WatchInv
  <2>1. PICK p \in Objs : nfd[p] = wd /\ (inode[p] # 0 => wd \in DOMAIN watching)
    BY <1>11 DEF WatchInv, ModsetOk
  <2>2. CASE wd = nfd[o]
    <3>1. inode'[o] = 0
      BY <1>0, <1>11, <2>2 DEF WatchType
    <3> QED  BY <2>2, <3>1
  <2>3. CASE wd # nfd[o]
    BY <1>0, <1>2, <1>3, <1>4, <2>1, <2>3 DEF WatchType
  <2> QED  BY <2>2, <2>3
<1> QED  BY <1>10, <1>12, <1>5, <1>6, <1>7, <1>8, <1>9, DiskStep

-----------------------------------------------------------------------------
(* The steps of the watcher.                                               *)

\* The steps that add no watch and take none back.
LEMMA Unmoved ==
  ASSUME WatchInv, UNCHANGED <<inode, nextinode, kernel, nfd, nresmap>>,
         buf' \in WatchEvent \cup {NoEvent}
  PROVE  WatchType' /\ OneFile' /\ Owned' /\ KeysOk'
<1> USE DEF kernel, WatchInv
<1>1. WatchType'
  BY DEF WatchType
<1>2. OneFile' /\ Owned' /\ KeysOk'
  BY DEF OneFile, Owned, KeysOk
<1> QED  BY <1>1, <1>2

\* ... and neither read nor start a check.
LEMMA QuietStep ==
  ASSUME WatchInv, UNCHANGED <<inode, nextinode, kernel, nfd, nresmap, check, twice>>,
         UNCHANGED fault \/ fault' \in {"null_deref", "use_after_free"}
  PROVE  WatchInv'
<1> USE DEF check, kernel
<1>1. WatchType' /\ OneFile' /\ Owned' /\ KeysOk'
  BY Unmoved DEF WatchInv, WatchType
<1>2. QueueOk' /\ ModsetOk' /\ AssertHasCause'
  BY DEF WatchInv, QueueOk, ModsetOk, AssertHasCause
<1>3. TrackedOk'
  BY DEF WatchInv, TrackedOk, Tracked, Sound
<1> QED  BY <1>1, <1>2, <1>3 DEF WatchInv

LEMMA PollStep == ASSUME WatchInv, Poll, fault = "none" PROVE WatchInv'
<1> USE DEF Poll, kernel, resource, disk
<1>1. WatchType' /\ OneFile' /\ Owned' /\ KeysOk'
  BY Unmoved DEF WatchInv, WatchType
<1>2. QueueOk' /\ ModsetOk' /\ AssertHasCause'
  BY DEF WatchInv, QueueOk, ModsetOk, AssertHasCause
<1>3. TrackedOk'
  BY DEF WatchInv, TrackedOk, Tracked, Sound
<1> QED  BY <1>1, <1>2, <1>3 DEF WatchInv

LEMMA ReadStep == ASSUME WatchInv, Read, fault = "none" PROVE WatchInv'
<1> USE DEF Read, resource, disk
<1>0. events \in Seq(WatchEvent) /\ events # <<>>
  BY DEF WatchInv, WatchType
<1>1. Head(events) \in WatchEvent /\ <<>> \in Seq(WatchEvent) /\ EventsIn(<<>>) = {}
  BY <1>0 DEF EventsIn
<1>2. WatchType'
  BY <1>1 DEF WatchInv, WatchType
<1>3. OneFile' /\ Owned' /\ KeysOk' /\ QueueOk' /\ ModsetOk' /\ AssertHasCause'
  BY <1>1 DEF WatchInv, OneFile, Owned, KeysOk, QueueOk, ModsetOk, AssertHasCause
<1>4. TrackedOk'
  <2> SUFFICES ASSUME ~several', fault = "none", NEW p \in Objs, Tracked(p) PROVE Sound(p)'
    BY DEF TrackedOk, Tracked
  <2>1. ~several /\ Sound(p)
    BY DEF WatchInv, TrackedOk
  <2>2. CASE [wd |-> nfd[p], kind |-> "ignored"] \in EventsIn(events)
    <3>1. ~(Len(events) > 1)
      OBVIOUS
    <3>2. EventsIn(events) = {Head(events)}
      BY <1>0, <3>1, Single
    <3> QED  BY <2>2, <3>2 DEF Sound
  <2>3. [wd |-> nfd[p], kind |-> "ignored"] # buf
    BY WatchAssumption DEF WatchInv, WatchType
  <2> QED  BY <2>1, <2>2, <2>3 DEF Sound
<1> QED  BY <1>2, <1>3, <1>4 DEF WatchInv

LEMMA JunkStep == ASSUME WatchInv, Junk \/ JunkEnds, fault = "none" PROVE WatchInv'
<1> USE DEF Junk, JunkEnds, kernel, resource, disk
<1>1. buf' \in WatchEvent \cup {NoEvent}
  BY DEF Event, WatchEvent, WatchInv, WatchType
<1>2. WatchType' /\ OneFile' /\ Owned' /\ KeysOk'
  BY <1>1, Unmoved DEF WatchInv, WatchType
<1>3. QueueOk' /\ ModsetOk' /\ AssertHasCause'
  BY DEF WatchInv, QueueOk, ModsetOk, AssertHasCause
<1>4. TrackedOk'
  BY DEF WatchInv, TrackedOk
<1> QED  BY <1>2, <1>3, <1>4 DEF WatchInv

\* An event that is not of a tracked resource is of no use to any.
LEMMA BufStep ==
  ASSUME WatchInv, fault = "none", UNCHANGED <<disk, kernel, nfd, nresmap, modset, wstep, several, misread>>,
         buf' = NoEvent, UNCHANGED fault \/ fault' = "use_after_free",
         fault' = "none" => \A p \in Objs : Tracked(p) => buf # [wd |-> nfd[p], kind |-> "ignored"]
  PROVE  WatchInv'
<1> USE DEF kernel, disk
<1>1. WatchType' /\ OneFile' /\ Owned' /\ KeysOk'
  BY Unmoved DEF WatchInv, WatchType
<1>2. QueueOk' /\ ModsetOk' /\ AssertHasCause'
  BY DEF WatchInv, QueueOk, ModsetOk, AssertHasCause
<1>3. TrackedOk'
  BY DEF WatchInv, TrackedOk, Tracked, Sound
<1> QED  BY <1>1, <1>2, <1>3 DEF WatchInv

LEMMA UnknownStep == ASSUME WatchInv, Unknown, fault = "none" PROVE WatchInv'
BY BufStep DEF Unknown, Tracked, resource

LEMMA ModifiedStep == ASSUME WatchInv, NEW o \in Objs, Modified(o), fault = "none" PROVE WatchInv'
BY BufStep DEF Modified, Handle

LEMMA WrittenStep == ASSUME WatchInv, NEW o \in Objs, Written(o), fault = "none" PROVE WatchInv'
<1> USE DEF Written, Handle, kernel, disk
<1>1. WatchType' /\ OneFile' /\ Owned' /\ KeysOk'
  BY Unmoved DEF WatchInv, WatchType
<1>2. QueueOk' /\ ModsetOk' /\ AssertHasCause'
  BY DEF WatchInv, QueueOk, ModsetOk, AssertHasCause
<1>3. TrackedOk'
  BY DEF WatchInv, TrackedOk, Tracked, Sound
<1> QED  BY <1>1, <1>2, <1>3 DEF WatchInv

LEMMA DanglingStep == ASSUME WatchInv, NEW o \in Objs, Dangling(o), fault = "none" PROVE WatchInv'
BY BufStep DEF Dangling, Handle

\* A watch that is new or begins anew.
LEMMA AddWatchKeeps ==
  ASSUME WatchInv, NEW o \in Objs, nfd[o] # -1, AddWatch(o), UNCHANGED <<inode, nextinode>>,
         buf' \in WatchEvent \cup {NoEvent}
  PROVE  /\ WatchType' /\ OneFile' /\ Owned' /\ KeysOk'
         /\ nfd'[o] \in DOMAIN watching' /\ watching'[nfd'[o]] = inode'[o]
         /\ \A p \in Objs \ {o} :
              /\ nfd'[p] = nfd[p] /\ (Tracked(p)' => Tracked(p))
              /\ nfd[p] \in DOMAIN watching =>
                   nfd[p] \in DOMAIN watching' /\ watching'[nfd[p]] = watching[nfd[p]]
<1> DEFINE w == NewWd(o)
<1>0. WatchType /\ OneFile /\ Owned /\ KeysOk
  BY DEF WatchInv
<1>1. /\ w \in 1..nextwd'-1 /\ nextwd' \in Nat /\ nextwd' >= nextwd
      /\ inode[o] # 0 /\ nfd' = [nfd EXCEPT ![o] = w]
      /\ DOMAIN watching' = DOMAIN watching \cup {w} /\ watching'[w] = inode[o]
      /\ \A wd \in DOMAIN watching \ {w} : watching'[wd] = watching[wd]
      /\ DOMAIN nresmap' = DOMAIN nresmap \cup {w} /\ nresmap'[w] = o
      /\ \A wd \in DOMAIN nresmap \ {w} : nresmap'[wd] = nresmap[wd]
      /\ \/ w = nfd[o] /\ nfd[o] \in DOMAIN watching
         \/ w = nextwd /\ nfd[o] \notin DOMAIN watching
      /\ w \in DOMAIN nresmap => nresmap[w] = o
      /\ \A p \in Objs \ {o} : nfd[p] # w
  BY AddWatchEffect
<1>2. UNCHANGED events
  BY DEF AddWatch
<1>3. watching' \in [DOMAIN watching' -> Nat] /\ nresmap' \in [DOMAIN nresmap' -> Objs]
  <2> HIDE DEF w
  <2>1. watching' = Put(watching, w, inode[o]) /\ nresmap' = Put(nresmap, w, o)
    BY DEF AddWatch, w
  <2> QED  BY <1>0, <1>1, <2>1 DEF Put, WatchType
<1> HIDE DEF w
<1>4. WatchType'
  BY <1>0, <1>1, <1>2, <1>3 DEF WatchType
<1>5. OneFile'
  BY <1>0 DEF OneFile
<1>6. Owned'
  <2> SUFFICES ASSUME NEW wd \in DOMAIN watching'
               PROVE  /\ wd \in DOMAIN nresmap' /\ nfd'[nresmap'[wd]] = wd
                      /\ watching'[wd] # 0 /\ watching'[wd] = inode[nresmap'[wd]]
    BY DEF Owned
  <2>1. CASE wd = w
    BY <1>0, <1>1, <2>1 DEF WatchType
  <2>2. CASE wd # w
    <3>1. wd \in DOMAIN watching /\ wd # nfd[o]
      BY <1>1, <2>2
    <3>2. nresmap[wd] # o /\ nresmap[wd] \in Objs /\ wd \in DOMAIN nresmap
      BY <1>0, <3>1 DEF Owned, WatchType
    <3> QED  BY <1>0, <1>1, <2>2, <3>1, <3>2 DEF Owned, WatchType
  <2> QED  BY <2>1, <2>2
<1>7. KeysOk'
  BY <1>0, <1>1 DEF KeysOk, WatchType
<1>8. nfd'[o] = w
  BY <1>0, <1>1 DEF WatchType
<1>9. \A p \in Objs \ {o} :
        /\ nfd'[p] = nfd[p] /\ (Tracked(p)' => Tracked(p))
        /\ nfd[p] \in DOMAIN watching =>
             nfd[p] \in DOMAIN watching' /\ watching'[nfd[p]] = watching[nfd[p]]
  BY <1>0, <1>1 DEF WatchType, Tracked
<1> QED  BY <1>1, <1>4, <1>5, <1>6, <1>7, <1>8, <1>9

LEMMA StartStep == ASSUME WatchInv, NEW o \in Objs, Start(o) PROVE WatchInv'
<1> USE DEF Start, disk, check
<1>0. WatchType /\ KeysOk
  BY DEF WatchInv
<1>1. nfd[o] # -1 /\ buf' \in WatchEvent \cup {NoEvent}
  BY <1>0 DEF WatchType
<1>2. /\ WatchType' /\ OneFile' /\ Owned' /\ KeysOk'
      /\ nfd'[o] \in DOMAIN watching' /\ watching'[nfd'[o]] = inode'[o]
      /\ \A p \in Objs \ {o} :
           /\ nfd'[p] = nfd[p] /\ (Tracked(p)' => Tracked(p))
           /\ nfd[p] \in DOMAIN watching =>
                nfd[p] \in DOMAIN watching' /\ watching'[nfd[p]] = watching[nfd[p]]
  BY <1>1, AddWatchKeeps
<1>3. QueueOk'
  <2> SUFFICES ASSUME NEW e \in EventsIn(events), e.wd \in DOMAIN nresmap'
               PROVE  nfd'[nresmap'[e.wd]] # -1 /\ nfd'[nresmap'[e.wd]] = e.wd
    BY DEF WatchInv, QueueOk, AddWatch
  <2>1. /\ nfd' = [nfd EXCEPT ![o] = NewWd(o)] /\ NewWd(o) \in 1..nextwd'-1 /\ nextwd' \in Nat
        /\ DOMAIN nresmap' = DOMAIN nresmap \cup {NewWd(o)} /\ nresmap'[NewWd(o)] = o
        /\ \A wd \in DOMAIN nresmap \ {NewWd(o)} : nresmap'[wd] = nresmap[wd]
    BY AddWatchEffect
  <2>2. CASE e.wd = NewWd(o)
    BY <1>0, <2>1, <2>2 DEF WatchType
  <2>3. CASE e.wd # NewWd(o)
    <3>1. nresmap'[e.wd] = nresmap[e.wd] /\ nresmap[e.wd] \in Objs \ {o}
      BY <1>0, <2>1, <2>3 DEF WatchType, KeysOk
    <3> QED  BY <1>2, <2>1, <2>3, <3>1 DEF WatchInv, QueueOk
  <2> QED  BY <2>2, <2>3
<1>4. ModsetOk' /\ AssertHasCause'
  BY DEF WatchInv, ModsetOk, AssertHasCause
<1>5. TrackedOk'
  BY <1>2 DEF WatchInv, TrackedOk, Sound, AddWatch
<1> QED  BY <1>2, <1>3, <1>4, <1>5 DEF WatchInv

LEMMA RestartedStep == ASSUME WatchInv, NEW o \in Objs, Restarted(o), fault = "none" PROVE WatchInv'
<1> USE DEF Restarted, Handle, disk
<1>0. WatchType /\ KeysOk /\ wstep \in {"read", "junk"}
  BY DEF WatchInv, QueueOk
<1>a. /\ AddWatch(o) /\ nfd[o] # -1 /\ buf \in WatchEvent /\ buf.wd \in DOMAIN nresmap
      /\ nresmap[buf.wd] = o /\ buf' = NoEvent
      /\ modset' = modset \cup {NewWd(o)}
      /\ UNCHANGED <<inode, nextinode, wstep, several, twice, misread, fault>>
  BY <1>0 DEF WatchType
<1> HIDE DEF Restarted, Handle, disk
<1>1. buf' \in WatchEvent \cup {NoEvent}
  BY <1>0, <1>a DEF WatchType
<1>2. /\ WatchType' /\ OneFile' /\ Owned' /\ KeysOk'
      /\ nfd'[o] \in DOMAIN watching' /\ watching'[nfd'[o]] = inode'[o]
      /\ \A p \in Objs \ {o} :
           /\ nfd'[p] = nfd[p] /\ (Tracked(p)' => Tracked(p))
           /\ nfd[p] \in DOMAIN watching =>
                nfd[p] \in DOMAIN watching' /\ watching'[nfd[p]] = watching[nfd[p]]
  BY <1>1, <1>a, AddWatchKeeps
<1>3. /\ nfd' = [nfd EXCEPT ![o] = NewWd(o)] /\ NewWd(o) \in 1..nextwd'-1 /\ nextwd' \in Nat
      /\ DOMAIN nresmap' = DOMAIN nresmap \cup {NewWd(o)} /\ nresmap'[NewWd(o)] = o
      /\ \A wd \in DOMAIN nresmap \ {NewWd(o)} : nresmap'[wd] = nresmap[wd]
  BY <1>a, AddWatchEffect
<1>b. nfd'[o] = NewWd(o) /\ nfd'[o] # -1
  BY <1>0, <1>3 DEF WatchType
<1>4. QueueOk'
  <2> SUFFICES ASSUME NEW e \in EventsIn(events), e.wd \in DOMAIN nresmap'
               PROVE  nfd'[nresmap'[e.wd]] # -1
    BY <1>0, <1>a DEF QueueOk, AddWatch
  <2>1. CASE nresmap'[e.wd] = o
    BY <1>b, <2>1
  <2>2. CASE nresmap'[e.wd] # o
    <3>1. nresmap'[e.wd] = nresmap[e.wd] /\ e.wd \in DOMAIN nresmap /\ nresmap[e.wd] \in Objs \ {o}
      BY <1>0, <1>3, <2>2 DEF WatchType
    <3> QED  BY <1>2, <3>1 DEF WatchInv, QueueOk
  <2> QED  BY <2>1, <2>2
<1>5. ModsetOk'
  <2> SUFFICES ASSUME ~twice, ~misread, NEW wd \in modset'
               PROVE  \E p \in Objs : nfd'[p] = wd /\ (inode[p] # 0 => wd \in DOMAIN watching')
    BY <1>0, <1>a DEF ModsetOk
  <2>1. CASE wd = NewWd(o)
    BY <1>2, <1>b, <2>1
  <2>2. CASE wd # NewWd(o)
    <3>1. PICK p \in Objs : nfd[p] = wd /\ (inode[p] # 0 => wd \in DOMAIN watching)
      BY <1>a, <2>2 DEF WatchInv, ModsetOk
    <3>2. p # o
      BY <1>a, <2>2, <3>1, AddWatchEffect
    <3> QED  BY <1>2, <3>1, <3>2
  <2> QED  BY <2>1, <2>2
<1>6. TrackedOk' /\ AssertHasCause'
  <2> SUFFICES ASSUME ~several, NEW p \in Objs, Tracked(p)' PROVE Sound(p)'
    BY <1>0, <1>1, <1>a DEF WatchInv, TrackedOk, AssertHasCause
  <2>1. CASE p = o
    BY <1>2, <2>1 DEF Sound
  <2>2. CASE p # o
    <3>1. Tracked(p) /\ Sound(p)
      BY <1>2, <2>2 DEF WatchInv, TrackedOk
    <3>2. buf # [wd |-> nfd[p], kind |-> "ignored"]
      BY <1>0, <1>a, <2>2, <3>1 DEF KeysOk, Tracked
    <3> QED  BY <1>2, <1>a, <2>2, <3>1, <3>2 DEF Sound, AddWatch
  <2> QED  BY <2>1, <2>2
<1> QED  BY <1>2, <1>4, <1>5, <1>6 DEF WatchInv

\* A deleted file is not watched, and its key can go.
LEMMA DroppedStep == ASSUME WatchInv, NEW o \in Objs, Dropped(o), fault = "none" PROVE WatchInv'
<1>1. CASE fault' = "null_deref" /\ UNCHANGED nresmap
  <2> USE <1>1 DEF Dropped, Handle, kernel, disk
  <2>1. WatchType' /\ OneFile' /\ Owned' /\ KeysOk'
    BY Unmoved DEF WatchInv, WatchType
  <2>2. QueueOk' /\ ModsetOk' /\ AssertHasCause' /\ TrackedOk'
    BY DEF WatchInv, QueueOk, ModsetOk, AssertHasCause, TrackedOk
  <2> QED  BY <2>1, <2>2 DEF WatchInv
<1>2. CASE DeleteKey(nfd[o]) /\ UNCHANGED fault
  <2> USE <1>2 DEF Dropped, Handle, kernel, disk
  <2>0. WatchType /\ OneFile /\ Owned /\ KeysOk
    BY DEF WatchInv
  <2>1. /\ DOMAIN nresmap' = DOMAIN nresmap \ {nfd[o]}
        /\ \A wd \in DOMAIN nresmap' : nresmap'[wd] = nresmap[wd]
        /\ nresmap' \in [DOMAIN nresmap' -> Objs]
    BY <2>0 DEF DeleteKey, WatchType
  <2>2. nfd[o] \notin DOMAIN watching
    BY <2>0 DEF Owned, KeysOk
  <2>3. WatchType'
    BY <2>0, <2>1 DEF WatchType
  <2>4. OneFile' /\ Owned' /\ KeysOk'
    BY <2>0, <2>1, <2>2 DEF OneFile, Owned, KeysOk
  <2>5. QueueOk' /\ ModsetOk' /\ AssertHasCause'
    BY <2>1 DEF WatchInv, QueueOk, ModsetOk, AssertHasCause
  <2>6. TrackedOk'
    <3> SUFFICES ASSUME ~several, NEW p \in Objs, Tracked(p)' PROVE Sound(p)'
      BY DEF WatchInv, TrackedOk
    <3>1. Tracked(p) /\ Sound(p) /\ p # o
      BY <2>1 DEF WatchInv, TrackedOk, Tracked
    <3>2. buf # [wd |-> nfd[p], kind |-> "ignored"]
      BY <2>0, <3>1 DEF KeysOk, Tracked
    <3> QED  BY <3>1, <3>2 DEF Sound
  <2> QED  BY <2>3, <2>4, <2>5, <2>6 DEF WatchInv
<1> QED  BY <1>1, <1>2 DEF Dropped

LEMMA RemoveStep == ASSUME WatchInv, NEW o \in Objs, Remove(o) PROVE WatchInv'
<1> USE DEF Remove, CanRemove, disk, check
<1>0. WatchType /\ OneFile /\ Owned /\ KeysOk
  BY DEF WatchInv
<1>1. /\ DOMAIN nresmap' = DOMAIN nresmap \ {nfd[o]}
      /\ \A wd \in DOMAIN nresmap' : nresmap'[wd] = nresmap[wd]
      /\ nresmap' \in [DOMAIN nresmap' -> Objs]
  BY <1>0 DEF DeleteKey, WatchType
<1>2. /\ events' \in Seq(WatchEvent)
      /\ EventsIn(events) \subseteq EventsIn(events')
      /\ \A e \in EventsIn(events') : e \in EventsIn(events) \/ e.wd \in {nfd[o]} \cap DOMAIN watching
      /\ DOMAIN watching' = DOMAIN watching \ {nfd[o]}
      /\ \A wd \in DOMAIN watching' : watching'[wd] = watching[wd]
  BY <1>0, UnwatchEffect DEF WatchType
<1>3. \A p \in Objs : nfd'[p] = IF p = o THEN -1 ELSE nfd[p]
  BY <1>0 DEF WatchType
<1>4. WatchType'
  <2>1. watching' \in [DOMAIN watching' -> Nat]
    BY <1>0, <1>2 DEF Unwatch, WatchType
  <2> QED  BY <1>0, <1>1, <1>2, <2>1 DEF WatchType
<1>5. OneFile' /\ KeysOk'
  BY <1>0, <1>1, <1>3 DEF OneFile, KeysOk, WatchType
<1>6. Owned'
  BY <1>0, <1>1, <1>2, <1>3 DEF Owned, WatchType
<1>7. QueueOk'
  <2> SUFFICES ASSUME NEW e \in EventsIn(events'), e.wd \in DOMAIN nresmap'
               PROVE  nfd'[nresmap'[e.wd]] # -1 /\ nfd'[nresmap'[e.wd]] = e.wd
    BY DEF WatchInv, QueueOk
  <2>1. e \in EventsIn(events) /\ e.wd \in DOMAIN nresmap /\ e.wd # nfd[o]
    BY <1>1, <1>2
  <2>2. nfd[nresmap[e.wd]] = e.wd /\ nfd[nresmap[e.wd]] # -1
    BY <2>1 DEF WatchInv, QueueOk
  <2> QED  BY <1>0, <1>1, <1>3, <2>1, <2>2 DEF WatchType
<1>8. ModsetOk' /\ AssertHasCause'
  BY DEF WatchInv, ModsetOk, AssertHasCause
<1>9. TrackedOk'
  <2> SUFFICES ASSUME ~several, fault = "none", NEW p \in Objs, Tracked(p)' PROVE Sound(p)'
    BY DEF WatchInv, TrackedOk
  <2>1. p # o /\ nfd'[p] = nfd[p] /\ nfd[p] # nfd[o] /\ Tracked(p)
    BY <1>0, <1>1, <1>3 DEF Tracked
  <2>2. Sound(p)
    BY <2>1 DEF WatchInv, TrackedOk
  <2> QED  BY <1>2, <2>1, <2>2 DEF Sound
<1> QED  BY <1>4, <1>5, <1>6, <1>7, <1>8, <1>9 DEF WatchInv

\* What this check began to watch anew is the nfd of a resource, so a key that is
\* not was left by a second start, or by junk.
LEMMA FlushStep == ASSUME WatchInv, Flush, fault = "none" PROVE WatchInv'
<1> USE DEF Flush, kernel, disk
<1>1. WatchType' /\ OneFile' /\ Owned' /\ KeysOk'
  BY Unmoved DEF WatchInv, WatchType
<1>2. QueueOk' /\ ModsetOk'
  BY DEF QueueOk, ModsetOk, EventsIn
<1>3. AssertHasCause'
  <2> SUFFICES ASSUME NEW wd \in modset \cap DOMAIN nresmap, nfd[nresmap[wd]] # wd
               PROVE  twice \/ misread
    BY DEF AssertHasCause
  <2> QED  BY DEF WatchInv, ModsetOk, KeysOk
<1>4. TrackedOk'
  BY DEF WatchInv, TrackedOk, Tracked, Sound
<1> QED  BY <1>1, <1>2, <1>3, <1>4 DEF WatchInv

LEMMA ScanStep == ASSUME WatchInv, Scan, fault = "none" PROVE WatchInv'
<1> USE DEF Scan, kernel, disk
<1>1. WatchType' /\ OneFile' /\ Owned' /\ KeysOk'
  BY Unmoved DEF WatchInv, WatchType
<1>2. QueueOk' /\ ModsetOk' /\ AssertHasCause'
  BY DEF WatchInv, QueueOk, ModsetOk, AssertHasCause
<1>3. TrackedOk'
  BY DEF WatchInv, TrackedOk, Tracked, Sound
<1> QED  BY <1>1, <1>2, <1>3 DEF WatchInv

-----------------------------------------------------------------------------
LEMMA WatchInvStep == WatchInv /\ [WatchNext]_watchVars => WatchInv'
<1> SUFFICES ASSUME WatchInv, [WatchNext]_watchVars PROVE WatchInv'
  OBVIOUS
<1>1. CASE CheckStep
  BY <1>1, PollStep, ReadStep, JunkStep, UnknownStep, FlushStep, ScanStep,
     DanglingStep, ModifiedStep, WrittenStep, RestartedStep, DroppedStep DEF CheckStep
<1>2. ASSUME NEW o \in Objs, Write(o) \/ Replace(o) \/ Unlink(o) PROVE WatchInv'
  BY <1>2, WriteStep, ReplaceStep
<1>3. ASSUME NEW o \in Objs, Start(o) \/ Remove(o) PROVE WatchInv'
  BY <1>3, StartStep, RemoveStep
<1>4. ASSUME NEW o \in Objs, TimeUp(o) \/ Load(o) \/ RemoveCrashes(o) PROVE WatchInv'
  BY <1>4, QuietStep DEF TimeUp, Load, RemoveCrashes, disk, resource
<1>5. CASE UNCHANGED watchVars
  BY <1>5, QuietStep DEF watchVars, disk, resource
<1> QED  BY <1>1, <1>2, <1>3, <1>4, <1>5 DEF WatchNext

\* The names can be told apart by number, since there are finitely many.
LEMMA Numbered ==
  \E f \in [Objs -> 1..Cardinality(Objs)] : \A o, p \in Objs : f[o] = f[p] => o = p
<1>1. ExistsBijection(1..Cardinality(Objs), Objs)
  BY WatchAssumption, FS_CardinalityType
<1>2. Bijection(Objs, 1..Cardinality(Objs)) # {}
  BY <1>1, Fun_ExistsBijSymmetric DEF ExistsBijection
<1> DEFINE B == Bijection(Objs, 1..Cardinality(Objs))
<1>3. \A f \in B : f \in [Objs -> 1..Cardinality(Objs)] /\ \A o, p \in Objs : f[o] = f[p] => o = p
  <2> TAKE f \in B
  <2> QED  BY Fun_BijectionProperties
<1> HIDE DEF B
<1> QED  BY <1>2, <1>3 DEF B

LEMMA WatchInvInit == WatchInit => WatchInv
<1> SUFFICES ASSUME WatchInit PROVE WatchInv
  OBVIOUS
<1> USE DEF WatchInit
<1>1. /\ inode \in [Objs -> 1..Cardinality(Objs)] /\ Cardinality(Objs) \in Nat
      /\ \A o, p \in Objs : inode[o] = inode[p] => o = p
  BY Numbered, WatchAssumption, FS_CardinalityType
<1>2. DOMAIN <<>> = {} /\ <<>> \in Seq(WatchEvent) /\ EventsIn(<<>>) = {}
  BY DEF EventsIn
<1>0. nextinode = Cardinality(Objs) + 1
  OBVIOUS
<1>5. watching \in [DOMAIN watching -> Nat] /\ nresmap \in [DOMAIN nresmap -> Objs]
  BY <1>2
<1>7. /\ nextwd = 1 /\ watching = <<>> /\ nresmap = <<>> /\ events = <<>>
      /\ buf = NoEvent /\ nfd = [o \in Objs |-> 0]
  OBVIOUS
<1> HIDE DEF WatchInit
<1>3. inode \in [Objs -> Nat] /\ OneFile
  BY <1>0, <1>1 DEF OneFile
<1>6. WatchType
  BY <1>0, <1>1, <1>2, <1>3, <1>5, <1>7 DEF WatchType
<1>4. Owned /\ KeysOk /\ QueueOk /\ ModsetOk /\ TrackedOk /\ AssertHasCause
  BY <1>2 DEF WatchInit, Owned, KeysOk, QueueOk, ModsetOk, TrackedOk, AssertHasCause, Tracked
<1> QED  BY <1>3, <1>4, <1>6 DEF WatchInv

LEMMA WatchInvariance == WatchSpec => []WatchInv
BY WatchInvInit, WatchInvStep, PTL DEF WatchSpec

\* For any number of resources and changes: though old keys stay in the tree
\* and old events in the queue, no such event leads to a resource that was
\* freed (filewatch_linux.c:78, 87-88).
THEOREM QueueLeadsToLive == WatchSpec => []FoundIsLive
<1>1. WatchInv => FoundIsLive
  BY DEF WatchInv, QueueOk, EventsIn, FoundIsLive
<1> QED  BY <1>1, WatchInvariance, PTL

\* For any number of resources and changes: as long as every read returns one
\* event, no replaced file is lost (filewatch_linux.c:124-137).
THEOREM TrackedStaysWatched == WatchSpec => []TrackedIsWatched
<1>1. WatchInv => TrackedIsWatched
  BY DEF WatchInv, TrackedOk, Sound, EventsIn, TrackedIsWatched
<1> QED  BY <1>1, WatchInvariance, PTL

\* For any number of resources and changes: however many files are replaced,
\* the assertion fails only in a check that met a file replaced again since it
\* began to watch it anew, or took junk for IN_CLOSE_WRITE
\* (filewatch_linux.c:115-121, 126-141, 172).
THEOREM AssertionHasCause == WatchSpec => []AssertHasCause
<1>1. WatchInv => AssertHasCause
  BY DEF WatchInv
<1> QED  BY <1>1, WatchInvariance, PTL

-----------------------------------------------------------------------------
(* What a check touches.                                                   *)

\* No resource that was freed has been touched, and the event at hand leads to
\* none, unless one was made up of what comes after the first of several.
BufOk ==
  ~several => /\ fault # "use_after_free"
              /\ buf # NoEvent /\ buf.wd \in DOMAIN nresmap => nfd[nresmap[buf.wd]] # -1

LEMMA BufOkStep == WatchInv /\ BufOk /\ [WatchNext]_watchVars => BufOk'
<1> SUFFICES ASSUME WatchInv, BufOk, [WatchNext]_watchVars PROVE BufOk'
  OBVIOUS
<1> USE DEF BufOk
<1>1. ASSUME buf' = NoEvent, several' = several, fault' \in {fault, "assert", "null_deref"}
      PROVE  BufOk'
  BY <1>1
<1>2. ASSUME UNCHANGED <<nfd, nresmap, buf, several>>, fault' \in {fault, "assert", "null_deref"}
      PROVE  BufOk'
  BY <1>2
<1>3. wstep = "idle" => buf = NoEvent
  BY DEF WatchInv, QueueOk
<1>4. CASE CheckStep
  <2>1. CASE Poll \/ Scan \/ Flush
    BY <1>2, <2>1 DEF Poll, Scan, Flush, resource, kernel
  <2>2. CASE Read
    <3>1. events \in Seq(WatchEvent) /\ events # <<>>
      BY <2>2 DEF Read, WatchInv, WatchType
    <3>2. Head(events) \in EventsIn(events)
      BY <3>1 DEF EventsIn
    <3>3. buf' \in EventsIn(events) /\ UNCHANGED <<nfd, nresmap, fault>> /\ (several => several')
      BY <2>2, <3>2 DEF Read, resource
    <3>4. buf'.wd \in DOMAIN nresmap => nfd[nresmap[buf'.wd]] # -1
      BY <3>3 DEF WatchInv, QueueOk
    <3> QED  BY <3>3, <3>4
  <2>3. CASE Junk \/ JunkEnds
    BY <2>3 DEF Junk, JunkEnds, WatchInv, TrackedOk
  <2>4. CASE Unknown
    BY <1>1, <2>4 DEF Unknown
  <2>5. ASSUME NEW o \in Objs, Dangling(o) PROVE BufOk'
    BY <2>5 DEF Dangling, Handle
  <2>6. ASSUME NEW o \in Objs, Modified(o) \/ Written(o) \/ Restarted(o) \/ Dropped(o)
        PROVE  BufOk'
    BY <1>1, <2>6 DEF Modified, Written, Restarted, Dropped, Handle
  <2> QED  BY <1>4, <2>1, <2>2, <2>3, <2>4, <2>5, <2>6 DEF CheckStep
<1>5. ASSUME NEW o \in Objs, Start(o) \/ Remove(o) PROVE BufOk'
  BY <1>1, <1>3, <1>5 DEF Start, Remove, CanRemove, check
<1>6. ASSUME NEW o \in Objs, RemoveCrashes(o) PROVE BufOk'
  BY <1>2, <1>6 DEF RemoveCrashes, resource, check
<1>7. ASSUME NEW o \in Objs, Write(o) \/ Replace(o) \/ Unlink(o) \/ TimeUp(o) \/ Load(o) PROVE BufOk'
  BY <1>2, <1>7 DEF Write, Replace, Unlink, Change, TimeUp, Load, resource, check
<1>8. CASE UNCHANGED watchVars
  BY <1>2, <1>8 DEF watchVars, resource, check
<1> QED  BY <1>4, <1>5, <1>6, <1>7, <1>8 DEF WatchNext

\* For any number of resources and changes: a check follows an event to a
\* resource that was freed only when it takes junk for an event, after the first
\* of several (filewatch_linux.c:110, 150).
THEOREM OnlyJunkDangles == WatchSpec => [](fault = "use_after_free" => several)
<1>1. WatchInit => BufOk
  BY DEF WatchInit, BufOk
<1>2. WatchSpec => []BufOk
  BY <1>1, BufOkStep, WatchInvariance, PTL DEF WatchSpec
<1>3. BufOk => (fault = "use_after_free" => several)
  BY DEF BufOk
<1> QED  BY <1>2, <1>3, PTL
=============================================================================
