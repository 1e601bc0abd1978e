---------------------------- MODULE WinWatchProofs ----------------------------
(***************************************************************************)
(* Proofs about the file watcher for Windows: its directories and their    *)
(* events, and whom their items are, for any finite set of resources, any  *)
(* directories of theirs and any number of changes on disk; then that the  *)
(* directory of a file is found, for any names and any number of them.     *)
(***************************************************************************)
EXTENDS WinWatch, WinPath, Recursions, FiniteSetTheorems, SequenceTheorems, TLAPS

\* The resources that the watcher knows, and that exist; those of a directory.
Live == watched \ freed
InDir(live, d) == {r \in live : DirOf[r] = d}

WinType ==
  /\ nextevent \in Nat \ {0} /\ wait_handles \in Seq(Int)
  /\ watched \in SUBSET WinObjs /\ freed \in SUBSET WinObjs
  /\ \A d \in DOMAIN watchdirs :
       /\ DOMAIN watchdirs[d] = {"nref", "items", "event"}
       /\ watchdirs[d].nref \in Int

\* Each directory has an event of its own, that is open and waited for.
EventsOk ==
  /\ closed \subseteq 1..nextevent-1
  /\ \A d \in DOMAIN watchdirs :
       /\ watchdirs[d].event \in 1..nextevent-1 /\ watchdirs[d].event \notin closed
       /\ \E k \in DOMAIN wait_handles : wait_handles[k] = watchdirs[d].event
       /\ \A f \in DOMAIN watchdirs : watchdirs[f].event = watchdirs[d].event => f = d

\* nref counts a resource as often as it was started; but at least once.
Counted == \A d \in DOMAIN watchdirs : Cardinality(InDir(Live, d)) <= watchdirs[d].nref

Covered == \A r \in Live : DirOf[r] \in DOMAIN watchdirs

\* The items of a directory, while no resource was started twice.
Listed(items, live) ==
  /\ items \in Seq(WinObjs)
  /\ \A k \in 1..Len(items) : items[k] \in live
  /\ \A j, k \in 1..Len(items) : items[j] = items[k] => j = k

ItemsOk ==
  ~again => /\ (winreloads \cup windone) \cap freed = {}
            /\ \A d \in DOMAIN watchdirs : Listed(watchdirs[d].items, InDir(Live, d))

WinInv == WinType /\ EventsOk /\ Counted /\ Covered /\ ItemsOk

-----------------------------------------------------------------------------
LEMMA LiveFinite ==
  ASSUME WinType, NEW d
  PROVE  IsFiniteSet(InDir(Live, d)) /\ Cardinality(InDir(Live, d)) \in Nat
<1>1. InDir(Live, d) \subseteq WinObjs
  BY DEF InDir, Live, WinType
<1>2. IsFiniteSet(InDir(Live, d))
  BY <1>1, WinAssumption, FS_Subset
<1> QED  BY <1>2, FS_CardinalityType

\* A start adds its resource to one directory, or to none.
LEMMA Started ==
  ASSUME WinType, NEW r \in WinObjs, StartCall(r), NEW d
  PROVE  /\ d # DirOf[r] => InDir(Live', d) = InDir(Live, d)
         /\ InDir(Live, d) \subseteq InDir(Live', d)
         /\ r \notin freed /\ d = DirOf[r] => r \in InDir(Live', d)
         /\ Cardinality(InDir(Live', d)) \in Nat
         /\ Cardinality(InDir(Live', d)) <= Cardinality(InDir(Live, d)) + 1
<1>1. freed' = freed /\ watched' = watched \cup {r}
  BY DEF StartCall
<1>2. \/ InDir(Live', d) = InDir(Live, d)
      \/ InDir(Live', d) = InDir(Live, d) \cup {r} /\ d = DirOf[r]
  <2>1. CASE d = DirOf[r] /\ r \notin freed
    BY <1>1, <2>1 DEF InDir, Live
  <2>2. CASE ~(d = DirOf[r] /\ r \notin freed)
    BY <1>1, <2>2 DEF InDir, Live
  <2> QED  BY <2>1, <2>2
<1>3. Cardinality(InDir(Live, d) \cup {r}) <= Cardinality(InDir(Live, d)) + 1
  <2>1. /\ IsFiniteSet(InDir(Live, d)) /\ Cardinality(InDir(Live, d)) \in Nat
    BY LiveFinite
  <2>2. Cardinality(InDir(Live, d) \cup {r}) =
          IF r \in InDir(Live, d) THEN Cardinality(InDir(Live, d)) ELSE Cardinality(InDir(Live, d)) + 1
    BY <2>1, FS_AddElement
  <2> QED  BY <2>1, <2>2
<1>4. Cardinality(InDir(Live, d)) \in Nat
  BY LiveFinite
<1>5. Cardinality(InDir(Live', d)) <= Cardinality(InDir(Live, d)) + 1
  <2>1. CASE InDir(Live', d) = InDir(Live, d)
    BY <1>4, <2>1
  <2>2. CASE InDir(Live', d) = InDir(Live, d) \cup {r}
    BY <1>3, <2>2
  <2> QED  BY <1>2, <2>1, <2>2
<1>6. r \notin freed /\ d = DirOf[r] => r \in InDir(Live', d)
  BY <1>1 DEF InDir, Live
<1>7. Cardinality(InDir(Live', d)) \in Nat
  BY <1>2, <1>4, LiveFinite, FS_AddElement, FS_CardinalityType
<1> QED  BY <1>2, <1>5, <1>6, <1>7

\* What is freed leaves its directory.
LEMMA Freed ==
  ASSUME WinType, NEW r \in WinObjs, StopCall(r), Free(r), NEW d
  PROVE  /\ InDir(Live', d) = InDir(Live, d) \ {r}
         /\ r \in InDir(Live, d) => Cardinality(InDir(Live', d)) = Cardinality(InDir(Live, d)) - 1
         /\ r \notin InDir(Live, d) => InDir(Live', d) = InDir(Live, d)
<1>1. freed' = freed \cup {r} /\ watched' = watched
  BY DEF Free, StopCall
<1>2. InDir(Live', d) = InDir(Live, d) \ {r}
  BY <1>1 DEF InDir, Live
<1>3. r \in InDir(Live, d) => Cardinality(InDir(Live, d) \ {r}) = Cardinality(InDir(Live, d)) - 1
  BY LiveFinite, FS_RemoveElement
<1> QED  BY <1>2, <1>3

\* Where no resource has two items, taking one out works: it goes, and others
\* may go with it.
LEMMA UnlinkedKeeps ==
  ASSUME NEW items \in Seq(WinObjs), items # <<>>, NEW r,
         \A j, k \in 1..Len(items) : items[j] = items[k] => j = k,
         NEW u, u = Unlinked(items, r)
  PROVE  /\ u \in Seq(WinObjs)
         /\ \A k \in 1..Len(u) : u[k] # r /\ \E j \in 1..Len(items) : items[j] = u[k]
         /\ \A j, k \in 1..Len(u) : u[j] = u[k] => j = k
<1>0. Len(items) \in Nat \ {0}
  OBVIOUS
<1>1. CASE items[1] = r
  <2>1. u = Tail(items)
    BY <1>1 DEF Unlinked
  <2>2. /\ Tail(items) \in Seq(WinObjs) /\ Len(Tail(items)) = Len(items) - 1
        /\ \A k \in 1..Len(Tail(items)) : Tail(items)[k] = items[k + 1]
    OBVIOUS
  <2> QED  BY <1>0, <1>1, <2>1, <2>2
<1>2. CASE items[1] # r /\ \E k \in 2..Len(items) : items[k] = r
  <2> DEFINE k0 == CHOOSE k \in 2..Len(items) : items[k] = r /\ \A j \in 2..k-1 : items[j] # r
             rest == SubSeq(items, k0 + 1, Len(items))
  <2>1. \E k \in 2..Len(items) : items[k] = r /\ \A j \in 2..k-1 : items[j] # r
    BY <1>0, <1>2
  <2>2. k0 \in 2..Len(items) /\ items[k0] = r
    BY <2>1
  <2>3. u = <<items[1]>> \o rest
    BY <1>2 DEF Unlinked
  <2> HIDE DEF k0
  <2>4. /\ rest \in Seq(WinObjs) /\ Len(rest) = Len(items) - k0
        /\ \A k \in 1..Len(rest) : rest[k] = items[k0 + k]
    BY <1>0, <2>2
  <2>5. items[1] \in WinObjs
    BY <1>0
  <2> HIDE DEF rest
  <2>6. /\ <<items[1]>> \o rest \in Seq(WinObjs)
        /\ Len(<<items[1]>> \o rest) = 1 + Len(rest) /\ Len(rest) \in Nat
        /\ \A k \in 1..1 + Len(rest) :
             (<<items[1]>> \o rest)[k] = IF k = 1 THEN items[1] ELSE rest[k - 1]
    BY <2>4, <2>5
  <2>7. Len(u) = 1 + Len(rest) /\ Len(rest) = Len(items) - k0 /\ u \in Seq(WinObjs)
    BY <2>3, <2>4, <2>6
  <2>8. \A k \in 1..Len(u) : u[k] = IF k = 1 THEN items[1] ELSE items[k0 + (k - 1)]
    <3> TAKE k \in 1..Len(u)
    <3>1. CASE k = 1
      BY <2>3, <2>6, <2>7, <3>1
    <3>2. CASE k # 1
      <4>1. k - 1 \in 1..Len(rest)
        BY <2>6, <2>7, <3>2
      <4> QED  BY <2>3, <2>4, <2>6, <2>7, <3>2, <4>1
    <3> QED  BY <3>1, <3>2
  \* The places in items that u has its elements from.
  <2> DEFINE from == [k \in 1..Len(u) |-> IF k = 1 THEN 1 ELSE k0 + (k - 1)]
  <2>9. \A k \in 1..Len(u) : from[k] \in 1..Len(items) /\ from[k] # k0 /\ u[k] = items[from[k]]
    BY <1>0, <2>2, <2>7, <2>8
  <2>10. \A j, k \in 1..Len(u) : from[j] = from[k] => j = k
    BY <1>0, <2>2, <2>7
  <2>11. k0 \in 1..Len(items) /\ items[k0] = r
    BY <1>0, <2>2
  <2> HIDE DEF from
  <2>12. \A k \in 1..Len(u) : u[k] # r
    BY <2>9, <2>11
  <2>13. \A j, k \in 1..Len(u) : u[j] = u[k] => j = k
    <3> TAKE j, k \in 1..Len(u)
    <3> HAVE u[j] = u[k]
    <3>1. from[j] = from[k]
      BY <2>9
    <3> QED  BY <2>10, <3>1
  <2>14. \A k \in 1..Len(u) : \E j \in 1..Len(items) : items[j] = u[k]
    BY <2>9
  <2> QED  BY <2>7, <2>12, <2>13, <2>14
<1>3. CASE items[1] # r /\ ~\E k \in 2..Len(items) : items[k] = r
  <2>1. u = items
    BY <1>3 DEF Unlinked
  <2>2. \A k \in 1..Len(items) : items[k] # r
    BY <1>0, <1>3
  <2> QED  BY <2>1, <2>2
<1> QED  BY <1>1, <1>2, <1>3

-----------------------------------------------------------------------------
\* The steps that start and stop no watch.
LEMMA SameTables ==
  ASSUME WinInv, UNCHANGED <<tables, watched, freed, again>>,
         ~again => (winreloads' \cup windone') \cap freed = {}
  PROVE  WinInv'
<1> USE DEF tables
<1>1. \A d : InDir(Live', d) = InDir(Live, d)
  BY DEF InDir, Live
<1>2. WinType' /\ EventsOk' /\ Covered'
  BY DEF WinInv, WinType, EventsOk, Covered, Live
<1>3. Counted'
  <2> SUFFICES ASSUME NEW d \in DOMAIN watchdirs
               PROVE  Cardinality(InDir(Live', d)) <= watchdirs[d].nref
    BY DEF Counted
  <2> QED  BY <1>1 DEF WinInv, Counted
<1>4. ItemsOk'
  BY <1>1 DEF WinInv, ItemsOk, Listed
<1> QED  BY <1>2, <1>3, <1>4 DEF WinInv

LEMMA CheckStep ==
  ASSUME WinInv, NEW d \in DOMAIN watchdirs, CheckDir(d)
  PROVE  WinInv'
<1>1. UNCHANGED <<tables, watched, freed, again, windone>>
  BY DEF CheckDir, Check, winhistory
<1>2. \A v \in winreloads' : v \in winreloads \/ \E k \in DOMAIN watchdirs[d].items : v = watchdirs[d].items[k]
  BY DEF CheckDir, Match
<1>3. ASSUME ~again PROVE (winreloads' \cup windone') \cap freed = {}
  <2>1. Listed(watchdirs[d].items, InDir(Live, d))
    BY <1>3 DEF WinInv, ItemsOk
  <2>2. \A k \in DOMAIN watchdirs[d].items : watchdirs[d].items[k] \notin freed
    BY <2>1 DEF Listed, InDir, Live
  <2> QED  BY <1>1, <1>2, <1>3, <2>2 DEF WinInv, ItemsOk
<1> QED  BY <1>1, <1>3, SameTables

\* One more reference, for one resource more at most.
LEMMA StartInDirStep == ASSUME WinInv, NEW r \in WinObjs, StartInDir(r) PROVE WinInv'
<1> DEFINE D == DirOf[r]
<1>0. WinType /\ EventsOk /\ Counted /\ Covered
  BY DEF WinInv
<1>1. /\ StartCall(r) /\ D \in DOMAIN watchdirs /\ UNCHANGED <<wait_handles, nextevent, closed, freed, winreloads>>
      /\ watched' = watched \cup {r} /\ r \in windone /\ windone' = windone \ {r}
      /\ again' = (again \/ r \in watched)
  BY DEF StartInDir, StartCall
<1>2. /\ DOMAIN watchdirs' = DOMAIN watchdirs
      /\ \A d \in DOMAIN watchdirs \ {D} : watchdirs'[d] = watchdirs[d]
      /\ DOMAIN watchdirs'[D] = {"nref", "items", "event"}
      /\ watchdirs'[D].nref = watchdirs[D].nref + 1
      /\ watchdirs'[D].items = <<r>> \o watchdirs[D].items
      /\ watchdirs'[D].event = watchdirs[D].event
  BY <1>0, <1>1 DEF StartInDir, WinType
<1> HIDE DEF D
<1>3. /\ \A d : d # D => InDir(Live', d) = InDir(Live, d)
      /\ \A d : \A v \in InDir(Live, d) : v \in InDir(Live', d)
      /\ r \notin freed => r \in InDir(Live', D)
      /\ \A d : Cardinality(InDir(Live', d)) \in Nat
      /\ \A d : Cardinality(InDir(Live', d)) <= Cardinality(InDir(Live, d)) + 1
  <2> SUFFICES ASSUME NEW d
               PROVE  /\ d # D => InDir(Live', d) = InDir(Live, d)
                      /\ \A v \in InDir(Live, d) : v \in InDir(Live', d)
                      /\ r \notin freed /\ d = D => r \in InDir(Live', d)
                      /\ Cardinality(InDir(Live', d)) \in Nat
                      /\ Cardinality(InDir(Live', d)) <= Cardinality(InDir(Live, d)) + 1
    OBVIOUS
  <2> QED  BY <1>0, <1>1, Started DEF D
<1>4. WinType'
  <2>1. \A d \in DOMAIN watchdirs' : DOMAIN watchdirs'[d] = {"nref", "items", "event"} /\ watchdirs'[d].nref \in Int
    BY <1>0, <1>1, <1>2 DEF WinType
  <2> QED  BY <1>0, <1>1, <2>1 DEF WinType
<1>5. EventsOk'
  BY <1>0, <1>1, <1>2 DEF EventsOk
<1>6. Counted'
  <2> SUFFICES ASSUME NEW d \in DOMAIN watchdirs
               PROVE  Cardinality(InDir(Live', d)) <= watchdirs'[d].nref
    BY <1>2 DEF Counted
  <2>1. Cardinality(InDir(Live, d)) \in Nat /\ Cardinality(InDir(Live, d)) <= watchdirs[d].nref /\ watchdirs[d].nref \in Int
    BY <1>0, LiveFinite DEF Counted, WinType
  <2>2. CASE d = D
    BY <1>1, <1>2, <1>3, <2>1, <2>2
  <2>3. CASE d # D
    BY <1>2, <1>3, <2>1, <2>3
  <2> QED  BY <2>2, <2>3
<1>7. Covered'
  BY <1>0, <1>1, <1>2 DEF Covered, Live, D
<1>8. ItemsOk'
  <2> SUFFICES ASSUME ~again' PROVE /\ (winreloads' \cup windone') \cap freed' = {}
                                    /\ \A d \in DOMAIN watchdirs' : Listed(watchdirs'[d].items, InDir(Live', d))
    BY DEF ItemsOk
  <2>0. ~again /\ r \notin watched
    BY <1>1
  <2>1. (winreloads \cup windone) \cap freed = {} /\ \A d \in DOMAIN watchdirs : Listed(watchdirs[d].items, InDir(Live, d))
    BY <2>0 DEF WinInv, ItemsOk
  <2>2. ASSUME NEW d \in DOMAIN watchdirs \ {D} PROVE Listed(watchdirs'[d].items, InDir(Live', d))
    BY <1>2, <1>3, <2>1, <2>2 DEF Listed
  <2>3. Listed(watchdirs'[D].items, InDir(Live', D))
    <3> DEFINE items == watchdirs[D].items
    <3>1. /\ items \in Seq(WinObjs)
          /\ \A k \in 1..Len(items) : items[k] \in InDir(Live, D)
          /\ \A j, k \in 1..Len(items) : items[j] = items[k] => j = k
      BY <1>1, <2>1 DEF Listed
    <3> HIDE DEF items
    <3>2. /\ <<r>> \o items \in Seq(WinObjs) /\ Len(<<r>> \o items) = 1 + Len(items) /\ Len(items) \in Nat
          /\ \A k \in 1..1 + Len(items) : (<<r>> \o items)[k] = IF k = 1 THEN r ELSE items[k - 1]
      BY <3>1
    <3>3. \A k \in 1..Len(items) : items[k] # r
      BY <2>0, <3>1 DEF InDir, Live
    <3>4. \A k \in 1..1 + Len(items) : (<<r>> \o items)[k] \in InDir(Live', D)
      BY <1>1, <1>3, <2>1, <3>1, <3>2
    <3>5. \A j, k \in 1..1 + Len(items) : (<<r>> \o items)[j] = (<<r>> \o items)[k] => j = k
      BY <3>1, <3>2, <3>3
    <3>6. watchdirs'[D].items = <<r>> \o items
      BY <1>2 DEF items
    <3> QED  BY <3>2, <3>4, <3>5, <3>6 DEF Listed
  <2> QED  BY <1>1, <1>2, <2>1, <2>2, <2>3
<1> QED  BY <1>4, <1>5, <1>6, <1>7, <1>8 DEF WinInv

\* A directory that is new, with a single resource.
LEMMA StartDirStep == ASSUME WinInv, NEW r \in WinObjs, StartDir(r) PROVE WinInv'
<1> DEFINE D == DirOf[r]
<1>0. WinType /\ EventsOk /\ Counted /\ Covered
  BY DEF WinInv
<1>1. /\ StartCall(r) /\ D \notin DOMAIN watchdirs /\ UNCHANGED <<closed, freed, winreloads>>
      /\ watched' = watched \cup {r} /\ r \in windone /\ windone' = windone \ {r}
      /\ again' = (again \/ r \in watched)
      /\ wait_handles' = Append(wait_handles, nextevent) /\ nextevent' = nextevent + 1
  BY DEF StartDir, StartCall
<1>2. /\ DOMAIN watchdirs' = DOMAIN watchdirs \cup {D}
      /\ \A d \in DOMAIN watchdirs \ {D} : watchdirs'[d] = watchdirs[d]
      /\ watchdirs'[D] = [nref |-> 1, items |-> <<r>>, event |-> nextevent]
  BY <1>0, <1>1 DEF StartDir, Put
<1>3. /\ DOMAIN watchdirs'[D] = {"nref", "items", "event"}
      /\ watchdirs'[D].nref = 1 /\ watchdirs'[D].items = <<r>> /\ watchdirs'[D].event = nextevent
  BY <1>2
<1> HIDE DEF D
<1>4. /\ \A d : d # D => InDir(Live', d) = InDir(Live, d)
      /\ r \notin freed => r \in InDir(Live', D)
      /\ Cardinality(InDir(Live', D)) \in Nat
      /\ Cardinality(InDir(Live', D)) <= Cardinality(InDir(Live, D)) + 1
  <2> SUFFICES ASSUME NEW d
               PROVE  /\ d # D => InDir(Live', d) = InDir(Live, d)
                      /\ r \notin freed /\ d = D => r \in InDir(Live', d)
                      /\ Cardinality(InDir(Live', d)) \in Nat
                      /\ Cardinality(InDir(Live', d)) <= Cardinality(InDir(Live, d)) + 1
    OBVIOUS
  <2> QED  BY <1>0, <1>1, Started DEF D
<1>5. /\ Append(wait_handles, nextevent) \in Seq(Int) /\ Len(wait_handles) \in Nat
      /\ Len(Append(wait_handles, nextevent)) = Len(wait_handles) + 1
      /\ \A k \in 1..Len(wait_handles) : Append(wait_handles, nextevent)[k] = wait_handles[k]
      /\ Append(wait_handles, nextevent)[Len(wait_handles) + 1] = nextevent
      /\ DOMAIN wait_handles = 1..Len(wait_handles)
      /\ DOMAIN Append(wait_handles, nextevent) = 1..Len(wait_handles) + 1
  BY <1>0 DEF WinType
<1>6. WinType'
  BY <1>0, <1>1, <1>2, <1>3, <1>5 DEF WinType
<1>7. EventsOk'
  <2>1. closed' \subseteq 1..nextevent'-1
    BY <1>0, <1>1 DEF EventsOk, WinType
  <2>2. ASSUME NEW d \in DOMAIN watchdirs'
        PROVE  /\ watchdirs'[d].event \in 1..nextevent'-1 /\ watchdirs'[d].event \notin closed'
               /\ \E k \in DOMAIN wait_handles' : wait_handles'[k] = watchdirs'[d].event
               /\ \A f \in DOMAIN watchdirs' : watchdirs'[f].event = watchdirs'[d].event => f = d
    <3>1. CASE d = D
      <4>1. \A f \in DOMAIN watchdirs \ {D} : watchdirs'[f].event # nextevent
        BY <1>0, <1>2 DEF EventsOk, WinType
      <4>2. nextevent \notin closed /\ nextevent \in 1..nextevent'-1
        BY <1>0, <1>1 DEF EventsOk, WinType
      <4>3. watchdirs'[d].event = nextevent
        BY <1>3, <3>1
      <4>4. /\ Len(wait_handles) + 1 \in DOMAIN wait_handles'
            /\ wait_handles'[Len(wait_handles) + 1] = nextevent
        BY <1>1, <1>5
      <4>5. \A f \in DOMAIN watchdirs' : f # d => f \in DOMAIN watchdirs \ {D}
        BY <1>2, <3>1
      <4>6. watchdirs'[d].event \in 1..nextevent'-1 /\ watchdirs'[d].event \notin closed'
        BY <1>1, <4>2, <4>3
      <4>7. \A f \in DOMAIN watchdirs' : watchdirs'[f].event = watchdirs'[d].event => f = d
        BY <4>1, <4>3, <4>5
      <4> QED  BY <4>3, <4>4, <4>6, <4>7
    <3>2. CASE d # D
      <4>1. watchdirs'[d] = watchdirs[d] /\ d \in DOMAIN watchdirs
        BY <1>2, <3>2
      <4>2. /\ watchdirs[d].event \in 1..nextevent-1 /\ watchdirs[d].event \notin closed
            /\ \E k \in DOMAIN wait_handles : wait_handles[k] = watchdirs[d].event
            /\ \A f \in DOMAIN watchdirs : watchdirs[f].event = watchdirs[d].event => f = d
        BY <1>0, <4>1 DEF EventsOk
      <4>3. \E k \in DOMAIN wait_handles' : wait_handles'[k] = watchdirs[d].event
        BY <1>1, <1>5, <4>2
      <4>4. watchdirs[d].event \in 1..nextevent'-1 /\ watchdirs[d].event # nextevent
        BY <1>0, <1>1, <4>2 DEF WinType
      <4>5. \A f \in DOMAIN watchdirs' : watchdirs'[f].event = watchdirs[d].event => f = d
        BY <1>2, <1>3, <4>2, <4>4
      <4> QED  BY <1>1, <4>1, <4>2, <4>3, <4>4, <4>5
    <3> QED  BY <3>1, <3>2
  <2> QED  BY <2>1, <2>2 DEF EventsOk
<1>8. Counted'
  <2> SUFFICES ASSUME NEW d \in DOMAIN watchdirs'
               PROVE  Cardinality(InDir(Live', d)) <= watchdirs'[d].nref
    BY DEF Counted
  <2>1. CASE d = D
    <3>1. InDir(Live, D) = {}
      BY <1>0, <1>1 DEF Covered, InDir, Live, D
    <3>2. Cardinality(InDir(Live, D)) = 0
      BY <3>1, FS_EmptySet
    <3> QED  BY <1>3, <1>4, <2>1, <3>2
  <2>2. CASE d # D
    BY <1>0, <1>2, <1>4, <2>2 DEF Counted
  <2> QED  BY <2>1, <2>2
<1>9. Covered'
  BY <1>0, <1>1, <1>2 DEF Covered, Live, D
<1>10. ItemsOk'
  <2> SUFFICES ASSUME ~again' PROVE /\ (winreloads' \cup windone') \cap freed' = {}
                                    /\ \A d \in DOMAIN watchdirs' : Listed(watchdirs'[d].items, InDir(Live', d))
    BY DEF ItemsOk
  <2>1. (winreloads \cup windone) \cap freed = {} /\ \A d \in DOMAIN watchdirs : Listed(watchdirs[d].items, InDir(Live, d))
    BY <1>1 DEF WinInv, ItemsOk
  <2>2. ASSUME NEW d \in DOMAIN watchdirs \ {D} PROVE Listed(watchdirs'[d].items, InDir(Live', d))
    BY <1>2, <1>4, <2>1, <2>2 DEF Listed
  <2>3. Listed(<<r>>, InDir(Live', D))
    BY <1>1, <1>4, <2>1 DEF Listed
  <2> QED  BY <1>1, <1>2, <1>3, <2>1, <2>2, <2>3
<1> QED  BY <1>6, <1>7, <1>8, <1>9, <1>10 DEF WinInv

\* What every removal that ends well does to the queues of its resource.
LEMMA FreedQueues ==
  ASSUME NEW r, StopCall(r), Free(r), (winreloads \cup windone) \cap freed = {}
  PROVE  (winreloads' \cup windone') \cap freed' = {}
BY DEF StopCall, Free

LEMMA StopUnwatchedStep == ASSUME WinInv, NEW r \in WinObjs, StopUnwatched(r) PROVE WinInv'
<1>0. WinType /\ EventsOk /\ Counted /\ Covered
  BY DEF WinInv
<1>1. /\ StopCall(r) /\ Free(r) /\ r \notin watched /\ UNCHANGED <<watchdirs, closed>>
      /\ UNCHANGED <<wait_handles, nextevent, watched, again>> /\ freed' = freed \cup {r}
  BY DEF StopUnwatched, StopCall, Free, winhistory
<1>2. Live' = Live
  BY <1>1 DEF Live
<1>3. WinType' /\ EventsOk' /\ Counted' /\ Covered'
  BY <1>0, <1>1, <1>2 DEF WinType, EventsOk, Counted, Covered
<1>4. ItemsOk'
  BY <1>1, <1>2, FreedQueues DEF WinInv, ItemsOk
<1> QED  BY <1>3, <1>4 DEF WinInv

\* The directory goes with the only resource that it had.
LEMMA StopDirStep == ASSUME WinInv, NEW r \in WinObjs, StopDir(r) PROVE WinInv'
<1> DEFINE D == DirOf[r]
<1>0. WinType /\ EventsOk /\ Counted /\ Covered
  BY DEF WinInv
<1>1. /\ StopCall(r) /\ r \in watched \ freed /\ watchdirs[D].nref <= 1
      /\ UNCHANGED <<wait_handles, nextevent, watched, winreloads, again>>
  BY DEF StopDir, StopCall, IsLast, winhistory
<1>2. CASE Crash /\ UNCHANGED <<watchdirs, closed>>
  BY <1>1, <1>2, SameTables DEF Crash, tables, WinInv, ItemsOk
<1>3. CASE /\ watchdirs' = [d \in DOMAIN watchdirs \ {D} |-> watchdirs[d]]
           /\ closed' = closed \cup {watchdirs[D].event} /\ Free(r)
  <2> HIDE DEF D
  <2>1. D \in DOMAIN watchdirs /\ r \in InDir(Live, D) /\ Cardinality(InDir(Live, D)) <= 1
    <3>1. D \in DOMAIN watchdirs /\ r \in InDir(Live, D)
      BY <1>0, <1>1 DEF Covered, Live, InDir, D
    <3>2. Cardinality(InDir(Live, D)) \in Nat /\ watchdirs[D].nref \in Int
      BY <1>0, <3>1, LiveFinite DEF WinType
    <3> QED  BY <1>0, <1>1, <3>1, <3>2 DEF Counted
  <2>2. InDir(Live', D) = {}
    <3>1. Cardinality(InDir(Live', D)) = Cardinality(InDir(Live, D)) - 1
          /\ InDir(Live', D) = InDir(Live, D) \ {r}
      BY <1>0, <1>1, <1>3, <2>1, Freed
    <3>2. IsFiniteSet(InDir(Live, D)) /\ Cardinality(InDir(Live, D)) \in Nat
      BY <1>0, LiveFinite
    <3>3. IsFiniteSet(InDir(Live', D)) /\ Cardinality(InDir(Live', D)) \in Nat
      BY <3>1, <3>2, FS_Subset, FS_CardinalityType
    <3>4. Cardinality(InDir(Live', D)) = 0
      BY <2>1, <3>1, <3>2, <3>3
    <3> QED  BY <3>3, <3>4, FS_EmptySet
  <2>3. \A d : d # D => InDir(Live', d) = InDir(Live, d)
    <3> SUFFICES ASSUME NEW d, d # D PROVE InDir(Live', d) = InDir(Live, d)
      OBVIOUS
    <3>1. r \notin InDir(Live, d)
      BY DEF InDir, D
    <3> QED  BY <1>0, <1>1, <1>3, <3>1, Freed
  <2>4. /\ DOMAIN watchdirs' = DOMAIN watchdirs \ {D}
        /\ \A d \in DOMAIN watchdirs' : watchdirs'[d] = watchdirs[d]
    BY <1>3
  <2>5. watched' = watched /\ freed' = freed \cup {r}
    BY <1>1, <1>3 DEF Free
  <2>6. WinType'
    BY <1>0, <1>1, <2>4, <2>5 DEF WinType
  <2>7. EventsOk'
    BY <1>0, <1>1, <1>3, <2>1, <2>4 DEF EventsOk
  <2>8. Counted'
    BY <1>0, <2>3, <2>4 DEF Counted
  <2>9. Covered'
    <3> SUFFICES ASSUME NEW q \in Live' PROVE DirOf[q] \in DOMAIN watchdirs'
      BY DEF Covered
    <3>1. q \in InDir(Live', DirOf[q])
      BY DEF InDir
    <3>2. DirOf[q] # D
      BY <2>2, <3>1
    <3>3. q \in Live
      BY <2>5 DEF Live
    <3> QED  BY <1>0, <2>4, <3>2, <3>3 DEF Covered
  <2>10. ItemsOk'
    BY <1>1, <1>3, <2>3, <2>4, FreedQueues DEF WinInv, ItemsOk
  <2> QED  BY <2>6, <2>7, <2>8, <2>9, <2>10 DEF WinInv
<1> QED  BY <1>2, <1>3 DEF StopDir

\* One resource less, and one reference less.
LEMMA StopItemStep == ASSUME WinInv, NEW r \in WinObjs, StopItem(r) PROVE WinInv'
<1> DEFINE D == DirOf[r]
           wdir == watchdirs[D]
<1>0. WinType /\ EventsOk /\ Counted /\ Covered
  BY DEF WinInv
<1>1. /\ StopCall(r) /\ r \in watched \ freed
      /\ UNCHANGED <<wait_handles, nextevent, watched, winreloads, again, closed>>
  BY DEF StopItem, StopCall, winhistory
<1>2. CASE wdir.items = <<>>
  <2>1. UNCHANGED <<watchdirs, freed, windone>>
    BY <1>2 DEF StopItem, Crash
  <2> QED  BY <1>1, <2>1, SameTables DEF tables, WinInv, ItemsOk
<1>3. CASE wdir.items # <<>>
  <2> DEFINE items == Unlinked(wdir.items, r)
  <2>1. /\ watchdirs' = [watchdirs EXCEPT ![D] = [wdir EXCEPT !.nref = @ - 1, !.items = items]]
        /\ Free(r)
    BY <1>3 DEF StopItem
  <2>2. D \in DOMAIN watchdirs /\ r \in InDir(Live, D)
    BY <1>0, <1>1 DEF Covered, Live, InDir
  <2>3. /\ DOMAIN watchdirs' = DOMAIN watchdirs
        /\ \A d \in DOMAIN watchdirs \ {D} : watchdirs'[d] = watchdirs[d]
        /\ DOMAIN watchdirs'[D] = {"nref", "items", "event"}
        /\ watchdirs'[D].nref = watchdirs[D].nref - 1
        /\ watchdirs'[D].items = items
        /\ watchdirs'[D].event = watchdirs[D].event
    BY <1>0, <2>1, <2>2 DEF WinType
  <2> HIDE DEF D, items
  <2>4. /\ InDir(Live', D) = InDir(Live, D) \ {r}
        /\ Cardinality(InDir(Live', D)) = Cardinality(InDir(Live, D)) - 1
    BY <1>0, <1>1, <2>1, <2>2, Freed
  <2>5. \A d : d # D => InDir(Live', d) = InDir(Live, d)
    <3> SUFFICES ASSUME NEW d, d # D PROVE InDir(Live', d) = InDir(Live, d)
      OBVIOUS
    <3>1. r \notin InDir(Live, d)
      BY DEF InDir, D
    <3> QED  BY <1>0, <1>1, <2>1, <3>1, Freed
  <2>6. watched' = watched /\ freed' = freed \cup {r}
    BY <1>1, <2>1 DEF Free
  <2>7. WinType'
    <3>1. \A d \in DOMAIN watchdirs' : DOMAIN watchdirs'[d] = {"nref", "items", "event"} /\ watchdirs'[d].nref \in Int
      BY <1>0, <2>2, <2>3 DEF WinType
    <3> QED  BY <1>0, <1>1, <2>6, <3>1 DEF WinType
  <2>8. EventsOk'
    BY <1>0, <1>1, <2>2, <2>3 DEF EventsOk
  <2>9. Counted'
    <3> SUFFICES ASSUME NEW d \in DOMAIN watchdirs PROVE Cardinality(InDir(Live', d)) <= watchdirs'[d].nref
      BY <2>3 DEF Counted
    <3>1. Cardinality(InDir(Live, d)) \in Nat /\ Cardinality(InDir(Live, d)) <= watchdirs[d].nref /\ watchdirs[d].nref \in Int
      BY <1>0, LiveFinite DEF Counted, WinType
    <3>2. CASE d = D
      BY <2>3, <2>4, <3>1, <3>2
    <3>3. CASE d # D
      BY <2>3, <2>5, <3>1, <3>3
    <3> QED  BY <3>2, <3>3
  <2>10. Covered'
    BY <1>0, <2>3, <2>6 DEF Covered, Live
  <2>11. ItemsOk'
    <3> SUFFICES ASSUME ~again' PROVE /\ (winreloads' \cup windone') \cap freed' = {}
                                      /\ \A d \in DOMAIN watchdirs : Listed(watchdirs'[d].items, InDir(Live', d))
      BY <2>3 DEF ItemsOk
    <3>1. /\ (winreloads \cup windone) \cap freed = {}
          /\ \A d \in DOMAIN watchdirs : Listed(watchdirs[d].items, InDir(Live, d))
      BY <1>1 DEF WinInv, ItemsOk
    <3>2. (winreloads' \cup windone') \cap freed' = {}
      BY <1>1, <2>1, <3>1, FreedQueues
    <3>3. ASSUME NEW d \in DOMAIN watchdirs, d # D PROVE Listed(watchdirs'[d].items, InDir(Live', d))
      BY <2>3, <2>5, <3>1, <3>3
    <3>4. Listed(items, InDir(Live', D))
      <4>1. /\ wdir.items \in Seq(WinObjs)
            /\ \A k \in 1..Len(wdir.items) : wdir.items[k] \in InDir(Live, D)
            /\ \A j, k \in 1..Len(wdir.items) : wdir.items[j] = wdir.items[k] => j = k
        BY <2>2, <3>1 DEF Listed
      <4> HIDE DEF wdir
      <4>2. /\ items \in Seq(WinObjs)
            /\ \A k \in 1..Len(items) : items[k] # r /\ \E j \in 1..Len(wdir.items) : wdir.items[j] = items[k]
            /\ \A j, k \in 1..Len(items) : items[j] = items[k] => j = k
        BY <1>3, <4>1, UnlinkedKeeps DEF items
      <4>3. \A k \in 1..Len(items) : items[k] \in InDir(Live', D)
        BY <2>4, <4>1, <4>2
      <4> QED  BY <4>2, <4>3 DEF Listed
    <3> QED  BY <2>3, <3>2, <3>3, <3>4
  <2> QED  BY <2>7, <2>8, <2>9, <2>10, <2>11 DEF WinInv
<1> QED  BY <1>2, <1>3

-----------------------------------------------------------------------------
LEMMA WinInvInit == WinInit => WinInv
<1> SUFFICES ASSUME WinInit PROVE WinInv
  OBVIOUS
<1>1. DOMAIN watchdirs = {} /\ Live = {} /\ freed = {}
  BY DEF WinInit, Live
<1>2. WinType
  BY <1>1 DEF WinInit, WinType, PoolEvent
<1>3. EventsOk /\ Counted /\ Covered /\ ItemsOk
  BY <1>1 DEF WinInit, EventsOk, Counted, Covered, ItemsOk
<1> QED  BY <1>2, <1>3 DEF WinInv

LEMMA WinInvStep == WinInv /\ [WinNext]_winVars => WinInv'
<1> SUFFICES ASSUME WinInv, [WinNext]_winVars PROVE WinInv'
  OBVIOUS
<1>1. ASSUME NEW r \in WinObjs, Modify(r) PROVE WinInv'
  BY <1>1, SameTables DEF Modify, objects, WinInv, ItemsOk
<1>2. ASSUME NEW r \in WinObjs, WinLoad(r) PROVE WinInv'
  <2>1. /\ UNCHANGED <<tables, watched, freed, again>>
        /\ winreloads' \cup windone' = winreloads \cup windone
    BY <1>2 DEF WinLoad
  <2> QED  BY <2>1, SameTables DEF WinInv, ItemsOk
<1>3. ASSUME NEW r \in WinObjs, WinStart(r) PROVE WinInv'
  BY <1>3, StartInDirStep, StartDirStep DEF WinStart
<1>4. ASSUME NEW r \in WinObjs, StopUnwatched(r) \/ StopDir(r) \/ StopItem(r) PROVE WinInv'
  BY <1>4, StopUnwatchedStep, StopDirStep, StopItemStep
<1>5. CASE CheckPool
  BY <1>5, SameTables DEF CheckPool, Check, winhistory, WinInv, ItemsOk
<1>6. ASSUME NEW d \in DOMAIN watchdirs, CheckDir(d) PROVE WinInv'
  BY <1>6, CheckStep
<1>7. CASE UNCHANGED winVars
  BY <1>7, SameTables DEF winVars, objects, winhistory, WinInv, ItemsOk
<1> QED  BY <1>1, <1>2, <1>3, <1>4, <1>5, <1>6, <1>7 DEF WinNext, CheckDirs

\* Every reachable state of the watcher satisfies the invariant.
THEOREM WinInvariance == WinSpec => []WinInv
BY WinInvInit, WinInvStep, PTL DEF WinSpec

\* A directory lives as long as one of its resources does, and its event is open
\* and waited for: nref is never less than the resources there are, so the last
\* of them is the one that closes it (filewatch_win32.c:84-85, 163).
THEOREM DirectoriesStayWatched == WinSpec => []DirsAreWatched
<1>1. WinInv => DirsAreWatched
  BY DEF WinInv, EventsOk, Covered, Live, DirsAreWatched
<1> QED  BY <1>1, WinInvariance, PTL

\* No item of a directory is a resource that was freed, as long as no resource
\* had its watch started twice, although unlinking one item may lose others
\* (filewatch_win32.c:125-131, 188-204).
THEOREM ItemsStayLive == WinSpec => []ItemsAreLive
<1>1. WinInv => ItemsAreLive
  <2> SUFFICES ASSUME WinInv, ~again, NEW d \in DOMAIN watchdirs, NEW k \in DOMAIN watchdirs[d].items
               PROVE  watchdirs[d].items[k] \notin freed
    BY DEF ItemsAreLive
  <2>1. Listed(watchdirs[d].items, InDir(Live, d))
    BY DEF WinInv, ItemsOk
  <2> QED  BY <2>1 DEF Listed, InDir, Live
<1> QED  BY <1>1, WinInvariance, PTL

-----------------------------------------------------------------------------
\* No item that the check looks at was freed, while none was started twice.
FreedOk == winfault = "use_after_free" => again

LEMMA FreedOkStep == WinInv /\ FreedOk /\ [WinNext]_winVars => FreedOk'
<1> SUFFICES ASSUME WinInv, FreedOk, [WinNext]_winVars PROVE FreedOk'
  OBVIOUS
<1> USE DEF FreedOk
<1>1. CASE CheckPool
  BY <1>1 DEF CheckPool, Check, winhistory
<1>2. ASSUME NEW d \in DOMAIN watchdirs, CheckDir(d), ~again PROVE FreedOk'
  <2>1. Listed(watchdirs[d].items, InDir(Live, d))
    BY <1>2 DEF WinInv, ItemsOk
  <2>2. \A k \in DOMAIN watchdirs[d].items : watchdirs[d].items[k] \notin freed
    BY <2>1 DEF Listed, InDir, Live
  <2>3. \A r : ~Dangles(watchdirs[d].items, r)
    BY <2>2 DEF Dangles
  <2> QED  BY <1>2, <2>3 DEF CheckDir, Check, winhistory
<1>3. ASSUME NEW d \in DOMAIN watchdirs, CheckDir(d), again PROVE FreedOk'
  BY <1>3 DEF CheckDir, Check, winhistory
<1>4. ASSUME NEW r \in WinObjs, Modify(r) \/ WinLoad(r) PROVE FreedOk'
  BY <1>4 DEF Modify, WinLoad
<1>5. ASSUME NEW r \in WinObjs, WinStart(r) PROVE FreedOk'
  BY <1>5 DEF WinStart, StartInDir, StartDir, StartCall
<1>6. ASSUME NEW r \in WinObjs, StopUnwatched(r) \/ StopDir(r) \/ StopItem(r) PROVE FreedOk'
  BY <1>6 DEF StopUnwatched, StopDir, StopItem, StopCall, Free, Crash, winhistory
<1>7. CASE UNCHANGED winVars
  BY <1>7 DEF winVars, winhistory
<1> QED  BY <1>1, <1>2, <1>3, <1>4, <1>5, <1>6, <1>7 DEF WinNext, CheckDirs

\* For any resources and directories: the check reads no resource that was freed,
\* unless the watch of some resource was started twice (filewatch_win32.c:233-237).
THEOREM OnlyTwiceStartedDangles == WinSpec => [](winfault = "use_after_free" => again)
<1>1. WinInit => FreedOk
  BY DEF WinInit, FreedOk
<1> QED  BY <1>1, WinInvariance, FreedOkStep, PTL DEF WinSpec, FreedOk

-----------------------------------------------------------------------------
(***************************************************************************)
(* Sequences: without the last element, the first of them, with one more.  *)
(***************************************************************************)
\* A sequence without its last element.
LEMMA UpIs ==
  ASSUME NEW S, NEW s \in Seq(S), s # <<>>
  PROVE  /\ Up(s) \in Seq(S) /\ Len(Up(s)) = Len(s) - 1
         /\ Len(s) \in Nat /\ Len(s) > 0 /\ s[Len(s)] \in S
         /\ \A i \in 1..Len(s)-1 : Up(s)[i] = s[i]
<1> DEFINE n == Len(s)
<1>1. n \in Nat /\ n > 0 /\ \A i \in 1..n : s[i] \in S
  OBVIOUS
<1> HIDE DEF n
<1>2. \A i \in 1..n-1 : s[i] \in S
  BY <1>1
<1> DEFINE r == SubSeq(s, 1, n - 1)
<1>3. /\ r \in Seq(S)
      /\ Len(r) = IF 1 <= n - 1 THEN n - 1 - 1 + 1 ELSE 0
      /\ \A i \in 1..n-1-1+1 : r[i] = s[1 + i - 1]
  BY <1>1, <1>2, SubSeqProperties
<1>4. Up(s) = r
  BY DEF Up, n
<1> HIDE DEF r
<1>5. Len(r) = n - 1 /\ \A i \in 1..n-1 : r[i] = s[i]
  BY <1>1, <1>3
<1> QED BY <1>1, <1>3, <1>4, <1>5 DEF n

\* The first k of them.
Upto(s, k) == SubSeq(s, 1, k)

\* The first k elements.
LEMMA UptoIs ==
  ASSUME NEW S, NEW s \in Seq(S), NEW k \in 0..Len(s)
  PROVE  /\ Upto(s, k) \in Seq(S) /\ Len(Upto(s, k)) = k
         /\ \A i \in 1..k : Upto(s, k)[i] = s[i]
<1> DEFINE n == Len(s)
<1>1. n \in Nat /\ k \in Nat /\ k <= n /\ \A i \in 1..n : s[i] \in S
  OBVIOUS
<1> HIDE DEF n
<1>2. \A i \in 1..k : s[i] \in S
  BY <1>1
<1> DEFINE r == SubSeq(s, 1, k)
<1>3. /\ r \in Seq(S)
      /\ Len(r) = IF 1 <= k THEN k - 1 + 1 ELSE 0
      /\ \A i \in 1..k-1+1 : r[i] = s[1 + i - 1]
  <2>1. 1 <= n + 1 /\ 1 \in Int /\ k \in Int
    BY <1>1
  <2> QED BY <1>1, <1>2, <2>1, SubSeqProperties DEF n
<1>4. Upto(s, k) = r
  BY DEF Upto
<1> HIDE DEF r
<1>5. Len(r) = k /\ \A i \in 1..k : r[i] = s[i]
  BY <1>1, <1>3
<1> QED BY <1>3, <1>4, <1>5

\* Without the last of them, and with the next.
LEMMA UptoEnds ==
  ASSUME NEW S, NEW s \in Seq(S)
  PROVE  /\ Upto(s, 0) = <<>> /\ Upto(s, Len(s)) = s
         /\ \A k \in 1..Len(s) : /\ Upto(s, k) # <<>> /\ Len(Upto(s, k)) = k
                                 /\ Up(Upto(s, k)) = Upto(s, k - 1) /\ Upto(s, k)[k] = s[k]
<1>0. Len(s) \in Nat
  OBVIOUS
<1>1. Upto(s, 0) = <<>>
  <2>1. Upto(s, 0) \in Seq(S) /\ Len(Upto(s, 0)) = 0
    BY <1>0, UptoIs
  <2> QED BY <2>1, EmptySeq
<1>2. Upto(s, Len(s)) = s
  <2>1. /\ Upto(s, Len(s)) \in Seq(S) /\ Len(Upto(s, Len(s))) = Len(s)
        /\ \A i \in 1..Len(s) : Upto(s, Len(s))[i] = s[i]
    BY <1>0, UptoIs
  <2> QED BY <2>1, SeqEqual
<1>3. ASSUME NEW k \in 1..Len(s)
      PROVE  /\ Upto(s, k) # <<>> /\ Len(Upto(s, k)) = k
             /\ Up(Upto(s, k)) = Upto(s, k - 1) /\ Upto(s, k)[k] = s[k]
  <2>1. k \in 0..Len(s) /\ k - 1 \in 0..Len(s) /\ k # 0
    BY <1>0
  <2>2. /\ Upto(s, k) \in Seq(S) /\ Len(Upto(s, k)) = k
        /\ \A i \in 1..k : Upto(s, k)[i] = s[i]
    BY <2>1, UptoIs
  <2>3. /\ Upto(s, k - 1) \in Seq(S) /\ Len(Upto(s, k - 1)) = k - 1
        /\ \A i \in 1..k-1 : Upto(s, k - 1)[i] = s[i]
    BY <2>1, UptoIs
  <2>4. Upto(s, k) # <<>>
    BY <2>1, <2>2
  <2> DEFINE u == Upto(s, k)
  <2>5. Up(u) \in Seq(S) /\ Len(Up(u)) = k - 1 /\ \A i \in 1..k-1 : Up(u)[i] = u[i]
    <3> HIDE DEF u
    <3> QED BY <2>2, <2>4, UpIs DEF u
  <2>6. \A i \in 1..k-1 : Up(u)[i] = Upto(s, k - 1)[i]
    BY <2>5, <2>2, <2>3
  <2>7. Up(u) = Upto(s, k - 1)
    <3> HIDE DEF u
    <3> QED BY <2>3, <2>5, <2>6, SeqEqual
  <2> QED BY <2>2, <2>4, <2>7
<1> QED BY <1>1, <1>2, <1>3

\* A set of positions that has any has a last one.
LEMMA LastOf ==
  ASSUME NEW n \in Nat, NEW C \in SUBSET (1..n), C # {}
  PROVE  \E k \in C : \A l \in C : l <= k
<1> SUFFICES ASSUME \A k \in C : \E l \in C : l > k
             PROVE  FALSE
  <2>1. \A k, l \in C : ~(l <= k) => l > k
    OBVIOUS
  <2> QED BY <2>1
<1> DEFINE T == 1..n
           m == [k \in T |-> n - k]
           Q == {k \in T : k \notin C}
<1>1. m \in [T -> Nat]
  OBVIOUS
<1>2. ASSUME NEW k \in T, \A l \in T : m[l] < m[k] => l \in Q
      PROVE  k \in Q
  <2> SUFFICES ASSUME k \in C
               PROVE  FALSE
    OBVIOUS
  <2>1. PICK l \in C : l > k
    OBVIOUS
  <2>2. l \in T /\ m[l] < m[k]
    BY <2>1
  <2> QED BY <1>2, <2>2
<1>3. T \subseteq Q
  <2> HIDE DEF T, m, Q
  <2> QED BY <1>1, <1>2, MeasureInduction
<1> QED BY <1>3

\* The directory above is of names, too, and takes only the last of them, when
\* that is not empty.
LEMMA ParentIs ==
  ASSUME NEW S, NEW s \in Seq(S)
  PROVE  /\ Parent(s) \in Seq(S)
         /\ s # <<>> /\ s[Len(s)] # <<>> => Parent(s) = Up(s)
<1> DEFINE n == Len(s)
           C == {k \in 1..n : s[k] # <<>>}
           last == CHOOSE k \in C : \A l \in C : l <= k
<1>1. n \in Nat /\ C \in SUBSET (1..n)
  OBVIOUS
<1>2. Parent(s) = IF C = {} THEN <<>> ELSE Upto(s, last - 1)
  BY DEF Parent, Upto
<1>3. C # {} => last \in C /\ \A l \in C : l <= last
  <2> HIDE DEF n, C
  <2> QED BY <1>1, LastOf
<1>4. Parent(s) \in Seq(S)
  <2>1. CASE C = {}
    BY <1>2, <2>1
  <2>2. CASE C # {}
    <3>1. last - 1 \in 0..n
      <4> HIDE DEF last
      <4> QED BY <1>1, <1>3, <2>2
    <3> HIDE DEF last
    <3> QED BY <1>2, <2>2, <3>1, UptoIs
  <2> QED BY <2>1, <2>2
<1>5. ASSUME s # <<>>, s[n] # <<>>
      PROVE  Parent(s) = Up(s)
  <2>1. n > 0 /\ n \in C
    BY <1>1, <1>5
  <2>2. last = n
    <3> HIDE DEF last
    <3> QED BY <1>1, <1>3, <2>1
  <2> HIDE DEF last, C
  <2>3. Parent(s) = Upto(s, n - 1)
    BY <1>2, <2>1, <2>2
  <2> QED BY <2>3 DEF Upto, Up
<1> QED BY <1>4, <1>5

\* Induction on sequences, and recursion.
LEMMA UpInduction ==
  ASSUME NEW S, NEW Q, <<>> \in Q,
         \A s \in Seq(S) : s # <<>> /\ Up(s) \in Q => s \in Q
  PROVE  Seq(S) \subseteq Q
<1> DEFINE m == [s \in Seq(S) |-> Len(s)]
<1>1. m \in [Seq(S) -> Nat]
  OBVIOUS
<1>2. ASSUME NEW s \in Seq(S), \A r \in Seq(S) : m[r] < m[s] => r \in Q
      PROVE  s \in Q
  <2>1. CASE s = <<>>
    BY <2>1
  <2>2. CASE s # <<>>
    <3>1. Up(s) \in Seq(S) /\ Len(Up(s)) = Len(s) - 1 /\ Len(s) \in Nat
      BY <2>2, UpIs
    <3>2. m[Up(s)] < m[s]
      BY <3>1
    <3>3. Up(s) \in Q
      BY <3>1, <3>2, <1>2
    <3> QED BY <2>2, <3>3
  <2> QED BY <2>1, <2>2
<1> DEFINE T == Seq(S)
<1>3. m \in [T -> Nat] /\ \A s \in T : (\A r \in T : m[r] < m[s] => r \in Q) => s \in Q
  BY <1>1, <1>2
<1> HIDE DEF m, T
<1>4. T \subseteq Q
  BY <1>3, MeasureInduction
<1> QED BY <1>4 DEF T

\* Recursion on what is left without the last element is recursion.
LEMMA UpRecursion ==
  ASSUME NEW P, NEW S, S # {}, NEW G \in Calls(Seq(P), S),
         \A s \in Seq(P) : \A f, g \in [Seq(P) -> S] :
           (s # <<>> => f[Up(s)] = g[Up(s)]) => G[<<s, f>>] = G[<<s, g>>]
  PROVE  Solvable(Seq(P), S, G)
<1> DEFINE m == [s \in Seq(P) |-> Len(s)]
<1>1. m \in [Seq(P) -> Nat]
  OBVIOUS
<1>2. ASSUME NEW s \in Seq(P), s # <<>>
      PROVE  Up(s) \in Seq(P) /\ m[Up(s)] < m[s]
  <2>1. Up(s) \in Seq(P) /\ Len(Up(s)) = Len(s) - 1 /\ Len(s) \in Nat
    BY <1>2, UpIs
  <2> QED BY <2>1
<1> HIDE DEF m
<1>3. GoDown(Seq(P), S, m, G)
  <2> SUFFICES ASSUME NEW s \in Seq(P), NEW f \in [Seq(P) -> S], NEW g \in [Seq(P) -> S],
                      \A r \in Seq(P) : m[r] < m[s] => f[r] = g[r]
               PROVE  G[<<s, f>>] = G[<<s, g>>]
    BY DEF GoDown
  <2>1. s # <<>> => f[Up(s)] = g[Up(s)]
    BY <1>2
  <2> QED BY <2>1
<1> QED BY <1>1, <1>3, Recursion

\* The parts of a path that stay, unless a ".." takes them; what it is made of.
Plain == Names \cup {Drive}
PathChars == Chars \cup {"\\"}

\* Names are of characters, and none is "." or "..".
LEMMA PartsAre ==
  /\ Parts \subseteq Seq(Chars) /\ Files \subseteq Seq(Chars)
  /\ Plain \subseteq Parts /\ Dot \notin Plain \cup Files /\ DotDot \notin Plain \cup Files
  /\ Parts = Plain \cup {Dot, DotDot}
<1>2. Dot \in Seq(Chars) /\ DotDot \in Seq(Chars)
  BY PathAssumption DEF Dot, DotDot
<1> QED BY <1>2, PathAssumption DEF Parts, Plain

JoinStep(f, s) == IF s = <<>> THEN <<>> ELSE f[Up(s)] \o Append(s[Len(s)], "\\")
KeptStep(f, s) ==
  IF s = <<>> THEN <<>>
  ELSE CASE s[Len(s)] = Dot -> f[Up(s)]
         [] s[Len(s)] = DotDot -> Parent(f[Up(s)])
         [] OTHER -> Append(f[Up(s)], s[Len(s)])

\* Join and Kept, as their definitions say.
LEMMA JoinDef ==
  /\ Join \in [Seq(Parts) -> Seq(PathChars)]
  /\ \A s \in Seq(Parts) : Join[s] = JoinStep(Join, s)
<1> DEFINE T == Seq(Parts)
           S == Seq(PathChars)
           G == [p \in T \X [T -> S] |-> JoinStep(p[2], p[1])]
<1>1. ASSUME NEW s \in T, NEW f, s # <<>> => f[Up(s)] \in S
      PROVE  JoinStep(f, s) \in S
  <2>1. CASE s = <<>>
    BY <2>1 DEF JoinStep
  <2>2. CASE s # <<>>
    <3>1. s[Len(s)] \in Parts
      BY <2>2, UpIs
    <3>2. s[Len(s)] \in Seq(Chars)
      BY <3>1, PartsAre
    <3>3. Append(s[Len(s)], "\\") \in S
      BY <3>2 DEF PathChars
    <3> QED BY <1>1, <2>2, <3>3 DEF JoinStep
  <2> QED BY <2>1, <2>2
<1>2. G \in Calls(T, S)
  <2>1. ASSUME NEW s \in T, NEW f \in [T -> S]
        PROVE  JoinStep(f, s) \in S
    <3>1. s # <<>> => Up(s) \in T
      BY UpIs
    <3>2. s # <<>> => f[Up(s)] \in S
      BY <3>1
    <3> HIDE DEF T, S
    <3> QED BY <3>2, <1>1
  <2> HIDE DEF T, S
  <2> QED BY <2>1 DEF Calls
<1>3. \A s \in T : \A f, g \in [T -> S] :
        (s # <<>> => f[Up(s)] = g[Up(s)]) => G[<<s, f>>] = G[<<s, g>>]
  <2> HIDE DEF T, S
  <2> QED BY DEF JoinStep
<1>4. Solvable(T, S, G)
  <2>1. S # {}
    BY EmptySeq
  <2> HIDE DEF S, G
  <2> QED BY <1>2, <1>3, <2>1, UpRecursion
<1>5. PICK f \in [T -> S] : \A s \in T : f[s] = G[<<s, f>>]
  <2> HIDE DEF T, S, G
  <2> QED BY <1>4 DEF Solvable
<1>6. f = [s \in T |-> JoinStep(f, s)]
  <2> HIDE DEF T, S
  <2>1. \A s \in T : G[<<s, f>>] = JoinStep(f, s)
    OBVIOUS
  <2> HIDE DEF G
  <2> QED BY <1>5, <2>1
<1>7. Join = CHOOSE g : g = [s \in T |-> JoinStep(g, s)]
  BY DEF Join, JoinStep
<1>8. Join = [s \in T |-> JoinStep(Join, s)]
  <2> HIDE DEF T, S
  <2> QED BY <1>6, <1>7
<1>9. \A s \in T : Join[s] = JoinStep(Join, s)
  <2> HIDE DEF T
  <2> QED BY <1>8
<1> DEFINE Q == {s \in T : Join[s] \in S}
<1>10. <<>> \in Q
  <2>1. <<>> \in T /\ <<>> \in S
    OBVIOUS
  <2>2. Join[<<>>] = <<>>
    <3> HIDE DEF T
    <3> QED BY <1>9, <2>1 DEF JoinStep
  <2> QED BY <2>1, <2>2
<1>11. ASSUME NEW s \in T, s # <<>>, Up(s) \in Q
       PROVE  s \in Q
  <2> HIDE DEF T, S
  <2> QED BY <1>1, <1>9, <1>11
<1>12. T \subseteq Q
  <2> HIDE DEF Q
  <2> QED BY <1>10, <1>11, UpInduction
<1>13. \A s \in T : Join[s] \in S
  BY <1>12
<1>14. Join \in [T -> S]
  <2> HIDE DEF T, S
  <2> QED BY <1>8, <1>13
<1> QED BY <1>9, <1>14

\* Kept does what its definition says.
LEMMA KeptDef ==
  /\ Kept \in [Seq(Parts) -> Seq(Plain)]
  /\ \A s \in Seq(Parts) : Kept[s] = KeptStep(Kept, s)
<1> DEFINE T == Seq(Parts)
           S == Seq(Plain)
           G == [p \in T \X [T -> S] |-> KeptStep(p[2], p[1])]
<1>1. ASSUME NEW s \in T, NEW f, s # <<>> => f[Up(s)] \in S
      PROVE  KeptStep(f, s) \in S
  <2>1. CASE s = <<>>
    BY <2>1 DEF KeptStep
  <2>2. CASE s # <<>>
    <3>1. s[Len(s)] \in Parts
      BY <2>2, UpIs
    <3>2. s[Len(s)] \in Plain \/ s[Len(s)] = Dot \/ s[Len(s)] = DotDot
      BY <3>1, PartsAre
    <3>3. Parent(f[Up(s)]) \in S
      BY <1>1, <2>2, ParentIs
    <3>4. s[Len(s)] \in Plain => Append(f[Up(s)], s[Len(s)]) \in S
      BY <1>1, <2>2
    <3> QED BY <1>1, <2>2, <3>2, <3>3, <3>4 DEF KeptStep
  <2> QED BY <2>1, <2>2
<1>2. G \in Calls(T, S)
  <2>1. ASSUME NEW s \in T, NEW f \in [T -> S]
        PROVE  KeptStep(f, s) \in S
    <3>1. s # <<>> => Up(s) \in T
      BY UpIs
    <3>2. s # <<>> => f[Up(s)] \in S
      BY <3>1
    <3> HIDE DEF T, S
    <3> QED BY <3>2, <1>1
  <2> HIDE DEF T, S
  <2> QED BY <2>1 DEF Calls
<1>3. \A s \in T : \A f, g \in [T -> S] :
        (s # <<>> => f[Up(s)] = g[Up(s)]) => G[<<s, f>>] = G[<<s, g>>]
  <2> HIDE DEF T, S
  <2> QED BY DEF KeptStep
<1>4. Solvable(T, S, G)
  <2>1. S # {}
    BY EmptySeq
  <2> HIDE DEF S, G
  <2> QED BY <1>2, <1>3, <2>1, UpRecursion
<1>5. PICK f \in [T -> S] : \A s \in T : f[s] = G[<<s, f>>]
  <2> HIDE DEF T, S, G
  <2> QED BY <1>4 DEF Solvable
<1>6. f = [s \in T |-> KeptStep(f, s)]
  <2> HIDE DEF T, S
  <2>1. \A s \in T : G[<<s, f>>] = KeptStep(f, s)
    OBVIOUS
  <2> HIDE DEF G
  <2> QED BY <1>5, <2>1
<1>7. Kept = CHOOSE g : g = [s \in T |-> KeptStep(g, s)]
  BY DEF Kept, KeptStep
<1>8. Kept = [s \in T |-> KeptStep(Kept, s)]
  <2> HIDE DEF T, S
  <2> QED BY <1>6, <1>7
<1>9. \A s \in T : Kept[s] = KeptStep(Kept, s)
  <2> HIDE DEF T
  <2> QED BY <1>8
<1> DEFINE Q == {s \in T : Kept[s] \in S}
<1>10. <<>> \in Q
  <2>1. <<>> \in T /\ <<>> \in S
    OBVIOUS
  <2>2. Kept[<<>>] = <<>>
    <3> HIDE DEF T
    <3> QED BY <1>9, <2>1 DEF KeptStep
  <2> QED BY <2>1, <2>2
<1>11. ASSUME NEW s \in T, s # <<>>, Up(s) \in Q
       PROVE  s \in Q
  <2> HIDE DEF T, S
  <2> QED BY <1>1, <1>9, <1>11
<1>12. T \subseteq Q
  <2> HIDE DEF Q
  <2> QED BY <1>10, <1>11, UpInduction
<1>13. \A s \in T : Kept[s] \in S
  BY <1>12
<1>14. Kept \in [T -> S]
  <2> HIDE DEF T, S
  <2> QED BY <1>8, <1>13
<1> QED BY <1>9, <1>14

\* What a part adds to a path.
Joined(u, v, d) ==
  /\ Len(v) = Len(u) + Len(d) + 1
  /\ \A i \in 1..Len(u) : v[i] = u[i]
  /\ \A i \in 1..Len(d) : v[Len(u) + i] = d[i]
  /\ v[Len(v)] = "\\"

\* One sequence after another.
LEMMA ConcatIs ==
  ASSUME NEW S, NEW u \in Seq(S), NEW v \in Seq(S)
  PROVE  /\ u \o v \in Seq(S) /\ Len(u \o v) = Len(u) + Len(v)
         /\ \A i \in 1..Len(u) : (u \o v)[i] = u[i]
         /\ \A i \in 1..Len(v) : (u \o v)[Len(u) + i] = v[i]
<1>1. u \o v \in Seq(S) /\ Len(u \o v) = Len(u) + Len(v) /\ Len(u) \in Nat /\ Len(v) \in Nat
  BY ConcatProperties
<1>2. \A i \in 1..Len(u)+Len(v) : (u \o v)[i] = IF i <= Len(u) THEN u[i] ELSE v[i - Len(u)]
  BY ConcatProperties
<1>3. ASSUME NEW i \in 1..Len(v)
      PROVE  (u \o v)[Len(u) + i] = v[i]
  <2>1. Len(u) + i \in 1..Len(u)+Len(v) /\ ~(Len(u) + i <= Len(u)) /\ Len(u) + i - Len(u) = i
    BY <1>1
  <2> QED BY <1>2, <2>1
<1>4. ASSUME NEW i \in 1..Len(u)
      PROVE  (u \o v)[i] = u[i]
  <2>1. i \in 1..Len(u)+Len(v) /\ i <= Len(u)
    BY <1>1
  <2> QED BY <1>2, <2>1
<1> QED BY <1>1, <1>3, <1>4

\* A sequence with one more element.
LEMMA AppendIs ==
  ASSUME NEW S, NEW d \in Seq(S), NEW c \in S
  PROVE  /\ Append(d, c) \in Seq(S) /\ Len(Append(d, c)) = Len(d) + 1 /\ Len(d) \in Nat
         /\ \A i \in 1..Len(d) : Append(d, c)[i] = d[i]
         /\ Append(d, c)[Len(d) + 1] = c
BY AppendProperties

\* The length of a path, and where its parts are.
LEMMA JoinIs ==
  ASSUME NEW s \in Seq(Parts), s # <<>>
  PROVE  Join[s] \in Seq(PathChars) /\ Joined(Join[Up(s)], Join[s], s[Len(s)])
<1>1. Up(s) \in Seq(Parts) /\ s[Len(s)] \in Parts
  BY UpIs
<1> DEFINE u == Join[Up(s)]
           d == s[Len(s)]
<1>2. u \in Seq(PathChars) /\ Join[s] \in Seq(PathChars)
  BY <1>1, JoinDef
<1>3. d \in Seq(PathChars) /\ "\\" \in PathChars
  BY <1>1, PartsAre DEF PathChars
<1>4. Join[s] = u \o Append(d, "\\")
  BY JoinDef DEF JoinStep
<1> HIDE DEF u, d
<1> DEFINE a == Append(d, "\\")
<1>5. /\ a \in Seq(PathChars) /\ Len(a) = Len(d) + 1 /\ Len(d) \in Nat
      /\ \A i \in 1..Len(d) : a[i] = d[i]
      /\ a[Len(d) + 1] = "\\"
  BY <1>3, AppendIs
<1> HIDE DEF a
<1>6. /\ Len(Join[s]) = Len(u) + Len(a) /\ Len(u) \in Nat
      /\ \A i \in 1..Len(u) : Join[s][i] = u[i]
      /\ \A i \in 1..Len(a) : Join[s][Len(u) + i] = a[i]
  BY <1>2, <1>4, <1>5, ConcatIs DEF a
<1>7. Len(d) + 1 \in 1..Len(a) /\ \A i \in 1..Len(d) : i \in 1..Len(a)
  BY <1>5
<1>8. Len(Join[s]) = Len(u) + Len(d) + 1 /\ Len(Join[s]) = Len(u) + (Len(d) + 1)
  BY <1>5, <1>6
<1>9. Joined(u, Join[s], d)
  BY <1>5, <1>6, <1>7, <1>8 DEF Joined
<1> QED BY <1>2, <1>9 DEF u, d

\* Nothing to join, nothing to keep.
LEMMA JoinNone == Join[<<>>] = <<>> /\ Kept[<<>>] = <<>>
<1>1. <<>> \in Seq(Parts)
  OBVIOUS
<1> QED BY <1>1, JoinDef, KeptDef DEF JoinStep, KeptStep

\* The first parts make the beginning of the path.
LEMMA Prefixes ==
  ASSUME NEW s \in Seq(Parts), NEW k \in 0..Len(s)
  PROVE  LET u == Join[Upto(s, k)] IN
           /\ Len(u) <= Len(Join[s]) /\ Len(u) \in Nat
           /\ \A i \in 1..Len(u) : Join[s][i] = u[i]
<1> DEFINE Begins(r, j) == /\ Len(Join[Upto(r, j)]) <= Len(Join[r]) /\ Len(Join[Upto(r, j)]) \in Nat
                           /\ \A i \in 1..Len(Join[Upto(r, j)]) : Join[r][i] = Join[Upto(r, j)][i]
           Q == {r \in Seq(Parts) : \A j \in 0..Len(r) : Begins(r, j)}
<1>1. \A r \in Seq(Parts) : Join[r] \in Seq(PathChars) /\ Len(Join[r]) \in Nat
  BY JoinDef
<1>2. \A r \in Seq(Parts) : Begins(r, Len(r))
  <2> SUFFICES ASSUME NEW r \in Seq(Parts)
               PROVE  Begins(r, Len(r))
    OBVIOUS
  <2>1. Upto(r, Len(r)) = r
    BY UptoEnds
  <2> QED BY <1>1, <2>1
<1>3. <<>> \in Q
  <2>1. <<>> \in Seq(Parts) /\ Len(<<>>) = 0
    OBVIOUS
  <2>2. \A j \in 0..0 : j = 0
    OBVIOUS
  <2> HIDE DEF Begins
  <2> QED BY <1>2, <2>1, <2>2
<1>4. ASSUME NEW r \in Seq(Parts), r # <<>>, Up(r) \in Q
      PROVE  r \in Q
  <2> SUFFICES ASSUME NEW j \in 0..Len(r), j # Len(r)
               PROVE  Begins(r, j)
    <3> HIDE DEF Begins
    <3> QED BY <1>2
  <2>1. Len(Up(r)) = Len(r) - 1 /\ Len(r) \in Nat /\ Len(r) > 0 /\ Up(r) \in Seq(Parts)
    BY <1>4, UpIs
  <2>2. j \in 0..Len(Up(r)) /\ 0 \in Nat
    BY <2>1
  <2>3. Begins(Up(r), j)
    BY <1>4, <2>2
  <2>4. Upto(Up(r), j) = Upto(r, j)
    <3>1. j \in 0..Len(r)
      OBVIOUS
    <3>2. /\ Upto(r, j) \in Seq(Parts) /\ Len(Upto(r, j)) = j
          /\ \A i \in 1..j : Upto(r, j)[i] = r[i]
      BY UptoIs
    <3>3. /\ Upto(Up(r), j) \in Seq(Parts) /\ Len(Upto(Up(r), j)) = j
          /\ \A i \in 1..j : Upto(Up(r), j)[i] = Up(r)[i]
      BY <2>1, <2>2, UptoIs
    <3>4. \A i \in 1..j : i \in 1..Len(r)-1
      BY <2>1
    <3>5. \A i \in 1..j : Up(r)[i] = r[i]
      BY <1>4, <3>4, UpIs
    <3>6. \A i \in 1..j : Upto(Up(r), j)[i] = Upto(r, j)[i]
      BY <3>2, <3>3, <3>5
    <3> QED BY <3>2, <3>3, <3>6, SeqEqual
  <2>5. Joined(Join[Up(r)], Join[r], r[Len(r)])
    BY <1>4, JoinIs
  <2>6. r[Len(r)] \in Seq(Chars)
    BY <1>4, UpIs, PartsAre
  <2>7. Len(r[Len(r)]) \in Nat /\ Len(Join[Up(r)]) \in Nat
    BY <2>6, <2>1, <1>1
  <2> DEFINE p == Join[Up(r)]
             q == Join[r]
             x == Join[Upto(r, j)]
             n == Len(r[Len(r)])
  <2>8. /\ Len(q) = Len(p) + n + 1 /\ \A i \in 1..Len(p) : q[i] = p[i]
    BY <2>5 DEF Joined
  <2>9. Len(x) <= Len(p) /\ Len(x) \in Nat /\ \A i \in 1..Len(x) : p[i] = x[i]
    BY <2>3, <2>4
  <2>10. Len(p) \in Nat /\ n \in Nat
    BY <2>7
  <2> HIDE DEF p, q, x, n
  <2>11. Len(x) <= Len(q) /\ Len(x) \in Nat /\ \A i \in 1..Len(x) : q[i] = x[i]
    BY <2>8, <2>9, <2>10
  <2> QED BY <2>11 DEF p, q, x
<1>5. Seq(Parts) \subseteq Q
  <2> HIDE DEF Q
  <2> QED BY <1>3, <1>4, UpInduction
<1>6. Begins(s, k)
  BY <1>5
<1> QED BY <1>6

-----------------------------------------------------------------------------
\* The path as directories ds and a file f: its parts, where they begin, and
\* what comes after them.
PartOf(ds, f, k) == IF k < Len(ds) THEN ds[k + 1] ELSE f
Offset(ds, k) == Len(Join[Upto(ds, k)])
After(ds, k) == IF k < Len(ds) THEN "\\" ELSE "NUL"
Whole(ds, f) == Join[ds] \o f \o <<"NUL">>
BufferChars == PathChars \cup {"NUL"}

\* Where part k begins.
LEMMA OffsetIs ==
  ASSUME NEW ds \in Seq(Parts), NEW k \in 0..Len(ds)
  PROVE  /\ Offset(ds, k) \in Nat /\ Offset(ds, k) <= Len(Join[ds]) /\ Offset(ds, 0) = 0
         /\ Offset(ds, Len(ds)) = Len(Join[ds])
         /\ k < Len(ds) => Offset(ds, k + 1) = Offset(ds, k) + Len(ds[k + 1]) + 1
<1>0. Len(ds) \in Nat
  OBVIOUS
<1>1. Offset(ds, k) \in Nat /\ Offset(ds, k) <= Len(Join[ds])
  BY Prefixes DEF Offset
<1>2. Offset(ds, 0) = 0
  <2>1. Upto(ds, 0) = <<>>
    BY UptoEnds
  <2>2. Len(<<>>) = 0
    OBVIOUS
  <2> QED BY <2>1, <2>2, JoinNone DEF Offset
<1>3. Offset(ds, Len(ds)) = Len(Join[ds])
  BY UptoEnds DEF Offset
<1>4. ASSUME k < Len(ds)
      PROVE  Offset(ds, k + 1) = Offset(ds, k) + Len(ds[k + 1]) + 1
  <2>1. k + 1 \in 1..Len(ds) /\ (k + 1) - 1 = k /\ k + 1 \in 0..Len(ds)
    BY <1>4, <1>0
  <2>2. /\ Upto(ds, k + 1) # <<>> /\ Len(Upto(ds, k + 1)) = k + 1
        /\ Up(Upto(ds, k + 1)) = Upto(ds, k) /\ Upto(ds, k + 1)[k + 1] = ds[k + 1]
    BY <2>1, UptoEnds
  <2>3. Upto(ds, k + 1) \in Seq(Parts)
    BY <2>1, UptoIs
  <2>4. Joined(Join[Upto(ds, k)], Join[Upto(ds, k + 1)], ds[k + 1])
    BY <2>2, <2>3, JoinIs
  <2> QED BY <2>4 DEF Joined, Offset
<1> QED BY <1>1, <1>2, <1>3, <1>4

\* What abs_path returns, character by character.
LEMMA WholeIs ==
  ASSUME NEW ds \in Seq(Parts), NEW f \in Files
  PROVE  /\ Whole(ds, f) \in Seq(BufferChars)
         /\ Len(Whole(ds, f)) = Len(Join[ds]) + Len(f) + 1
         /\ \A i \in 1..Len(Join[ds]) : Whole(ds, f)[i] = Join[ds][i]
         /\ \A i \in 1..Len(f) : Whole(ds, f)[Len(Join[ds]) + i] = f[i]
         /\ Whole(ds, f)[Len(Join[ds]) + Len(f) + 1] = "NUL"
<1> DEFINE S == BufferChars
           j == Join[ds]
<1>1. j \in Seq(S) /\ f \in Seq(S) /\ <<"NUL">> \in Seq(S)
  <2>1. j \in Seq(PathChars)
    BY JoinDef
  <2>2. f \in Seq(Chars)
    BY PartsAre
  <2> HIDE DEF j
  <2> QED BY <2>1, <2>2 DEF BufferChars, PathChars
<1>2. Len(<<"NUL">>) = 1 /\ <<"NUL">>[1] = "NUL" /\ 1 \in 1..1
  OBVIOUS
<1> HIDE DEF S, j
<1> DEFINE u == j \o f
           w == u \o <<"NUL">>
<1>3. /\ u \in Seq(S) /\ Len(u) = Len(j) + Len(f) /\ Len(j) \in Nat /\ Len(f) \in Nat
      /\ \A i \in 1..Len(j) : u[i] = j[i]
      /\ \A i \in 1..Len(f) : u[Len(j) + i] = f[i]
  BY <1>1, ConcatIs
<1> HIDE DEF u
<1>4. /\ w \in Seq(S) /\ Len(w) = Len(u) + 1
      /\ \A i \in 1..Len(u) : w[i] = u[i]
      /\ w[Len(u) + 1] = "NUL"
  BY <1>1, <1>2, <1>3, ConcatIs
<1>5. Whole(ds, f) = w
  BY DEF Whole, w, u, j
<1> HIDE DEF w
<1>6. \A i \in 1..Len(j) : i \in 1..Len(u)
  BY <1>3
<1>7. \A i \in 1..Len(f) : Len(j) + i \in 1..Len(u)
  BY <1>3
<1> QED BY <1>3, <1>4, <1>5, <1>6, <1>7 DEF S, j

\* Where the parts are.
PartAt(w, ds, f, k) ==
  LET d == PartOf(ds, f, k)
      o == Offset(ds, k)
  IN /\ o \in Nat /\ Len(d) \in Nat /\ o + Len(d) + 1 <= Len(w) /\ d \in Seq(Chars)
     /\ \A i \in 1..Len(d) : w[o + i] = d[i]
     /\ w[o + Len(d) + 1] = After(ds, k)
     /\ k > 0 => o > 0 /\ w[o] = "\\"
     /\ k = Len(ds) => o + Len(d) + 1 = Len(w)
     /\ k < Len(ds) => Offset(ds, k + 1) = o + Len(d) + 1

\* Part k in the whole path.
LEMMA Inside ==
  ASSUME NEW ds \in Seq(Parts), NEW f \in Files, NEW k \in 0..Len(ds), k < Len(ds)
  PROVE  LET w == Whole(ds, f)  o == Offset(ds, k)  d == ds[k + 1] IN
         /\ o \in Nat /\ Len(d) \in Nat /\ o + Len(d) + 1 <= Len(Join[ds]) /\ d \in Seq(Chars)
         /\ \A i \in 1..Len(d) : w[o + i] = d[i]
         /\ w[o + Len(d) + 1] = "\\"
         /\ Offset(ds, k + 1) = o + Len(d) + 1
<1>0. Len(ds) \in Nat /\ k + 1 \in 1..Len(ds) /\ k + 1 \in 0..Len(ds) /\ (k + 1) - 1 = k
  OBVIOUS
<1>1. ds[k + 1] \in Seq(Chars) /\ Len(ds[k + 1]) \in Nat
  <2>1. ds[k + 1] \in Parts
    BY <1>0
  <2> QED BY <2>1, PartsAre
<1> DEFINE w == Whole(ds, f)
           o == Offset(ds, k)
           d == ds[k + 1]
           v == Join[Upto(ds, k + 1)]
<1>2. o \in Nat /\ Offset(ds, k + 1) = o + Len(d) + 1 /\ Offset(ds, k + 1) <= Len(Join[ds])
  BY <1>0, OffsetIs
<1>3. Len(v) = o + Len(d) + 1 /\ \A i \in 1..Len(v) : Join[ds][i] = v[i]
  BY <1>0, <1>2, Prefixes DEF Offset
<1>4. \A i \in 1..Len(Join[ds]) : w[i] = Join[ds][i]
  BY WholeIs
<1>5. Joined(Join[Upto(ds, k)], v, d)
  <2>1. /\ Upto(ds, k + 1) # <<>> /\ Len(Upto(ds, k + 1)) = k + 1
        /\ Up(Upto(ds, k + 1)) = Upto(ds, k) /\ Upto(ds, k + 1)[k + 1] = ds[k + 1]
    BY <1>0, UptoEnds
  <2>2. Upto(ds, k + 1) \in Seq(Parts)
    BY <1>0, UptoIs
  <2> QED BY <2>1, <2>2, JoinIs
<1>6. (\A i \in 1..Len(d) : v[o + i] = d[i]) /\ v[o + Len(d) + 1] = "\\"
  BY <1>3, <1>5 DEF Joined, Offset
<1>7. Len(Join[ds]) \in Nat
  BY JoinDef
<1> DEFINE n == Len(Join[ds])
           l == Len(d)
<1>8. o + l + 1 <= n /\ n \in Nat /\ l \in Nat
  BY <1>1, <1>2, <1>7
<1> HIDE DEF w, o, d, v, n, l
<1>9. \A i \in 1..o+l+1 : w[i] = v[i]
  <2>1. \A i \in 1..o+l+1 : i \in 1..n /\ i \in 1..Len(v)
    BY <1>2, <1>3, <1>8 DEF l
  <2> QED BY <1>3, <1>4, <2>1 DEF n
<1>10. \A i \in 1..l : w[o + i] = d[i]
  <2>1. \A i \in 1..l : o + i \in 1..o+l+1
    BY <1>2, <1>8
  <2> QED BY <1>6, <1>9, <2>1 DEF l
<1>11. w[o + l + 1] = "\\"
  <2>1. o + l + 1 \in 1..o+l+1
    BY <1>2, <1>8
  <2> QED BY <1>6, <1>9, <2>1 DEF l
<1> QED BY <1>1, <1>2, <1>8, <1>10, <1>11 DEF w, o, d, n, l

\* So it is with every part, the file included.
LEMMA PartsAt ==
  ASSUME NEW ds \in Seq(Parts), NEW f \in Files, NEW k \in 0..Len(ds)
  PROVE  PartAt(Whole(ds, f), ds, f, k)
<1>0. Len(ds) \in Nat /\ Len(Join[ds]) \in Nat
  BY JoinDef
<1>1. ASSUME k > 0
      PROVE  Offset(ds, k) > 0 /\ Whole(ds, f)[Offset(ds, k)] = "\\"
  <2> DEFINE j == k - 1
  <2>1. j \in 0..Len(ds) /\ j < Len(ds) /\ j + 1 = k
    BY <1>0, <1>1
  <2> HIDE DEF j
  <2>2. /\ Offset(ds, j) \in Nat /\ Len(ds[j + 1]) \in Nat
        /\ Whole(ds, f)[Offset(ds, j) + Len(ds[j + 1]) + 1] = "\\"
        /\ Offset(ds, j + 1) = Offset(ds, j) + Len(ds[j + 1]) + 1
    BY <2>1, Inside
  <2> QED BY <2>1, <2>2
<1>2. CASE k < Len(ds)
  <2>1. PartOf(ds, f, k) = ds[k + 1] /\ After(ds, k) = "\\" /\ k # Len(ds)
    BY <1>2, <1>0 DEF PartOf, After
  <2> DEFINE w == Whole(ds, f)
             o == Offset(ds, k)
             d == ds[k + 1]
  <2>2. /\ o \in Nat /\ Len(d) \in Nat /\ o + Len(d) + 1 <= Len(Join[ds]) /\ d \in Seq(Chars)
        /\ \A i \in 1..Len(d) : w[o + i] = d[i]
        /\ w[o + Len(d) + 1] = "\\"
        /\ Offset(ds, k + 1) = o + Len(d) + 1
    BY <1>2, Inside
  <2>3. Len(w) = Len(Join[ds]) + Len(f) + 1 /\ Len(f) \in Nat
    BY WholeIs, PartsAre
  <2>4. o + Len(d) + 1 <= Len(w)
    BY <1>0, <2>2, <2>3
  <2> QED BY <1>1, <2>1, <2>2, <2>4 DEF PartAt
<1>3. CASE k = Len(ds)
  <2>1. PartOf(ds, f, k) = f /\ After(ds, k) = "NUL" /\ ~(k < Len(ds))
    BY <1>3, <1>0 DEF PartOf, After
  <2>2. Offset(ds, k) = Len(Join[ds])
    BY <1>3, OffsetIs
  <2>3. f \in Seq(Chars) /\ Len(f) \in Nat
    BY PartsAre
  <2>4. /\ Len(Whole(ds, f)) = Len(Join[ds]) + Len(f) + 1
        /\ \A i \in 1..Len(f) : Whole(ds, f)[Len(Join[ds]) + i] = f[i]
        /\ Whole(ds, f)[Len(Join[ds]) + Len(f) + 1] = "NUL"
    BY WholeIs
  <2>5. Len(Join[ds]) + Len(f) + 1 <= Len(Whole(ds, f))
    BY <1>0, <2>3, <2>4
  <2> QED BY <1>0, <1>1, <2>1, <2>2, <2>3, <2>4, <2>5 DEF PartAt
<1> QED BY <1>0, <1>2, <1>3

\* What is kept of them.
KeptTo(ds, k) == Kept[Upto(ds, k)]

\* What is kept of one part more.
LEMMA KeptToIs ==
  ASSUME NEW ds \in Seq(Parts), NEW k \in 0..Len(ds)
  PROVE  /\ KeptTo(ds, k) \in Seq(Plain) /\ KeptTo(ds, 0) = <<>> /\ KeptTo(ds, Len(ds)) = Kept[ds]
         /\ k < Len(ds) =>
              /\ ds[k + 1] = Dot => KeptTo(ds, k + 1) = KeptTo(ds, k)
              /\ ds[k + 1] = DotDot => KeptTo(ds, k + 1) = Parent(KeptTo(ds, k))
              /\ ds[k + 1] \in Plain =>
                   KeptTo(ds, k + 1) = Append(KeptTo(ds, k), ds[k + 1])
<1>0. Len(ds) \in Nat
  OBVIOUS
<1>1. KeptTo(ds, k) \in Seq(Plain)
  BY UptoIs, KeptDef DEF KeptTo
<1>2. KeptTo(ds, 0) = <<>> /\ KeptTo(ds, Len(ds)) = Kept[ds]
  BY UptoEnds, JoinNone DEF KeptTo
<1>3. ASSUME k < Len(ds)
      PROVE  /\ ds[k + 1] = Dot => KeptTo(ds, k + 1) = KeptTo(ds, k)
             /\ ds[k + 1] = DotDot => KeptTo(ds, k + 1) = Parent(KeptTo(ds, k))
             /\ ds[k + 1] \in Plain =>
                  KeptTo(ds, k + 1) = Append(KeptTo(ds, k), ds[k + 1])
  <2>1. k + 1 \in 1..Len(ds) /\ (k + 1) - 1 = k /\ k + 1 \in 0..Len(ds)
    BY <1>3, <1>0
  <2>2. /\ Upto(ds, k + 1) # <<>> /\ Len(Upto(ds, k + 1)) = k + 1
        /\ Up(Upto(ds, k + 1)) = Upto(ds, k) /\ Upto(ds, k + 1)[k + 1] = ds[k + 1]
    BY <2>1, UptoEnds
  <2>3. Upto(ds, k + 1) \in Seq(Parts)
    BY <2>1, UptoIs
  <2>4. KeptTo(ds, k + 1) = KeptStep(Kept, Upto(ds, k + 1))
    BY <2>3, KeptDef DEF KeptTo
  <2>5. Dot # DotDot
    <3>1. Len(Dot) = 1 /\ Len(DotDot) = 2
      BY DEF Dot, DotDot
    <3>2. Len(Dot) # Len(DotDot)
      BY <3>1
    <3> QED BY <3>2, Zenon
  <2>6. ds[k + 1] \in Plain => ds[k + 1] # Dot /\ ds[k + 1] # DotDot
    BY PartsAre
  <2> QED BY <2>2, <2>4, <2>5, <2>6 DEF KeptStep, KeptTo
<1> QED BY <1>1, <1>2, <1>3

-----------------------------------------------------------------------------
\* What is ahead of ptr is as it was, and all else was moved towards the
\* beginning, if at all.
Ahead(ds, f, p, src, dst) ==
  /\ src \in Nat /\ dst \in Nat /\ dst <= src
  /\ p \in Seq(BufferChars) /\ Len(p) = Len(Whole(ds, f))
  /\ \A i \in 1..Len(p) : src <= i => p[i] = Whole(ds, f)[i]
  /\ \A i \in 1..Len(p) : \E j \in i..Len(p) : p[i] = Whole(ds, f)[j]

\* The parts of that, with the length a number.
LEMMA AheadIs ==
  ASSUME NEW ds, NEW f, NEW p, NEW src, NEW dst, Ahead(ds, f, p, src, dst)
  PROVE  /\ src \in Nat /\ dst \in Nat /\ dst <= src
         /\ p \in Seq(BufferChars) /\ Len(p) = Len(Whole(ds, f)) /\ Len(p) \in Nat
         /\ \A i \in 1..Len(p) : src <= i => p[i] = Whole(ds, f)[i]
         /\ \A i \in 1..Len(p) : \E j \in i..Len(p) : p[i] = Whole(ds, f)[j]
<1>1. /\ src \in Nat /\ dst \in Nat /\ dst <= src
      /\ p \in Seq(BufferChars) /\ Len(p) = Len(Whole(ds, f))
  BY DEF Ahead
<1>2. Len(p) \in Nat
  <2>1. p \in Seq(BufferChars)
    BY <1>1
  <2> QED BY <2>1
<1>3. \A i \in 1..Len(p) : src <= i => p[i] = Whole(ds, f)[i]
  BY DEF Ahead
<1>4. \A i \in 1..Len(p) : \E j \in i..Len(p) : p[i] = Whole(ds, f)[j]
  BY DEF Ahead
<1> QED BY <1>1, <1>2, <1>3, <1>4

\* m characters of part k are copied, behind what is kept of the parts before it.
Copied(ds, f, k, m, p, src, dst) ==
  LET kept == Join[KeptTo(ds, k)]
      d == PartOf(ds, f, k)
  IN /\ k \in 0..Len(ds) /\ m \in 0..Len(d)
     /\ m > 0 => d # Dot /\ d # DotDot
     /\ src = Offset(ds, k) + m /\ dst = Len(kept) + m
     /\ \A i \in 1..Len(kept) : p[i] = kept[i]
     /\ \A i \in 1..m : p[Len(kept) + i] = d[i]

\* The directories of an absolute path.
Absolute(ds) == ds \in Seq(Parts) /\ Len(ds) > 0 /\ ds[1] = Drive

\* What lies at ptr is the rest of part k, and before it a slash if none of it was copied.
LEMMA Here ==
  ASSUME NEW ds, Absolute(ds), NEW f \in Files, NEW p, NEW src, NEW dst, NEW k, NEW m,
         Ahead(ds, f, p, src, dst), Copied(ds, f, k, m, p, src, dst)
  PROVE  LET d == PartOf(ds, f, k)  l == Len(PartOf(ds, f, k)) IN
         /\ d \in Seq(Chars) /\ l \in Nat /\ m \in Nat /\ m <= l /\ src + (l - m) + 1 <= Len(p)
         /\ \A i \in 1..l-m : p[src + i] = d[m + i]
         /\ p[src + (l - m) + 1] = After(ds, k)
         /\ IF m > 0 THEN p[src] # "\\"
            ELSE IF k > 0 THEN src > 0 /\ p[src] = "\\" ELSE src = 0
<1> DEFINE d == PartOf(ds, f, k)
           l == Len(d)
           o == Offset(ds, k)
           w == Whole(ds, f)
<1>0. ds \in Seq(Parts) /\ k \in 0..Len(ds) /\ m \in 0..l /\ src = o + m
  BY DEF Absolute, Copied
<1>1. /\ o \in Nat /\ l \in Nat /\ o + l + 1 <= Len(w) /\ d \in Seq(Chars)
      /\ \A i \in 1..l : w[o + i] = d[i]
      /\ w[o + l + 1] = After(ds, k)
      /\ k > 0 => o > 0 /\ w[o] = "\\"
  BY <1>0, PartsAt DEF PartAt
<1>2. Len(p) = Len(w) /\ Len(p) \in Nat /\ \A i \in 1..Len(p) : src <= i => p[i] = w[i]
  <2>1. Len(p) = Len(w) /\ Len(p) \in Nat
    BY AheadIs
  <2>2. \A i \in 1..Len(p) : src <= i => p[i] = w[i]
    BY DEF Ahead
  <2> QED BY <2>1, <2>2
<1>3. \A i \in 1..l : d[i] # "\\"
  <2>1. \A i \in 1..l : d[i] \in Chars
    BY <1>1
  <2> HIDE DEF d, l
  <2> QED BY <2>1, PathAssumption
<1>4. k # 0 => k > 0
  BY <1>0
<1>5. k = 0 => o = 0
  BY <1>0, OffsetIs
<1>6. k \in Nat
  BY <1>0
<1> HIDE DEF d, l, o, w
<1>7. m \in Nat /\ m <= l /\ src + (l - m) + 1 = o + l + 1
  BY <1>0, <1>1
<1>8. ASSUME NEW i \in 1..l-m
      PROVE  p[src + i] = d[m + i]
  <2>1. src + i = o + (m + i) /\ m + i \in 1..l /\ src + i \in 1..Len(p) /\ src <= src + i
    BY <1>0, <1>1, <1>2, <1>7
  <2>2. p[src + i] = w[src + i]
    BY <2>1, <1>2
  <2> QED BY <2>1, <2>2, <1>1
<1>9. p[src + (l - m) + 1] = After(ds, k)
  <2>1. src + (l - m) + 1 \in 1..Len(p) /\ src <= src + (l - m) + 1
    BY <1>0, <1>1, <1>2, <1>7
  <2> QED BY <2>1, <1>2, <1>1, <1>7
<1>10. ASSUME m > 0
       PROVE  p[src] # "\\"
  <2>1. m \in 1..l /\ src \in 1..Len(p) /\ src <= src
    BY <1>0, <1>1, <1>2, <1>7, <1>10
  <2> QED BY <2>1, <1>0, <1>1, <1>2, <1>3
<1>11. ASSUME ~(m > 0), k > 0
       PROVE  src > 0 /\ p[src] = "\\"
  <2>1. m = 0 /\ src = o /\ src \in 1..Len(p) /\ src <= src
    BY <1>0, <1>1, <1>2, <1>7, <1>11
  <2> QED BY <2>1, <1>1, <1>2, <1>11
<1>12. ASSUME ~(m > 0), ~(k > 0)
       PROVE  src = 0
  BY <1>0, <1>1, <1>5, <1>6, <1>7, <1>12
<1>13. src + (l - m) + 1 <= Len(p)
  BY <1>1, <1>2, <1>7
<1> QED BY <1>1, <1>7, <1>8, <1>9, <1>10, <1>11, <1>12, <1>13 DEF d, l

\* The test for a part, in terms of characters.
LEMMA SubSeqDot ==
  ASSUME NEW p \in Seq(BufferChars), NEW n \in Nat, n + 2 <= Len(p)
  PROVE  SubSeq(p, n + 1, n + 2) = <<".", "\\">> <=> p[n + 1] = "." /\ p[n + 2] = "\\"
<1> DEFINE x == "."  y == "\\"
<1> DEFINE q == SubSeq(p, n + 1, n + 2)
<1>1. q = [i \in 1..2 |-> p[n + i]]
  <2>1. SubSeq(p, n + 1, n + 2) = [i \in 1..((n + 2) - (n + 1) + 1) |-> p[i + (n + 1) - 1]]
    OBVIOUS
  <2>2. (n + 2) - (n + 1) + 1 = 2 /\ \A i \in 1..2 : i + (n + 1) - 1 = n + i
    OBVIOUS
  <2> QED BY <2>1, <2>2
<1>2. <<x, y>> = [i \in 1..2 |-> IF i = 1 THEN x ELSE y]
  OBVIOUS
<1>3. 1 \in 1..2 /\ 2 \in 1..2 /\ \A i \in 1..2 : i = 1 \/ i = 2
  OBVIOUS
<1> HIDE DEF q, x, y
<1>4. q[1] = p[n + 1] /\ q[2] = p[n + 2]
  BY <1>1, <1>3
<1>5. <<x, y>>[1] = x /\ <<x, y>>[2] = y
  OBVIOUS
<1>6. q = <<x, y>> => p[n + 1] = x /\ p[n + 2] = y
  BY <1>4, <1>5
<1>7. p[n + 1] = x /\ p[n + 2] = y => q = <<x, y>>
  BY <1>1, <1>2, <1>3
<1> QED BY <1>6, <1>7 DEF q, x, y

\* The same for two dots.
LEMMA SubSeqDotDot ==
  ASSUME NEW p \in Seq(BufferChars), NEW n \in Nat, n + 3 <= Len(p)
  PROVE  SubSeq(p, n + 1, n + 3) = <<".", ".", "\\">>
           <=> p[n + 1] = "." /\ p[n + 2] = "." /\ p[n + 3] = "\\"
<1> DEFINE x == "."  y == "."  z == "\\"
<1> DEFINE q == SubSeq(p, n + 1, n + 3)
<1>1. q = [i \in 1..3 |-> p[n + i]]
  <2>1. SubSeq(p, n + 1, n + 3) = [i \in 1..((n + 3) - (n + 1) + 1) |-> p[i + (n + 1) - 1]]
    OBVIOUS
  <2>2. (n + 3) - (n + 1) + 1 = 3 /\ \A i \in 1..3 : i + (n + 1) - 1 = n + i
    OBVIOUS
  <2> QED BY <2>1, <2>2
<1>2. <<x, y, z>> = [i \in 1..3 |-> IF i = 1 THEN x ELSE IF i = 2 THEN y ELSE z]
  OBVIOUS
<1>3. 1 \in 1..3 /\ 2 \in 1..3 /\ 3 \in 1..3 /\ \A i \in 1..3 : i = 1 \/ i = 2 \/ i = 3
  OBVIOUS
<1> HIDE DEF q, x, y, z
<1>4. q[1] = p[n + 1] /\ q[2] = p[n + 2] /\ q[3] = p[n + 3]
  BY <1>1, <1>3
<1>5. <<x, y, z>>[1] = x /\ <<x, y, z>>[2] = y /\ <<x, y, z>>[3] = z
  OBVIOUS
<1>6. q = <<x, y, z>> => p[n + 1] = x /\ p[n + 2] = y /\ p[n + 3] = z
  BY <1>4, <1>5
<1>7. p[n + 1] = x /\ p[n + 2] = y /\ p[n + 3] = z => q = <<x, y, z>>
  BY <1>1, <1>2, <1>3
<1> QED BY <1>6, <1>7 DEF q, x, y, z

FollowsSlash(p, src, s) ==
  /\ src > 0 /\ p[src] = "\\"
  /\ src + Len(s) <= Len(p) /\ SubSeq(p, src + 1, src + Len(s)) = s

\* The dot, the separators and the end are different characters.
LEMMA Strange ==
  /\ "." \in Chars /\ "." # "\\" /\ "." # "NUL" /\ "\\" # "NUL"
  /\ \A c \in Chars : c # "\\" /\ c # "NUL" /\ c # "/"
BY PathAssumption

\* The test for "." finds the parts that are one.
LEMMA DotHere ==
  ASSUME NEW ds, Absolute(ds), NEW f \in Files, NEW p, NEW src, NEW dst, NEW k, NEW m,
         Ahead(ds, f, p, src, dst), Copied(ds, f, k, m, p, src, dst)
  PROVE  FollowsSlash(p, src, <<".", "\\">>) <=> m = 0 /\ PartOf(ds, f, k) = Dot
<1> DEFINE d == PartOf(ds, f, k)
           l == Len(d)
<1>1. /\ d \in Seq(Chars) /\ l \in Nat /\ m \in Nat /\ m <= l /\ src + (l - m) + 1 <= Len(p)
      /\ \A i \in 1..l-m : p[src + i] = d[m + i]
      /\ p[src + (l - m) + 1] = After(ds, k)
      /\ IF m > 0 THEN p[src] # "\\"
         ELSE IF k > 0 THEN src > 0 /\ p[src] = "\\" ELSE src = 0
  BY Here
<1>2. p \in Seq(BufferChars) /\ src \in Nat /\ Len(p) \in Nat
  BY AheadIs
<1>3. \A i \in 1..l : d[i] \in Chars
  BY <1>1
<1>4. Len(<<".", "\\">>) = 2
  OBVIOUS
<1>5. k \in 0..Len(ds) /\ ds \in Seq(Parts) /\ Len(ds) \in Nat /\ Len(ds) > 0 /\ ds[1] = Drive
  BY DEF Copied, Absolute
<1>6. ASSUME src + 2 <= Len(p)
      PROVE  SubSeq(p, src + 1, src + 2) = <<".", "\\">> <=> p[src + 1] = "." /\ p[src + 2] = "\\"
  BY <1>2, <1>6, SubSeqDot
<1>7. Len(Dot) = 1 /\ Dot[1] = "." /\ Dot \in Seq(Chars)
  <2>1. Len(Dot) = 1 /\ Dot[1] = "."
    BY DEF Dot
  <2> QED BY <2>1, PartsAre DEF Parts
<1>8. m = 0 /\ d = Dot => 0 < k /\ k < Len(ds)
  <2>1. k = 0 => d = Drive
    BY <1>5 DEF PartOf
  <2>2. ~(k < Len(ds)) => d = f
    BY DEF PartOf
  <2>3. Drive # Dot /\ f # Dot
    BY PartsAre DEF Plain
  <2> HIDE DEF d
  <2> QED BY <2>1, <2>2, <2>3, <1>5
<1>9. k < Len(ds) => After(ds, k) = "\\"
  BY DEF After
<1>10. After(ds, k) = "\\" \/ After(ds, k) = "NUL"
  BY DEF After
<1> HIDE DEF d, l
<1>11. ASSUME FollowsSlash(p, src, <<".", "\\">>)
       PROVE  m = 0 /\ d = Dot
  <2>1. p[src] = "\\" /\ src + 2 <= Len(p) /\ p[src + 1] = "." /\ p[src + 2] = "\\" /\ src > 0
    BY <1>4, <1>6, <1>11 DEF FollowsSlash
  <2>2. m = 0
    BY <1>1, <2>1
  <2>3. l # 0
    <3> SUFFICES ASSUME l = 0
                 PROVE  FALSE
      OBVIOUS
    <3>1. src + (l - m) + 1 = src + 1
      BY <1>2, <2>2
    <3> QED BY <1>1, <1>10, <2>1, <3>1, Strange
  <2>4. d[1] = "." /\ 1 \in 1..l
    BY <1>1, <2>1, <2>2, <2>3
  <2>5. ~(l > 1)
    <3> SUFFICES ASSUME l > 1
                 PROVE  FALSE
      OBVIOUS
    <3>1. 2 \in 1..l-m /\ 2 \in 1..l /\ m + 2 = 2
      BY <1>1, <2>2
    <3>2. p[src + 2] = d[2]
      BY <1>1, <3>1
    <3> QED BY <1>3, <2>1, <3>1, <3>2, Strange
  <2>6. l = 1
    BY <1>1, <2>3, <2>5
  <2>7. \A i \in 1..1 : d[i] = Dot[i]
    BY <2>4, <1>7
  <2>8. d = Dot
    BY <1>1, <1>7, <2>6, <2>7, SeqEqual DEF l
  <2> QED BY <2>2, <2>8
<1>12. ASSUME m = 0, d = Dot
       PROVE  FollowsSlash(p, src, <<".", "\\">>)
  <2>0. Len(d) = 1 /\ d[1] = "."
    BY <1>7, <1>12
  <2>1. l = 1 /\ d[1] = "." /\ 1 \in 1..l-m /\ m + 1 = 1
    BY <1>12, <2>0 DEF l
  <2>2. 0 < k /\ k < Len(ds)
    BY <1>8, <1>12
  <2>3. src > 0 /\ p[src] = "\\"
    BY <1>1, <1>5, <1>12, <2>2
  <2>4. p[src + 1] = "." /\ src + 1 + 1 <= Len(p) /\ p[src + 1 + 1] = "\\"
    BY <1>1, <1>9, <1>12, <2>1, <2>2
  <2>5. src + 1 + 1 = src + 2
    BY <1>2
  <2> QED BY <1>4, <1>6, <2>3, <2>4, <2>5 DEF FollowsSlash
<1> QED BY <1>11, <1>12 DEF d

\* The test for ".." finds the parts that are one.
LEMMA DotDotHere ==
  ASSUME NEW ds, Absolute(ds), NEW f \in Files, NEW p, NEW src, NEW dst, NEW k, NEW m,
         Ahead(ds, f, p, src, dst), Copied(ds, f, k, m, p, src, dst)
  PROVE  FollowsSlash(p, src, <<".", ".", "\\">>) <=> m = 0 /\ PartOf(ds, f, k) = DotDot
<1> DEFINE d == PartOf(ds, f, k)
           l == Len(d)
<1>1. /\ d \in Seq(Chars) /\ l \in Nat /\ m \in Nat /\ m <= l /\ src + (l - m) + 1 <= Len(p)
      /\ \A i \in 1..l-m : p[src + i] = d[m + i]
      /\ p[src + (l - m) + 1] = After(ds, k)
      /\ IF m > 0 THEN p[src] # "\\"
         ELSE IF k > 0 THEN src > 0 /\ p[src] = "\\" ELSE src = 0
  BY Here
<1>2. p \in Seq(BufferChars) /\ src \in Nat /\ Len(p) \in Nat
  BY AheadIs
<1>3. \A i \in 1..l : d[i] \in Chars
  BY <1>1
<1>4. Len(<<".", ".", "\\">>) = 3
  OBVIOUS
<1>5. k \in 0..Len(ds) /\ ds \in Seq(Parts) /\ Len(ds) \in Nat /\ Len(ds) > 0 /\ ds[1] = Drive
  BY DEF Copied, Absolute
<1>6. ASSUME src + 3 <= Len(p)
      PROVE  SubSeq(p, src + 1, src + 3) = <<".", ".", "\\">>
               <=> p[src + 1] = "." /\ p[src + 2] = "." /\ p[src + 3] = "\\"
  BY <1>2, <1>6, SubSeqDotDot
<1>7. Len(DotDot) = 2 /\ DotDot[1] = "." /\ DotDot[2] = "." /\ DotDot \in Seq(Chars)
  <2>1. Len(DotDot) = 2 /\ DotDot[1] = "." /\ DotDot[2] = "."
    BY DEF DotDot
  <2> QED BY <2>1, PartsAre DEF Parts
<1>8. m = 0 /\ d = DotDot => 0 < k /\ k < Len(ds)
  <2>1. k = 0 => d = Drive
    BY <1>5 DEF PartOf
  <2>2. ~(k < Len(ds)) => d = f
    BY DEF PartOf
  <2>3. Drive # DotDot /\ f # DotDot
    BY PartsAre DEF Plain
  <2> HIDE DEF d
  <2> QED BY <2>1, <2>2, <2>3, <1>5
<1>9. k < Len(ds) => After(ds, k) = "\\"
  BY DEF After
<1>10. After(ds, k) = "\\" \/ After(ds, k) = "NUL"
  BY DEF After
<1> HIDE DEF d, l
<1>11. ASSUME FollowsSlash(p, src, <<".", ".", "\\">>)
       PROVE  m = 0 /\ d = DotDot
  <2>1. /\ p[src] = "\\" /\ src + 3 <= Len(p) /\ src > 0
        /\ p[src + 1] = "." /\ p[src + 2] = "." /\ p[src + 3] = "\\"
    BY <1>4, <1>6, <1>11 DEF FollowsSlash
  <2>2. m = 0
    BY <1>1, <2>1
  <2>3. l # 0
    <3> SUFFICES ASSUME l = 0
                 PROVE  FALSE
      OBVIOUS
    <3>1. src + (l - m) + 1 = src + 1
      BY <1>2, <2>2
    <3> QED BY <1>1, <1>10, <2>1, <3>1, Strange
  <2>4. l # 1
    <3> SUFFICES ASSUME l = 1
                 PROVE  FALSE
      OBVIOUS
    <3>1. src + (l - m) + 1 = src + 2
      BY <1>2, <2>2
    <3> QED BY <1>1, <1>10, <2>1, <3>1, Strange
  <2>5. d[1] = "." /\ d[2] = "." /\ l >= 2
    <3>1. l >= 2 /\ 1 \in 1..l-m /\ 2 \in 1..l-m /\ m + 1 = 1 /\ m + 2 = 2
      BY <1>1, <2>2, <2>3, <2>4
    <3> QED BY <1>1, <2>1, <3>1
  <2>6. ~(l > 2)
    <3> SUFFICES ASSUME l > 2
                 PROVE  FALSE
      OBVIOUS
    <3>1. 3 \in 1..l-m /\ 3 \in 1..l /\ m + 3 = 3
      BY <1>1, <2>2
    <3>2. p[src + 3] = d[3]
      BY <1>1, <3>1
    <3> QED BY <1>3, <2>1, <3>1, <3>2, Strange
  <2>7. l = 2
    BY <1>1, <2>5, <2>6
  <2>8. \A i \in 1..2 : d[i] = DotDot[i]
    <3>1. \A i \in 1..2 : i = 1 \/ i = 2
      OBVIOUS
    <3> QED BY <2>5, <1>7, <3>1
  <2>9. d = DotDot
    BY <1>1, <1>7, <2>7, <2>8, SeqEqual DEF l
  <2> QED BY <2>2, <2>9
<1>12. ASSUME m = 0, d = DotDot
       PROVE  FollowsSlash(p, src, <<".", ".", "\\">>)
  <2>0. Len(d) = 2 /\ d[1] = "." /\ d[2] = "."
    BY <1>7, <1>12
  <2>1. l = 2 /\ d[1] = "." /\ d[2] = "." /\ m + 1 = 1 /\ m + 2 = 2
    BY <1>12, <2>0 DEF l
  <2>2. 0 < k /\ k < Len(ds)
    BY <1>8, <1>12
  <2>3. src > 0 /\ p[src] = "\\"
    BY <1>1, <1>5, <1>12, <2>2
  <2>4. 1 \in 1..l-m /\ 2 \in 1..l-m /\ src + (l - m) + 1 = src + 3
    BY <1>2, <2>1, <1>12
  <2>5. p[src + 1] = "." /\ p[src + 2] = "." /\ src + 3 <= Len(p) /\ p[src + 3] = "\\"
    BY <1>1, <1>9, <2>1, <2>2, <2>4
  <2> QED BY <1>4, <1>6, <2>3, <2>5 DEF FollowsSlash
<1> QED BY <1>11, <1>12 DEF d

\* One name more is one name and a separator more.
LEMMA JoinOn ==
  ASSUME NEW s \in Seq(Plain), NEW d \in Plain
  PROVE  Joined(Join[s], Join[Append(s, d)], d)
<1> DEFINE u == Append(s, d)
<1>1. u \in Seq(Plain) /\ Len(u) = Len(s) + 1 /\ Len(s) \in Nat /\ u[Len(u)] = d
  BY AppendIs
<1>2. u # <<>>
  BY <1>1
<1>3. Up(u) = s
  <2>0. /\ Up(u) \in Seq(Plain) /\ Len(Up(u)) = Len(u) - 1
        /\ \A i \in 1..Len(u)-1 : Up(u)[i] = u[i]
    <3> HIDE DEF u
    <3> QED BY <1>1, <1>2, UpIs
  <2>1. Up(u) \in Seq(Plain) /\ Len(Up(u)) = Len(s) /\ \A i \in 1..Len(u)-1 : Up(u)[i] = u[i]
    <3> HIDE DEF u
    <3> QED BY <1>1, <2>0
  <2>2. \A i \in 1..Len(s) : u[i] = s[i]
    BY AppendIs
  <2>3. \A i \in 1..Len(s) : Up(u)[i] = s[i]
    BY <1>1, <2>1, <2>2
  <2> HIDE DEF u
  <2> QED BY <2>1, <2>3, SeqEqual
<1>4. u \in Seq(Parts)
  BY <1>1, PartsAre
<1> HIDE DEF u
<1>5. Joined(Join[Up(u)], Join[u], u[Len(u)])
  BY <1>2, <1>4, JoinIs
<1> QED BY <1>1, <1>3, <1>5 DEF u

\* The lengths and what is kept, at a part that is not the last.
LEMMA Between ==
  ASSUME NEW ds, Absolute(ds), NEW f \in Files, NEW k \in 0..Len(ds),
         PartOf(ds, f, k) \in {Dot, DotDot} \/ k < Len(ds)
  PROVE  /\ k < Len(ds) /\ k + 1 \in 0..Len(ds) /\ PartOf(ds, f, k) = ds[k + 1]
         /\ Offset(ds, k) \in Nat
         /\ Offset(ds, k + 1) = Offset(ds, k) + Len(PartOf(ds, f, k)) + 1
<1>1. ds \in Seq(Parts) /\ Len(ds) \in Nat
  BY DEF Absolute
<1>2. ~(k < Len(ds)) => PartOf(ds, f, k) = f
  BY DEF PartOf
<1>3. f # Dot /\ f # DotDot
  BY PartsAre
<1>4. k < Len(ds)
  BY <1>2, <1>3
<1>5. PartOf(ds, f, k) = ds[k + 1]
  BY <1>4 DEF PartOf
<1>6. Offset(ds, k) \in Nat /\ Offset(ds, k + 1) = Offset(ds, k) + Len(ds[k + 1]) + 1
  BY <1>1, <1>4, OffsetIs
<1> QED BY <1>1, <1>4, <1>5, <1>6

\* A "." that is passed leaves what is kept.
LEMMA PastDot ==
  ASSUME NEW ds, Absolute(ds), NEW f \in Files, NEW p, NEW src, NEW dst, NEW k,
         Copied(ds, f, k, 0, p, src, dst), PartOf(ds, f, k) = Dot
  PROVE  Copied(ds, f, k + 1, 0, p, src + 2, dst)
<1>1. k \in 0..Len(ds) /\ ds \in Seq(Parts)
  BY DEF Copied, Absolute
<1>2. /\ k < Len(ds) /\ k + 1 \in 0..Len(ds) /\ PartOf(ds, f, k) = ds[k + 1]
      /\ Offset(ds, k) \in Nat
      /\ Offset(ds, k + 1) = Offset(ds, k) + Len(PartOf(ds, f, k)) + 1
  BY <1>1, Between
<1>3. KeptTo(ds, k + 1) = KeptTo(ds, k)
  BY <1>1, <1>2, KeptToIs
<1>4. Len(Dot) = 1
  BY DEF Dot
<1>5. src + 2 = Offset(ds, k + 1) + 0
  <2>1. src = Offset(ds, k) + 0
    BY DEF Copied
  <2>2. Len(PartOf(ds, f, k)) = 1
    BY <1>4
  <2> QED BY <1>2, <2>1, <2>2
<1>6. PartOf(ds, f, k + 1) \in Seq(Chars)
  BY <1>1, <1>2, PartsAt DEF PartAt
<1>7. 0 \in 0..Len(PartOf(ds, f, k + 1))
  BY <1>6
<1>8. dst = Len(Join[KeptTo(ds, k)]) + 0 /\ \A i \in 1..Len(Join[KeptTo(ds, k)]) : p[i] = Join[KeptTo(ds, k)][i]
  BY DEF Copied
<1> QED BY <1>2, <1>3, <1>5, <1>7, <1>8 DEF Copied

\* Where the part before the last begins.
Previous(p, dst) ==
  IF \E i \in 0..dst-2 : p[i + 1] = "\\"
  THEN 1 + CHOOSE i \in 0..dst-2 : p[i + 1] = "\\" /\ \A l \in i+1..dst-2 : p[l + 1] # "\\"
  ELSE 0

\* The search backwards stops just after the slash before a part.
LEMMA PreviousIs ==
  ASSUME NEW p, NEW a \in Nat, NEW l \in Nat, a > 0, p[a] = "\\",
         \A i \in 1..l : p[a + i] # "\\"
  PROVE  Previous(p, a + l + 1) = a
<1> DEFINE dst == a + l + 1
           C(i) == i \in 0..dst-2 /\ p[i + 1] = "\\" /\ \A j \in i+1..dst-2 : p[j + 1] # "\\"
<1>1. C(a - 1)
  <2>1. a - 1 \in 0..dst-2 /\ (a - 1) + 1 = a
    OBVIOUS
  <2>2. ASSUME NEW j \in (a-1)+1..dst-2
        PROVE  p[j + 1] # "\\"
    <3>1. (j + 1) - a \in 1..l /\ a + ((j + 1) - a) = j + 1
      OBVIOUS
    <3> QED BY <3>1
  <2> QED BY <2>1, <2>2
<1>2. ASSUME NEW i, C(i)
      PROVE  i = a - 1
  <2>1. i \in 0..dst-2 /\ i \in Int
    BY <1>2
  <2>2. ~(i < a - 1)
    <3> SUFFICES ASSUME i < a - 1
                 PROVE  FALSE
      OBVIOUS
    <3>1. a - 1 \in i+1..dst-2 /\ (a - 1) + 1 = a
      BY <2>1
    <3> QED BY <3>1, <1>2
  <2>3. ~(i > a - 1)
    <3> SUFFICES ASSUME i > a - 1
                 PROVE  FALSE
      OBVIOUS
    <3>1. (i + 1) - a \in 1..l /\ a + ((i + 1) - a) = i + 1
      BY <2>1
    <3> QED BY <3>1, <1>2
  <2> QED BY <2>1, <2>2, <2>3
<1>3. (CHOOSE i : C(i)) = a - 1
  <2> HIDE DEF C
  <2> QED BY <1>1, <1>2
<1>4. Previous(p, dst) = 1 + (CHOOSE i : C(i))
  <2>1. \E i \in 0..dst-2 : p[i + 1] = "\\"
    BY <1>1
  <2> HIDE DEF dst
  <2> QED BY <2>1 DEF Previous
<1>5. 1 + (a - 1) = a
  OBVIOUS
<1> HIDE DEF C
<1> QED BY <1>3, <1>4, <1>5

\* Does what is kept of k parts end in two slashes in a row?
EndsEmpty(ds, k) == KeptTo(ds, k) # <<>> /\ KeptTo(ds, k)[Len(KeptTo(ds, k))] = <<>>

\* A ".." that is passed takes the last part that was kept, and if that has a
\* name, leads to the directory above.
LEMMA PastDotDot ==
  ASSUME NEW ds, Absolute(ds), NEW f \in Files, NEW p, NEW src, NEW dst, NEW k,
         Copied(ds, f, k, 0, p, src, dst), PartOf(ds, f, k) = DotDot,
         KeptTo(ds, k + 1) # <<>>, ~EndsEmpty(ds, k)
  PROVE  /\ dst \in Nat /\ dst - 2 >= 0
         /\ Previous(p, dst) \in Nat /\ Previous(p, dst) <= dst
         /\ Copied(ds, f, k + 1, 0, p, src + 3, Previous(p, dst))
<1>1. k \in 0..Len(ds) /\ ds \in Seq(Parts)
  BY DEF Copied, Absolute
<1>2. /\ k < Len(ds) /\ k + 1 \in 0..Len(ds) /\ PartOf(ds, f, k) = ds[k + 1]
      /\ Offset(ds, k) \in Nat
      /\ Offset(ds, k + 1) = Offset(ds, k) + Len(PartOf(ds, f, k)) + 1
  BY <1>1, Between
<1>3. KeptTo(ds, k + 1) = Up(KeptTo(ds, k)) /\ KeptTo(ds, k) \in Seq(Plain)
  <2>1. KeptTo(ds, k + 1) = Parent(KeptTo(ds, k)) /\ KeptTo(ds, k) \in Seq(Plain)
    BY <1>1, <1>2, KeptToIs
  <2>2. KeptTo(ds, k) # <<>>
    <3>1. Parent(<<>>) = <<>>
      BY DEF Parent
    <3> QED BY <2>1, <3>1
  <2> QED BY <2>1, <2>2, ParentIs DEF EndsEmpty
<1>4. Len(DotDot) = 2
  BY DEF DotDot
<1>5. src + 3 = Offset(ds, k + 1) + 0
  <2>1. src = Offset(ds, k) + 0
    BY DEF Copied
  <2>2. Len(PartOf(ds, f, k)) = 2
    BY <1>4
  <2> QED BY <1>2, <2>1, <2>2
<1>6. PartOf(ds, f, k + 1) \in Seq(Chars)
  BY <1>1, <1>2, PartsAt DEF PartAt
<1>7. 0 \in 0..Len(PartOf(ds, f, k + 1))
  BY <1>6
<1> DEFINE kk == KeptTo(ds, k)
           t == Up(kk)
           d == kk[Len(kk)]
<1>8. kk # <<>>
  <2>1. Up(<<>>) = <<>>
    <3>1. <<>> \in Seq({}) /\ Len(<<>>) = 0
      OBVIOUS
    <3>2. SubSeq(<<>>, 1, 0 - 1) = <<>>
      OBVIOUS
    <3> QED BY <3>1, <3>2 DEF Up
  <2> QED BY <1>3, <2>1
<1>9. t # <<>> /\ t \in Seq(Plain) /\ d \in Plain /\ KeptTo(ds, k + 1) = t
  BY <1>3, <1>8, UpIs
<1>10. kk \in Seq(Parts) /\ t \in Seq(Parts) /\ d \in Parts
  BY <1>3, <1>9, PartsAre
<1>11. Joined(Join[t], Join[kk], d) /\ Join[kk] \in Seq(PathChars)
  BY <1>8, <1>10, JoinIs
<1>12. Joined(Join[Up(t)], Join[t], t[Len(t)]) /\ Join[t] \in Seq(PathChars)
  BY <1>9, <1>10, JoinIs
<1> DEFINE a == Len(Join[t])
           l == Len(d)
<1>13. d \in Seq(Chars) /\ l \in Nat /\ \A i \in 1..l : d[i] # "\\"
  <2>1. d \in Seq(Chars)
    BY <1>10, PartsAre
  <2> HIDE DEF d
  <2> QED BY <2>1, Strange
<1>14. a \in Nat /\ a > 0 /\ Join[t][a] = "\\"
  <2>1. Up(t) \in Seq(Parts) /\ t[Len(t)] \in Parts
    BY <1>9, <1>10, UpIs
  <2>2. Join[Up(t)] \in Seq(PathChars) /\ t[Len(t)] \in Seq(Chars)
    BY <2>1, JoinDef, PartsAre
  <2>3. Len(Join[Up(t)]) \in Nat /\ Len(t[Len(t)]) \in Nat
    BY <2>2
  <2>4. a = Len(Join[Up(t)]) + Len(t[Len(t)]) + 1 /\ Join[t][a] = "\\"
    BY <1>12 DEF Joined
  <2>5. a \in Nat /\ a > 0
    <3> DEFINE x == Len(Join[Up(t)])
               y == Len(t[Len(t)])
    <3>1. x \in Nat /\ y \in Nat /\ a = x + y + 1
      BY <2>3, <2>4
    <3> HIDE DEF a, x, y
    <3> QED BY <3>1
  <2> QED BY <2>4, <2>5
<1>15. dst = Len(Join[kk]) + 0 /\ \A i \in 1..Len(Join[kk]) : p[i] = Join[kk][i]
  BY DEF Copied
<1>16. /\ Len(Join[kk]) = a + l + 1
       /\ \A i \in 1..a : Join[kk][i] = Join[t][i]
       /\ \A i \in 1..l : Join[kk][a + i] = d[i]
  BY <1>11 DEF Joined
<1> HIDE DEF a, l, d, t, kk
<1>17. dst = a + l + 1
  BY <1>13, <1>14, <1>15, <1>16
<1>18. \A i \in 1..a : p[i] = Join[t][i]
  <2>1. \A i \in 1..a : i \in 1..Len(Join[kk])
    BY <1>13, <1>14, <1>16
  <2> QED BY <2>1, <1>15, <1>16
<1>19. \A i \in 1..l : p[a + i] # "\\"
  <2>1. \A i \in 1..l : a + i \in 1..Len(Join[kk])
    BY <1>13, <1>14, <1>16
  <2> QED BY <2>1, <1>13, <1>15, <1>16
<1>20. p[a] = "\\"
  BY <1>14, <1>18
<1>21. Previous(p, dst) = a
  BY <1>13, <1>14, <1>17, <1>19, <1>20, PreviousIs
<1>22. dst \in Nat /\ dst - 2 >= 0 /\ a <= dst
  BY <1>13, <1>14, <1>17
<1>23. Copied(ds, f, k + 1, 0, p, src + 3, a)
  <2>1. KeptTo(ds, k + 1) = t
    BY <1>9
  <2>2. a = Len(Join[t]) + 0 /\ \A i \in 1..Len(Join[t]) : p[i] = Join[t][i]
    BY <1>14, <1>18 DEF a
  <2> QED BY <1>2, <1>5, <1>7, <2>1, <2>2 DEF Copied
<1> QED BY <1>14, <1>21, <1>22, <1>23

\* Moving one character on.
Move(p, src, dst) == [p EXCEPT ![dst + 1] = p[src + 1]]

\* What is ahead of ptr stays, because dest is not ahead of it.
LEMMA MoveAhead ==
  ASSUME NEW ds, NEW f \in Files, Absolute(ds), NEW p, NEW src, NEW dst,
         Ahead(ds, f, p, src, dst), src + 1 <= Len(p)
  PROVE  Ahead(ds, f, Move(p, src, dst), src + 1, dst + 1)
<1> DEFINE w == Whole(ds, f)
           q == Move(p, src, dst)
           n == Len(p)
<1> HIDE DEF w, q, n
<1>0. src \in Nat /\ dst \in Nat /\ dst <= src
  BY AheadIs
<1>1. p \in Seq(BufferChars) /\ n = Len(w) /\ n \in Nat
  BY AheadIs DEF n, w
<1>2. \A i \in 1..n : src <= i => p[i] = w[i]
  BY AheadIs DEF n, w
<1>3. \A i \in 1..n : \E j \in i..n : p[i] = w[j]
  BY DEF Ahead, n, w
<1>4. dst + 1 \in 1..n /\ src + 1 \in 1..n
  BY <1>0, <1>1 DEF n
<1>5. q \in Seq(BufferChars) /\ Len(q) = n
  <2>1. p[src + 1] \in BufferChars
    BY <1>1, <1>4 DEF n
  <2> QED BY <1>1, <1>4, <2>1 DEF Move, n, q
<1>6. \A i \in 1..n : q[i] = IF i = dst + 1 THEN p[src + 1] ELSE p[i]
  BY <1>1, <1>4 DEF Move, n, q
<1>7. p[src + 1] = w[src + 1]
  BY <1>0, <1>4, <1>2
<1>8. ASSUME NEW i \in 1..n, src + 1 <= i
      PROVE  q[i] = w[i]
  BY <1>0, <1>1, <1>6, <1>7, <1>8, <1>2
<1>9. ASSUME NEW i \in 1..n
      PROVE  \E j \in i..n : q[i] = w[j]
  <2>1. CASE i = dst + 1
    <3>1. src + 1 \in i..n
      BY <1>0, <1>4, <2>1
    <3> QED BY <1>6, <1>7, <2>1, <3>1
  <2>2. CASE i # dst + 1
    BY <1>6, <1>3, <2>2
  <2> QED BY <2>1, <2>2
<1>10. src + 1 \in Nat /\ dst + 1 \in Nat /\ dst + 1 <= src + 1
  BY <1>0
<1>11. \A i \in 1..n : src + 1 <= i => q[i] = w[i]
  BY <1>8
<1>12. \A i \in 1..n : \E j \in i..n : q[i] = w[j]
  BY <1>9
<1> QED BY <1>1, <1>5, <1>10, <1>11, <1>12 DEF Ahead, q, w, n

\* A character that is moved belongs to part k, or is the separator that ends it.
LEMMA MoveCopied ==
  ASSUME NEW ds, Absolute(ds), NEW f \in Files, NEW p, NEW src, NEW dst, NEW k, NEW m,
         Ahead(ds, f, p, src, dst), Copied(ds, f, k, m, p, src, dst),
         ~FollowsSlash(p, src, <<".", "\\">>), ~FollowsSlash(p, src, <<".", ".", "\\">>),
         p[src + 1] # "NUL"
  PROVE  \E j, l : Copied(ds, f, j, l, Move(p, src, dst), src + 1, dst + 1)
<1> DEFINE d == PartOf(ds, f, k)
           n == Len(d)
           kk == KeptTo(ds, k)
           h == Len(Join[kk])
           q == Move(p, src, dst)
<1>1. /\ d \in Seq(Chars) /\ n \in Nat /\ m \in Nat /\ m <= n /\ src + (n - m) + 1 <= Len(p)
      /\ \A i \in 1..n-m : p[src + i] = d[m + i]
      /\ p[src + (n - m) + 1] = After(ds, k)
  BY Here
<1>2. d # Dot /\ d # DotDot
  <2>1. m = 0 => d # Dot
    BY DotHere
  <2>2. m = 0 => d # DotDot
    BY DotDotHere
  <2>3. m > 0 => d # Dot /\ d # DotDot
    BY DEF Copied
  <2>4. m = 0 \/ m > 0
    BY <1>1
  <2> QED BY <2>1, <2>2, <2>3, <2>4
<1>3. /\ k \in 0..Len(ds) /\ src = Offset(ds, k) + m /\ dst = h + m
      /\ \A i \in 1..h : p[i] = Join[kk][i]
      /\ \A i \in 1..m : p[h + i] = d[i]
  BY DEF Copied
<1>4. ds \in Seq(Parts) /\ kk \in Seq(Plain)
  BY <1>3, KeptToIs DEF Absolute
<1>5. h \in Nat
  <2>1. Join[kk] \in Seq(PathChars)
    BY <1>4, PartsAre, JoinDef
  <2> HIDE DEF kk
  <2> QED BY <2>1
<1>6. Offset(ds, k) \in Nat
  BY <1>3, <1>4, OffsetIs
<1>7. p \in Seq(BufferChars) /\ Len(p) \in Nat
  BY AheadIs
<1> HIDE DEF d, n, kk, h, q
<1>8. dst + 1 \in 1..Len(p)
  <2>1. dst <= src /\ dst \in Nat /\ src \in Nat
    BY AheadIs
  <2> QED BY <1>1, <1>7, <2>1
<1>9. \A i \in 1..Len(p) : q[i] = IF i = dst + 1 THEN p[src + 1] ELSE p[i]
  BY <1>7, <1>8 DEF q, Move
<1>10. \A i \in 1..h+m : i \in 1..Len(p) /\ i # dst + 1
  BY <1>1, <1>3, <1>5, <1>7, <1>8
<1>11. \A i \in 1..h : q[i] = Join[kk][i]
  <2>1. \A i \in 1..h : i \in 1..h+m
    BY <1>1, <1>5
  <2> QED BY <1>3, <1>9, <1>10, <2>1
<1>12. \A i \in 1..m : q[h + i] = d[i]
  <2>1. \A i \in 1..m : h + i \in 1..h+m
    BY <1>1, <1>5
  <2> QED BY <1>3, <1>9, <1>10, <2>1
<1>13. q[h + (m + 1)] = p[src + 1]
  <2>1. h + (m + 1) = dst + 1
    BY <1>1, <1>3, <1>5
  <2> QED BY <1>8, <1>9, <2>1
<1>14. CASE m < n
  <2>1. p[src + 1] = d[m + 1]
    BY <1>1, <1>14
  <2>2. \A i \in 1..m+1 : q[h + i] = d[i]
    <3>1. \A i \in 1..m+1 : i \in 1..m \/ i = m + 1
      BY <1>1
    <3> QED BY <1>12, <1>13, <2>1, <3>1
  <2>3. m + 1 \in 0..n /\ src + 1 = Offset(ds, k) + (m + 1) /\ dst + 1 = h + (m + 1)
    BY <1>1, <1>3, <1>5, <1>6, <1>14
  <2>4. Copied(ds, f, k, m + 1, q, src + 1, dst + 1)
    BY <1>2, <1>3, <1>11, <2>2, <2>3 DEF Copied, d, n, kk, h
  <2> QED BY <2>4 DEF q
<1>15. CASE m = n
  <2>1. src + (n - m) + 1 = src + 1
    BY <1>1, <1>3, <1>6, <1>15
  <2>2. k < Len(ds) /\ p[src + 1] = "\\"
    BY <1>1, <2>1 DEF After
  <2>3. /\ k + 1 \in 0..Len(ds) /\ d = ds[k + 1]
        /\ Offset(ds, k + 1) = Offset(ds, k) + n + 1
    BY <1>3, <2>2, Between DEF d, n
  <2>4. d \in Plain
    <3>1. ds[k + 1] \in Parts
      BY <1>3, <1>4, <2>2
    <3> QED BY <1>2, <2>3, <3>1, PartsAre
  <2>5. KeptTo(ds, k + 1) = Append(kk, d)
    BY <1>3, <1>4, <2>2, <2>3, <2>4, KeptToIs DEF kk
  <2> DEFINE v == Join[Append(kk, d)]
  <2>6. Joined(Join[kk], v, d)
    BY <1>4, <2>4, JoinOn
  <2> HIDE DEF v
  <2>7. /\ Len(v) = h + n + 1
        /\ \A i \in 1..h : v[i] = Join[kk][i]
        /\ \A i \in 1..n : v[h + i] = d[i]
        /\ v[Len(v)] = "\\"
    BY <2>6 DEF Joined, h, n
  <2>8. dst + 1 = Len(v) + 0 /\ src + 1 = Offset(ds, k + 1) + 0 /\ Len(v) = h + (n + 1)
    BY <1>1, <1>3, <1>5, <1>6, <1>15, <2>3, <2>7
  <2>9. ASSUME NEW i \in 1..Len(v)
        PROVE  q[i] = v[i]
    <3>1. CASE i \in 1..h
      BY <1>11, <2>7, <3>1
    <3>2. CASE i = h + (n + 1)
      BY <1>13, <1>15, <2>2, <2>7, <2>8, <3>2
    <3>3. CASE i \notin 1..h /\ i # h + (n + 1)
      <4>1. i - h \in 1..n /\ h + (i - h) = i
        BY <1>1, <1>5, <2>8, <3>3
      <4>2. q[h + (i - h)] = d[i - h] /\ v[h + (i - h)] = d[i - h]
        BY <1>12, <1>15, <2>7, <4>1
      <4> QED BY <4>1, <4>2
    <3> QED BY <3>1, <3>2, <3>3
  <2>10. 0 \in 0..Len(PartOf(ds, f, k + 1))
    <3>1. PartOf(ds, f, k + 1) \in Seq(Chars)
      BY <1>4, <2>3, PartsAt DEF PartAt
    <3> QED BY <3>1
  <2>11. v = Join[KeptTo(ds, k + 1)]
    BY <2>5 DEF v
  <2>12. Copied(ds, f, k + 1, 0, q, src + 1, dst + 1)
    BY <2>3, <2>8, <2>9, <2>10, <2>11 DEF Copied
  <2> QED BY <2>12 DEF q
<1> QED BY <1>1, <1>14, <1>15

\* At the end the last slash is the one behind what is kept.
LEMMA AtTheEnd ==
  ASSUME NEW ds, Absolute(ds), NEW f \in Files, NEW p, NEW src, NEW dst, NEW k, NEW m,
         Ahead(ds, f, p, src, dst), Copied(ds, f, k, m, p, src, dst), p[src + 1] = "NUL",
         src - dst <= Len(f), Kept[ds] # <<>>
  PROVE  LET a == Len(Join[Kept[ds]]) IN
         /\ a \in 1..Len(p) /\ p[a] = "\\" /\ \A i \in a+1..Len(p) : p[i] # "\\"
         /\ Join[Kept[ds]] \in Seq(PathChars)
         /\ \A i \in 1..a : p[i] = Join[Kept[ds]][i]
<1> DEFINE w == Whole(ds, f)
           g == Join[Kept[ds]]
           a == Len(g)
           b == Len(Join[ds])
           n == Len(f)
<1>1. /\ PartOf(ds, f, k) \in Seq(Chars) /\ Len(PartOf(ds, f, k)) \in Nat
      /\ m \in Nat /\ m <= Len(PartOf(ds, f, k))
      /\ \A i \in 1..Len(PartOf(ds, f, k))-m : p[src + i] = PartOf(ds, f, k)[m + i]
      /\ p[src + (Len(PartOf(ds, f, k)) - m) + 1] = After(ds, k)
  BY Here
<1>2. /\ k \in 0..Len(ds) /\ src = Offset(ds, k) + m
      /\ dst = Len(Join[KeptTo(ds, k)]) + m
      /\ \A i \in 1..Len(Join[KeptTo(ds, k)]) : p[i] = Join[KeptTo(ds, k)][i]
      /\ \A i \in 1..m : p[Len(Join[KeptTo(ds, k)]) + i] = PartOf(ds, f, k)[i]
  BY DEF Copied
<1>3. ds \in Seq(Parts) /\ Len(ds) \in Nat
  BY DEF Absolute
<1>4. Kept[ds] \in Seq(Plain)
  BY <1>3, KeptDef
<1>5. g \in Seq(PathChars) /\ Joined(Join[Up(Kept[ds])], g, Kept[ds][Len(Kept[ds])])
  BY <1>4, PartsAre, JoinIs
<1>6. a \in Nat /\ a > 0 /\ g[a] = "\\"
  <2> DEFINE x == Len(Join[Up(Kept[ds])])
             y == Len(Kept[ds][Len(Kept[ds])])
  <2>1. a = x + y + 1 /\ g[a] = "\\"
    BY <1>5 DEF Joined
  <2>2. Up(Kept[ds]) \in Seq(Parts) /\ Kept[ds][Len(Kept[ds])] \in Parts
    BY <1>4, PartsAre, UpIs
  <2>3. x \in Nat /\ y \in Nat
    <3>1. Join[Up(Kept[ds])] \in Seq(PathChars) /\ Kept[ds][Len(Kept[ds])] \in Seq(Chars)
      BY <2>2, JoinDef, PartsAre
    <3> QED BY <3>1
  <2>4. a \in Nat /\ a > 0
    <3> HIDE DEF a, x, y
    <3> QED BY <2>1, <2>3
  <2> QED BY <2>1, <2>4
<1>7. /\ b \in Nat /\ n \in Nat /\ f \in Seq(Chars) /\ Len(w) = b + n + 1
      /\ \A i \in 1..n : w[b + i] = f[i]
      /\ w[b + n + 1] = "NUL"
  <2>1. b \in Nat
    BY <1>3, JoinDef
  <2>2. n \in Nat /\ f \in Seq(Chars)
    BY PartsAre
  <2> QED BY <1>3, <2>1, <2>2, WholeIs
<1>8. /\ src \in Nat /\ dst \in Nat /\ dst <= src /\ Len(p) = Len(w) /\ Len(p) \in Nat
      /\ \A i \in 1..Len(p) : \E j \in i..Len(p) : p[i] = w[j]
  <2>1. src \in Nat /\ dst \in Nat /\ dst <= src /\ Len(p) = Len(w) /\ Len(p) \in Nat
    BY AheadIs
  <2>2. \A i \in 1..Len(p) : \E j \in i..Len(p) : p[i] = w[j]
    BY DEF Ahead
  <2> QED BY <2>1, <2>2
<1>9. \A i \in 1..n : f[i] # "\\"
  <2>1. \A i \in 1..n : f[i] \in Chars
    BY <1>7
  <2> QED BY <2>1, Strange
<1>10. m = Len(PartOf(ds, f, k)) /\ k = Len(ds)
  <2> DEFINE d == PartOf(ds, f, k)
             l == Len(d)
  <2>0. d \in Seq(Chars) /\ l \in Nat /\ \A i \in 1..l : d[i] \in Chars
    BY <1>1
  <2>1. m = l
    <3> SUFFICES ASSUME m # l
                 PROVE  FALSE
      OBVIOUS
    <3>1. 1 \in 1..l-m /\ m + 1 \in 1..l
      <4> HIDE DEF l
      <4> QED BY <1>1, <2>0 DEF l
    <3>2. p[src + 1] = d[m + 1]
      BY <1>1, <3>1
    <3>3. d[m + 1] \in Chars
      BY <2>0, <3>1
    <3> HIDE DEF d, l
    <3> QED BY <3>2, <3>3, Strange
  <2>2. src + (l - m) + 1 = src + 1
    <3> HIDE DEF l
    <3> QED BY <1>8, <2>0, <2>1
  <2>3. After(ds, k) = "NUL"
    BY <1>1, <2>2
  <2>4. ~(k < Len(ds))
    BY <2>3, Strange DEF After
  <2> QED BY <1>2, <1>3, <2>1, <2>4
<1>11. PartOf(ds, f, k) = f
  BY <1>3, <1>10 DEF PartOf
<1>12. Offset(ds, k) = b /\ KeptTo(ds, k) = Kept[ds]
  BY <1>2, <1>3, <1>10, OffsetIs, KeptToIs
<1>13. src = b + n /\ dst = a + n /\ m = n
  BY <1>2, <1>10, <1>11, <1>12
<1>14. (\A i \in 1..a : p[i] = g[i]) /\ \A i \in 1..n : p[a + i] = f[i]
  BY <1>2, <1>11, <1>12, <1>13
<1> HIDE DEF w, g, a, b
<1>15. src - dst <= n
  OBVIOUS
<1> HIDE DEF n
<1>16. ASSUME NEW i \in a+1..Len(p)
       PROVE  p[i] # "\\"
  <2>1. CASE i <= dst
    <3>1. i - a \in 1..n /\ a + (i - a) = i
      BY <1>6, <1>7, <1>8, <1>13, <2>1
    <3>2. p[a + (i - a)] = f[i - a]
      BY <1>14, <3>1
    <3> QED BY <1>9, <3>1, <3>2
  <2>2. CASE ~(i <= dst)
    <3>1. i \in 1..Len(p)
      BY <1>6, <1>8
    <3>2. PICK j \in i..Len(p) : p[i] = w[j]
      BY <1>8, <3>1
    <3>3. j - b \in 1..n \/ j = b + n + 1
      BY <1>6, <1>7, <1>8, <1>13, <1>15, <2>2, <3>1
    <3>4. b + (j - b) = j
      BY <1>7, <3>1
    <3>5. CASE j - b \in 1..n
      <4>1. w[b + (j - b)] = f[j - b]
        BY <1>7, <3>5
      <4> QED BY <1>9, <3>2, <3>4, <3>5, <4>1
    <3>6. CASE j = b + n + 1
      BY <1>7, <3>2, <3>6, Strange
    <3> QED BY <3>3, <3>5, <3>6
  <2> QED BY <2>1, <2>2
<1>17. a \in 1..Len(p)
  BY <1>6, <1>7, <1>8, <1>13
<1>18. p[a] = "\\"
  BY <1>6, <1>14
<1> QED BY <1>5, <1>14, <1>16, <1>17, <1>18 DEF g, a

-----------------------------------------------------------------------------
(***************************************************************************)
(* The cleaning of a path.                                                 *)
(***************************************************************************)
\* Any number of directories.
InPath == parts \in Seq(Names \cup {Dot, DotDot}) /\ fname \in Files

\* The paths that DirectoryIsFound speaks of.
Ordinary == ~Climbs /\ ~MeetsTwoSlashes

\* While clean_path runs: what is ahead is as it was, and what is behind dest
\* is what is kept so far, with m characters of part k (filewatch_win32.c:326-356).
PathInv ==
  /\ InPath
  /\ pathpc = "slashes" =>
       /\ ptr = 0 /\ dest = 0
       /\ \E sep \in {"/", "\\"} :
            path = [k \in DOMAIN AbsPath |-> IF AbsPath[k] = "\\" THEN sep ELSE AbsPath[k]]
  /\ Ordinary =>
       /\ pathpc \in {"slashes", "clean", "cut"}
       /\ pathpc = "clean" =>
            /\ Ahead(Dirs, fname, path, ptr, dest)
            /\ \E k, m : Copied(Dirs, fname, k, m, path, ptr, dest)
       /\ pathpc = "cut" /\ ptr - dest <= Len(fname) => path = Join[Kept[Dirs]]

\* The path that abs_path returns is absolute.
LEMMA DirsAre ==
  ASSUME InPath
  PROVE  /\ Absolute(Dirs) /\ fname \in Files /\ AbsPath = Whole(Dirs, fname)
         /\ Ordinary => \A k \in 1..Len(Dirs) : KeptTo(Dirs, k) # <<>>
         /\ Ordinary => Kept[Dirs] # <<>>
         /\ Ordinary => \A k \in 1..Len(Dirs)-1 : Dirs[k + 1] = DotDot => ~EndsEmpty(Dirs, k)
<1>1. parts \in Seq(Parts) /\ <<Drive>> \in Seq(Parts)
  BY DEF InPath, Parts
<1>2. Len(<<Drive>>) = 1 /\ <<Drive>>[1] = Drive /\ 1 \in 1..1
  OBVIOUS
<1>3. /\ Dirs \in Seq(Parts) /\ Len(Dirs) = 1 + Len(parts) /\ Len(parts) \in Nat
      /\ Dirs[1] = Drive
  BY <1>1, <1>2, ConcatIs DEF Dirs
<1>4. Absolute(Dirs)
  BY <1>3 DEF Absolute
<1>5. Ordinary => \A k \in 1..Len(Dirs) : KeptTo(Dirs, k) # <<>>
  BY DEF Ordinary, Climbs, KeptTo, Upto
<1>6. Ordinary => Kept[Dirs] # <<>>
  <2>1. Len(Dirs) \in 1..Len(Dirs) /\ KeptTo(Dirs, Len(Dirs)) = Kept[Dirs]
    BY <1>3, UptoEnds DEF KeptTo
  <2> QED BY <1>5, <2>1
<1>7. fname \in Files /\ AbsPath = Whole(Dirs, fname)
  BY DEF InPath, AbsPath, Whole
<1>8. ASSUME Ordinary, NEW k \in 1..Len(Dirs)-1, Dirs[k + 1] = DotDot
      PROVE  ~EndsEmpty(Dirs, k)
  <2>1. k + 1 \in 2..Len(Dirs) /\ (k + 1) - 1 = k
    BY <1>3
  <2> QED BY <1>8, <2>1 DEF Ordinary, MeetsTwoSlashes, EndsEmpty, KeptTo, Upto
<1> QED BY <1>4, <1>5, <1>6, <1>7, <1>8

LEMMA PathInvInit == PathInit => PathInv
<1> SUFFICES ASSUME PathInit
             PROVE  PathInv
  OBVIOUS
<1>1. PICK n \in 0..MaxParts : parts \in [1..n -> Names \cup {Dot, DotDot}]
  BY DEF PathInit
<1>2. n \in Nat
  BY PathAssumption
<1>3. InPath
  BY <1>1, <1>2 DEF InPath, PathInit
<1> QED BY <1>3 DEF PathInv, PathInit

\* The path does not change, so nor does what is said of it.
LEMMA SamePath ==
  ASSUME UNCHANGED <<parts, fname>>, PathInv
  PROVE  InPath' /\ Dirs' = Dirs /\ Ordinary' = Ordinary /\ AbsPath' = AbsPath
BY DEF InPath, PathInv, Dirs, Ordinary, Climbs, MeetsTwoSlashes, AbsPath

LEMMA SlashesStep == PathInv /\ Slashes => PathInv'
<1> SUFFICES ASSUME PathInv, Slashes
             PROVE  PathInv'
  OBVIOUS
<1>1. /\ pathpc = "slashes" /\ pathpc' = "clean" /\ ptr' = 0 /\ dest' = 0
      /\ UNCHANGED <<parts, fname>> /\ InPath
      /\ path' = [k \in DOMAIN path |-> IF path[k] = "/" THEN "\\" ELSE path[k]]
  BY DEF Slashes, PathInv
<1>2. InPath' /\ Dirs' = Dirs /\ Ordinary' = Ordinary /\ AbsPath' = AbsPath /\ fname' = fname
  BY <1>1, SamePath
<1>3. Absolute(Dirs) /\ fname \in Files /\ AbsPath = Whole(Dirs, fname)
  BY <1>1, DirsAre
<1>4. Dirs \in Seq(Parts) /\ 0 \in 0..Len(Dirs)
  BY <1>3 DEF Absolute
<1> DEFINE w == AbsPath
<1>5. w \in Seq(BufferChars) /\ Len(w) \in Nat
  BY <1>3, <1>4, WholeIs
<1>6. \A c \in BufferChars : c # "/"
  BY PathAssumption DEF BufferChars, PathChars
<1>7. path' = w
  <2>1. PICK sep \in {"/", "\\"} :
          path = [k \in DOMAIN w |-> IF w[k] = "\\" THEN sep ELSE w[k]]
    BY <1>1 DEF PathInv
  <2>2. DOMAIN path = DOMAIN w /\ w = [k \in DOMAIN w |-> w[k]]
    BY <1>5, <2>1
  <2>3. \A k \in DOMAIN w : w[k] \in BufferChars
    BY <1>5
  <2> HIDE DEF w
  <2>4. ASSUME NEW k \in DOMAIN w
        PROVE  (IF path[k] = "/" THEN "\\" ELSE path[k]) = w[k]
    <3>1. w[k] # "/"
      BY <1>6, <2>3
    <3>2. CASE w[k] = "\\"
      <4>1. path[k] = sep
        BY <2>1, <3>2
      <4> QED BY <3>2, <4>1
    <3>3. CASE w[k] # "\\"
      <4>1. path[k] = w[k]
        BY <2>1, <3>3
      <4> QED BY <3>1, <4>1
    <3> QED BY <3>2, <3>3
  <2> QED BY <1>1, <2>2, <2>4
<1>8. Ahead(Dirs, fname, w, 0, 0)
  <2>1. \A i \in 1..Len(w) : \E j \in i..Len(w) : w[i] = w[j]
    BY <1>5
  <2> QED BY <1>3, <1>5, <2>1 DEF Ahead
<1>9. Copied(Dirs, fname, 0, 0, w, 0, 0)
  <2>1. Offset(Dirs, 0) = 0
    BY <1>4, OffsetIs
  <2>2. KeptTo(Dirs, 0) = <<>> /\ Len(<<>>) = 0
    BY <1>4, KeptToIs
  <2>3. PartOf(Dirs, fname, 0) \in Seq(Chars)
    BY <1>3, <1>4, PartsAt DEF PartAt
  <2>4. 0 \in 0..Len(PartOf(Dirs, fname, 0))
    BY <2>3
  <2>5. Len(Join[KeptTo(Dirs, 0)]) = 0
    BY <2>2, JoinNone
  <2> QED BY <1>4, <2>1, <2>4, <2>5 DEF Copied
<1>10. \E k, m : Copied(Dirs, fname, k, m, w, 0, 0)
  BY <1>9
<1> HIDE DEF w
<1>11. Ahead(Dirs', fname', path', ptr', dest')
  BY <1>1, <1>2, <1>7, <1>8
<1>12. \E k, m : Copied(Dirs', fname', k, m, path', ptr', dest')
  BY <1>1, <1>2, <1>7, <1>10
<1> QED BY <1>1, <1>2, <1>11, <1>12 DEF PathInv

\* While the path is cleaned, if it is an ordinary one.
Cleaning ==
  /\ pathpc = "clean"
  /\ Ahead(Dirs, fname, path, ptr, dest)
  /\ \E k, m : Copied(Dirs, fname, k, m, path, ptr, dest)

\* Going on without moving anything.
LEMMA AheadLater ==
  ASSUME NEW ds, NEW f, NEW p, NEW src, NEW dst, Ahead(ds, f, p, src, dst),
         NEW n \in Nat, NEW d \in Nat, d <= dst
  PROVE  Ahead(ds, f, p, src + n, d)
<1>1. src \in Nat /\ dst \in Nat /\ dst <= src /\ Len(p) \in Nat
  BY AheadIs
<1>2. src + n \in Nat /\ d <= src + n
  BY <1>1
<1>3. \A i \in 1..Len(p) : src + n <= i => src <= i
  BY <1>1
<1> QED BY <1>2, <1>3 DEF Ahead

\* It goes on being cleaned.
LEMMA CleaningStep ==
  ASSUME PathInv, UNCHANGED <<parts, fname>>, pathpc = "clean", pathpc' \in {"clean", "outside"},
         Ordinary /\ Cleaning =>
           /\ pathpc' = "clean" /\ Ahead(Dirs, fname, path', ptr', dest')
           /\ \E k, m : Copied(Dirs, fname, k, m, path', ptr', dest')
  PROVE  PathInv'
<1>1. InPath' /\ Dirs' = Dirs /\ Ordinary' = Ordinary /\ fname' = fname
  BY SamePath
<1>2. ASSUME Ordinary
      PROVE  /\ pathpc' = "clean" /\ Ahead(Dirs', fname', path', ptr', dest')
             /\ \E k, m : Copied(Dirs', fname', k, m, path', ptr', dest')
  <2>1. Cleaning
    BY <1>2 DEF PathInv, Cleaning
  <2> QED BY <1>1, <1>2, <2>1
<1> QED BY <1>1, <1>2 DEF PathInv

LEMMA SkipDotStep == PathInv /\ SkipDot => PathInv'
<1> SUFFICES ASSUME PathInv, SkipDot
             PROVE  PathInv'
  OBVIOUS
<1>1. /\ pathpc = "clean" /\ pathpc' = "clean" /\ ptr' = ptr + 2 /\ dest' = dest /\ path' = path
      /\ UNCHANGED <<parts, fname>> /\ FollowsSlash(path, ptr, <<".", "\\">>)
  BY DEF SkipDot, AfterSlash, FollowsSlash
<1>2. Absolute(Dirs) /\ fname \in Files
  BY DirsAre DEF PathInv
<1>3. ASSUME Cleaning
      PROVE  /\ Ahead(Dirs, fname, path, ptr + 2, dest)
             /\ \E k, m : Copied(Dirs, fname, k, m, path, ptr + 2, dest)
  <2>1. PICK k, m : Copied(Dirs, fname, k, m, path, ptr, dest)
    BY <1>3 DEF Cleaning
  <2>2. Ahead(Dirs, fname, path, ptr, dest)
    BY <1>3 DEF Cleaning
  <2>3. m = 0 /\ PartOf(Dirs, fname, k) = Dot
    BY <1>1, <1>2, <2>1, <2>2, DotHere
  <2>4. Copied(Dirs, fname, k + 1, 0, path, ptr + 2, dest)
    BY <1>2, <2>1, <2>3, PastDot
  <2>5. Ahead(Dirs, fname, path, ptr + 2, dest)
    <3>1. dest \in Nat /\ dest <= dest
      BY <2>2, AheadIs
    <3> QED BY <2>2, <3>1, AheadLater
  <2> QED BY <2>4, <2>5
<1> QED BY <1>1, <1>3, CleaningStep

LEMMA SkipDotDotStep == PathInv /\ SkipDotDot => PathInv'
<1> SUFFICES ASSUME PathInv, SkipDotDot
             PROVE  PathInv'
  OBVIOUS
<1>1. /\ pathpc = "clean" /\ path' = path /\ UNCHANGED <<parts, fname>>
      /\ FollowsSlash(path, ptr, <<".", ".", "\\">>)
      /\ IF Back < 0 THEN pathpc' = "outside" /\ UNCHANGED <<ptr, dest>>
         ELSE dest' = PreviousPart /\ ptr' = ptr + 3 /\ UNCHANGED pathpc
  BY DEF SkipDotDot, AfterSlash, FollowsSlash
<1>2. /\ Absolute(Dirs) /\ fname \in Files
      /\ Ordinary => \A k \in 1..Len(Dirs) : KeptTo(Dirs, k) # <<>>
      /\ Ordinary => \A k \in 1..Len(Dirs)-1 : Dirs[k + 1] = DotDot => ~EndsEmpty(Dirs, k)
  BY DirsAre DEF PathInv
<1>3. PreviousPart = Previous(path, dest)
  BY DEF PreviousPart, Previous, Back
<1>4. ASSUME Ordinary, Cleaning
      PROVE  /\ dest - 2 >= 0 /\ dest \in Nat
             /\ Ahead(Dirs, fname, path, ptr + 3, Previous(path, dest))
             /\ \E k, m : Copied(Dirs, fname, k, m, path, ptr + 3, Previous(path, dest))
  <2>1. PICK k, m : Copied(Dirs, fname, k, m, path, ptr, dest)
    BY <1>4 DEF Cleaning
  <2>2. Ahead(Dirs, fname, path, ptr, dest)
    BY <1>4 DEF Cleaning
  <2>3. m = 0 /\ PartOf(Dirs, fname, k) = DotDot
    BY <1>1, <1>2, <2>1, <2>2, DotDotHere
  <2>4. k \in 0..Len(Dirs) /\ Len(Dirs) \in Nat
    BY <1>2, <2>1 DEF Copied, Absolute
  <2>5. k < Len(Dirs)
    BY <1>2, <2>3, <2>4, Between
  <2>6. KeptTo(Dirs, k + 1) # <<>> /\ ~EndsEmpty(Dirs, k)
    <3>1. Dirs \in Seq(Parts) /\ Dirs[1] = Drive /\ Drive # DotDot
      BY <1>2, PartsAre DEF Absolute, Plain
    <3>2. PartOf(Dirs, fname, k) = Dirs[k + 1]
      BY <1>2, <2>4, <2>5, <3>1, Between
    <3>3. Dirs[k + 1] = DotDot
      BY <2>3, <3>2
    <3>4. k # 0
      BY <3>1, <3>3
    <3>5. k + 1 \in 1..Len(Dirs) /\ k \in 1..Len(Dirs)-1
      BY <2>4, <2>5, <3>4
    <3> QED BY <1>2, <1>4, <3>3, <3>5
  <2>7. /\ dest \in Nat /\ dest - 2 >= 0
        /\ Previous(path, dest) \in Nat /\ Previous(path, dest) <= dest
        /\ Copied(Dirs, fname, k + 1, 0, path, ptr + 3, Previous(path, dest))
    BY <1>2, <2>1, <2>3, <2>6, PastDotDot
  <2> DEFINE v == Previous(path, dest)
  <2>8. Ahead(Dirs, fname, path, ptr + 3, v)
    <3>1. v \in Nat /\ v <= dest
      BY <2>7
    <3> HIDE DEF v
    <3> QED BY <2>2, <3>1, AheadLater
  <2> QED BY <2>7, <2>8
<1>5. pathpc' \in {"clean", "outside"}
  BY <1>1
<1>6. ASSUME Ordinary, Cleaning
      PROVE  /\ pathpc' = "clean" /\ Ahead(Dirs, fname, path', ptr', dest')
             /\ \E k, m : Copied(Dirs, fname, k, m, path', ptr', dest')
  <2>1. dest - 2 >= 0 /\ dest \in Nat
    BY <1>4, <1>6
  <2>2. ~(Back < 0)
    BY <2>1 DEF Back
  <2>3. pathpc' = "clean" /\ path' = path /\ ptr' = ptr + 3 /\ dest' = Previous(path, dest)
    BY <1>1, <1>3, <2>2
  <2> QED BY <1>4, <1>6, <2>3
<1> QED BY <1>1, <1>5, <1>6, CleaningStep

LEMMA CopyCharStep == PathInv /\ CopyChar => PathInv'
<1> SUFFICES ASSUME PathInv, CopyChar
             PROVE  PathInv'
  OBVIOUS
<1>1. /\ pathpc = "clean" /\ pathpc' = "clean" /\ UNCHANGED <<parts, fname>>
      /\ path[ptr + 1] # "NUL"
      /\ ~AfterSlash(<<".", "\\">>) /\ ~AfterSlash(<<".", ".", "\\">>)
      /\ path' = Move(path, ptr, dest) /\ ptr' = ptr + 1 /\ dest' = dest + 1
  BY DEF CopyChar, Move
<1>2. ~FollowsSlash(path, ptr, <<".", "\\">>) /\ ~FollowsSlash(path, ptr, <<".", ".", "\\">>)
  BY <1>1 DEF AfterSlash, FollowsSlash
<1>3. Absolute(Dirs) /\ fname \in Files
  BY DirsAre DEF PathInv
<1>4. ASSUME Cleaning
      PROVE  /\ Ahead(Dirs, fname, Move(path, ptr, dest), ptr + 1, dest + 1)
             /\ \E k, m : Copied(Dirs, fname, k, m, Move(path, ptr, dest), ptr + 1, dest + 1)
  <2>1. PICK k, m : Copied(Dirs, fname, k, m, path, ptr, dest)
    BY <1>4 DEF Cleaning
  <2>2. Ahead(Dirs, fname, path, ptr, dest)
    BY <1>4 DEF Cleaning
  <2>3. ptr + 1 <= Len(path)
    <3> DEFINE l == Len(PartOf(Dirs, fname, k))
    <3>1. l \in Nat /\ m \in Nat /\ m <= l /\ ptr + (l - m) + 1 <= Len(path)
      BY <1>3, <2>1, <2>2, Here
    <3>2. ptr \in Nat /\ Len(path) \in Nat
      BY <2>2, AheadIs
    <3> HIDE DEF l
    <3> QED BY <3>1, <3>2
  <2>4. Ahead(Dirs, fname, Move(path, ptr, dest), ptr + 1, dest + 1)
    BY <1>3, <2>2, <2>3, MoveAhead
  <2>5. \E j, l : Copied(Dirs, fname, j, l, Move(path, ptr, dest), ptr + 1, dest + 1)
    BY <1>1, <1>2, <1>3, <2>1, <2>2, MoveCopied
  <2> QED BY <2>4, <2>5
<1> QED BY <1>1, <1>4, CleaningStep

LEMMA CutStep == PathInv /\ Cut => PathInv'
<1> SUFFICES ASSUME PathInv, Cut
             PROVE  PathInv'
  OBVIOUS
<1>1. /\ pathpc = "clean" /\ pathpc' = "cut" /\ UNCHANGED <<parts, fname, ptr, dest>>
      /\ path[ptr + 1] = "NUL"
      /\ path' = IF \E k \in DOMAIN path : path[k] = "\\" THEN SubSeq(path, 1, LastSlash) ELSE path
  BY DEF Cut
<1>2. InPath' /\ Dirs' = Dirs /\ Ordinary' = Ordinary /\ fname' = fname
  BY <1>1, SamePath
<1>3. Absolute(Dirs) /\ fname \in Files /\ (Ordinary => Kept[Dirs] # <<>>)
  BY DirsAre DEF PathInv
<1>4. ASSUME Ordinary, ptr - dest <= Len(fname)
      PROVE  path' = Join[Kept[Dirs]]
  <2>1. PICK k, m : Copied(Dirs, fname, k, m, path, ptr, dest)
    BY <1>1, <1>4 DEF PathInv
  <2>2. Ahead(Dirs, fname, path, ptr, dest)
    BY <1>1, <1>4 DEF PathInv
  <2> DEFINE g == Join[Kept[Dirs]]
             a == Len(g)
             p == path
  <2>3. /\ a \in 1..Len(p) /\ p[a] = "\\" /\ \A i \in a+1..Len(p) : p[i] # "\\"
        /\ g \in Seq(PathChars)
        /\ \A i \in 1..a : p[i] = g[i]
    BY <1>1, <1>3, <1>4, <2>1, <2>2, AtTheEnd
  <2>4. p \in Seq(BufferChars) /\ DOMAIN p = 1..Len(p) /\ Len(p) \in Nat
    BY <2>2, AheadIs
  <2>5. LastSlash = a
    <3> DEFINE C(k0) == k0 \in DOMAIN p /\ p[k0] = "\\" /\ \A l \in k0+1..Len(p) : p[l] # "\\"
    <3>1. C(a)
      BY <2>3, <2>4
    <3>2. ASSUME NEW i, C(i)
          PROVE  i = a
      <4>1. i \in 1..Len(p) /\ a \in 1..Len(p)
        BY <2>3, <2>4, <3>2
      <4>2. ~(i < a)
        <5> SUFFICES ASSUME i < a
                     PROVE  FALSE
          OBVIOUS
        <5>1. a \in i+1..Len(p)
          BY <2>4, <4>1
        <5> QED BY <5>1, <2>3, <3>2
      <4>3. ~(i > a)
        <5> SUFFICES ASSUME i > a
                     PROVE  FALSE
          OBVIOUS
        <5>1. i \in a+1..Len(p)
          BY <2>4, <4>1
        <5> QED BY <5>1, <2>3, <3>2
      <4> HIDE DEF a
      <4> QED BY <4>1, <4>2, <4>3, <2>4
    <3>3. LastSlash = CHOOSE i : C(i)
      BY DEF LastSlash
    <3> HIDE DEF C, a
    <3> QED BY <3>1, <3>2, <3>3
  <2>6. path' = Upto(path, a)
    BY <1>1, <2>3, <2>4, <2>5 DEF Upto
  <2>7. /\ Upto(path, a) \in Seq(BufferChars) /\ Len(Upto(path, a)) = a
        /\ \A i \in 1..a : Upto(path, a)[i] = path[i]
    <3>1. a \in 0..Len(path)
      BY <2>3, <2>4
    <3> HIDE DEF a
    <3> QED BY <2>4, <3>1, UptoIs
  <2>8. g \in Seq(BufferChars)
    BY <2>3 DEF BufferChars
  <2>9. Upto(path, a) = g
    <3>1. \A i \in 1..a : Upto(path, a)[i] = g[i]
      BY <2>3, <2>7
    <3> HIDE DEF g
    <3> QED BY <2>7, <2>8, <3>1, SeqEqual
  <2> QED BY <2>6, <2>9
<1>5. ptr' = ptr /\ dest' = dest /\ pathpc' = "cut"
  BY <1>1
<1> QED BY <1>2, <1>4, <1>5 DEF PathInv

LEMMA PathStutter == PathInv /\ UNCHANGED pathVars => PathInv'
<1> SUFFICES ASSUME PathInv, UNCHANGED pathVars
             PROVE  PathInv'
  OBVIOUS
<1>1. /\ UNCHANGED <<parts, fname>> /\ fname' = fname
      /\ path' = path /\ ptr' = ptr /\ dest' = dest /\ pathpc' = pathpc
  BY DEF pathVars
<1>2. InPath' /\ Dirs' = Dirs /\ Ordinary' = Ordinary /\ AbsPath' = AbsPath
  BY <1>1, SamePath
<1> QED BY <1>1, <1>2 DEF PathInv

\* A path that does not climb above its drive, and has no ".." after two slashes
\* in a row, is cleaned part by part, inside its buffer
\* (filewatch_win32.c:326-356), whatever the names and their number.
THEOREM PathIsCleaned == PathSpec => []PathInv
<1>1. PathInit => PathInv
  BY PathInvInit
<1>2. PathInv /\ [PathNext]_pathVars => PathInv'
  BY SlashesStep, SkipDotStep, SkipDotDotStep, CopyCharStep, CutStep, PathStutter DEF PathNext
<1> QED BY <1>1, <1>2, PTL DEF PathSpec

\* The directory of a file is found (filewatch_win32.c:77-81), if its path does
\* not climb above the drive, no ".." in it comes after two slashes in a row,
\* and its name covers what was removed; whatever the names and their number.
THEOREM DirectoryFound == PathSpec => []DirectoryIsFound
<1>1. PathInv => DirectoryIsFound
  BY DEF PathInv, DirectoryIsFound, Ordinary
<1> QED BY <1>1, PathIsCleaned, PTL

=============================================================================
