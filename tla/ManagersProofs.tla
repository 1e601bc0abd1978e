---------------------------- MODULE ManagersProofs ----------------------------
(***************************************************************************)
(* Proofs about the managers that share a pool: whose pool it is that runs *)
(* and stops, and whose jobs are in it, for any number of managers.        *)
(***************************************************************************)
EXTENDS Managers, FiniteSetTheorems, TLAPS

MgrsType ==
  /\ nref \in Int /\ loads \in Seq(Mgrs)
  /\ state \in {"none", "running", "stopping", "stopped"}
  /\ at \in {"idle", "work", "report"}
  /\ mgr \in [Mgrs -> {"none", "up", "select", "scan", "leaving", "gone"}]

\* The reference count covers the users.
RefsCover == Cardinality(Users) <= nref

\* The states of the pool, against those of its managers.
PoolStates ==
  /\ state = "none" => Users = {}
  /\ busy = NoMgr => state # "stopping"
  /\ \A m \in Mgrs : mgr[m] = "leaving" => state = "stopping" /\ busy = m

\* What GoneHasNoJobs says holds already while the manager is idle.
IdleHasNoJobs ==
  \A m \in idle :
    /\ \A k \in 1..Len(loads) : loads[k] # m
    /\ ~(at = "work" /\ for = m)

GoneIsIdle ==
  \A m \in Mgrs : mgr[m] \in {"leaving", "gone"} /\ m \notin hasty => m \in idle

MgrsInv ==
  MgrsType /\ RefsCover /\ PoolStates /\ PoolRuns /\ IdleHasNoJobs /\ GoneIsIdle

-----------------------------------------------------------------------------
LEMMA UsersFinite == IsFiniteSet(Users) /\ Cardinality(Users) \in Nat
<1>1. Users \subseteq Mgrs
  BY DEF Users
<1>2. IsFiniteSet(Users)
  BY <1>1, MgrsAssumption, FS_Subset
<1> QED  BY <1>2, FS_CardinalityType

\* A manager that moves within a poll or a sleep is a user before and after.
LEMMA SameUsers ==
  ASSUME MgrsType, NEW m \in Mgrs, Up(m), NEW pc \in {"up", "select", "scan"}, Goto(m, pc)
  PROVE  Users' = Users
BY DEF MgrsType, Users, Up, Goto

LEMMA OneMoreUser ==
  ASSUME MgrsType, NEW m \in Mgrs, ~Up(m), Goto(m, "up")
  PROVE  Users' = Users \cup {m} /\ Cardinality(Users') = Cardinality(Users) + 1
<1>1. Users' = Users \cup {m} /\ m \notin Users
  BY DEF MgrsType, Users, Up, Goto
<1> QED  BY <1>1, UsersFinite, FS_AddElement

LEMMA OneUserLess ==
  ASSUME MgrsType, NEW m \in Mgrs, Up(m), NEW pc \in {"leaving", "gone"}, Goto(m, pc)
  PROVE  Users' = Users \ {m} /\ Cardinality(Users') = Cardinality(Users) - 1
<1>1. Users' = Users \ {m} /\ m \in Users
  BY DEF MgrsType, Users, Up, Goto
<1> QED  BY <1>1, UsersFinite, FS_RemoveElement

\* The steps that touch no manager and not the life of the pool.
LEMMA Unmoved ==
  ASSUME MgrsInv, UNCHANGED <<mgr, nref, state, busy, reborn>>
  PROVE  RefsCover' /\ PoolStates' /\ PoolRuns'
<1>1. Users' = Users
  BY DEF Users, Up
<1> QED  BY <1>1 DEF MgrsInv, RefsCover, PoolStates, PoolRuns, Up

\* The jobs of idle managers, when no job is added and nobody becomes idle.
LEMMA NoNewJobs ==
  ASSUME MgrsInv, UNCHANGED <<loads, idle, at, for>>
  PROVE  IdleHasNoJobs'
BY DEF MgrsInv, IdleHasNoJobs

LEMMA MgrsInvStep == MgrsInv /\ [MgrsNext]_mgrsVars => MgrsInv'
<1> SUFFICES ASSUME MgrsInv, [MgrsNext]_mgrsVars PROVE MgrsInv'
  OBVIOUS
<1>0. MgrsType /\ RefsCover /\ PoolStates /\ PoolRuns /\ IdleHasNoJobs /\ GoneIsIdle
  BY DEF MgrsInv
<1>1. CASE TakeLoad
  <2> USE <1>1 DEF TakeLoad, mgrsHistory
  <2>1. /\ Head(loads) \in Mgrs /\ Tail(loads) \in Seq(Mgrs) /\ Len(Tail(loads)) = Len(loads) - 1
        /\ Head(loads) = loads[1] /\ Len(loads) \in Nat \ {0}
        /\ \A k \in 1..Len(Tail(loads)) : Tail(loads)[k] = loads[k + 1]
    BY <1>0 DEF MgrsType
  <2>2. MgrsType'
    BY <1>0, <2>1 DEF MgrsType
  <2>3. IdleHasNoJobs'
    BY <1>0, <2>1 DEF IdleHasNoJobs
  <2>4. GoneIsIdle'
    BY <1>0 DEF GoneIsIdle
  <2> QED  BY <2>2, <2>3, <2>4, Unmoved DEF MgrsInv
<1>2. CASE FlagLoad
  <2> USE <1>2 DEF FlagLoad, mgrsHistory
  <2>1. MgrsType' /\ IdleHasNoJobs' /\ GoneIsIdle'
    BY <1>0 DEF MgrsType, IdleHasNoJobs, GoneIsIdle
  <2> QED  BY <2>1, Unmoved DEF MgrsInv
<1>3. CASE ReportLoad
  <2> USE <1>3 DEF ReportLoad, mgrsHistory
  <2>1. MgrsType' /\ IdleHasNoJobs' /\ GoneIsIdle'
    BY <1>0 DEF MgrsType, IdleHasNoJobs, GoneIsIdle
  <2> QED  BY <2>1, Unmoved DEF MgrsInv
<1>4. ASSUME NEW m \in Mgrs, InitOk(m) PROVE MgrsInv'
  <2> USE <1>4 DEF InitOk, InitCall
  <2>1. ~Up(m) /\ Users' = Users \cup {m} /\ Cardinality(Users') = Cardinality(Users) + 1
    BY <1>0, OneMoreUser DEF Up
  <2>2. MgrsType'
    BY <1>0 DEF MgrsType, NewRef, Goto
  <2>3. RefsCover'
    <3>1. CASE state = "none"
      <4>1. Cardinality(Users) = 0
        BY <1>0, <3>1, FS_EmptySet DEF PoolStates
      <4> QED  BY <2>1, <3>1, <4>1 DEF RefsCover, NewRef
    <3>2. CASE state # "none"
      BY <1>0, <2>1, <3>2, UsersFinite DEF RefsCover, NewRef, MgrsType
    <3> QED  BY <3>1, <3>2
  <2>4. PoolStates'
    BY <1>0 DEF PoolStates, MgrsType, Goto
  <2>5. PoolRuns'
    BY <1>0 DEF PoolRuns, PoolStates, MgrsType, Up, Users, Goto
  <2>6. IdleHasNoJobs'
    BY NoNewJobs
  <2>7. GoneIsIdle'
    BY <1>0 DEF GoneIsIdle, MgrsType, Goto
  <2> QED  BY <2>2, <2>3, <2>4, <2>5, <2>6, <2>7 DEF MgrsInv
<1>5. ASSUME NEW m \in Mgrs, InitFails(m) PROVE MgrsInv'
  <2> USE <1>5 DEF InitFails, InitCall
  <2>1. Users' = Users
    BY DEF Users, Up
  <2>2. MgrsType'
    BY <1>0 DEF MgrsType, NewRef
  <2>3. RefsCover'
    <3>1. CASE state = "none"
      <4>1. Cardinality(Users) = 0
        BY <1>0, <3>1, FS_EmptySet DEF PoolStates
      <4> QED  BY <2>1, <3>1, <4>1 DEF RefsCover, NewRef
    <3>2. CASE state # "none"
      BY <1>0, <2>1, <3>2, UsersFinite DEF RefsCover, NewRef, MgrsType
    <3> QED  BY <3>1, <3>2
  <2>4. PoolStates'
    BY <1>0, <2>1 DEF PoolStates
  <2>5. PoolRuns'
    BY <1>0 DEF PoolRuns, PoolStates, MgrsType, Up, Users
  <2>6. IdleHasNoJobs' /\ GoneIsIdle'
    BY <1>0, NoNewJobs DEF GoneIsIdle
  <2> QED  BY <2>2, <2>3, <2>4, <2>5, <2>6 DEF MgrsInv
<1>6. ASSUME NEW m \in Mgrs, StoppedPool(m) PROVE MgrsInv'
  <2> USE <1>6 DEF StoppedPool, pool, mgrsHistory
  <2>1. MgrsType' /\ IdleHasNoJobs' /\ GoneIsIdle'
    BY <1>0, NoNewJobs DEF MgrsType, GoneIsIdle
  <2> QED  BY <2>1, Unmoved DEF MgrsInv
<1>7. ASSUME NEW m \in Mgrs, AddLoad(m) PROVE MgrsInv'
  <2> USE <1>7 DEF AddLoad, CallsPool, Calls
  <2>1. /\ Append(loads, m) \in Seq(Mgrs) /\ Len(Append(loads, m)) = Len(loads) + 1
        /\ Len(loads) \in Nat
        /\ \A k \in 1..Len(loads) : Append(loads, m)[k] = loads[k]
        /\ Append(loads, m)[Len(loads) + 1] = m
    BY <1>0 DEF MgrsType
  <2>2. MgrsType'
    BY <1>0, <2>1 DEF MgrsType
  <2>3. IdleHasNoJobs'
    BY <1>0, <2>1 DEF IdleHasNoJobs
  <2>4. GoneIsIdle'
    BY <1>0 DEF GoneIsIdle
  <2> QED  BY <2>2, <2>3, <2>4, Unmoved DEF MgrsInv
<1>8. ASSUME NEW m \in Mgrs, WaitForAll(m) PROVE MgrsInv'
  <2> USE <1>8 DEF WaitForAll, pool
  <2>1. MgrsType' /\ GoneIsIdle'
    BY <1>0 DEF MgrsType, GoneIsIdle
  <2>2. IdleHasNoJobs'
    BY <1>0 DEF IdleHasNoJobs, NoJobs
  <2> QED  BY <2>1, <2>2, Unmoved DEF MgrsInv
<1>9. ASSUME NEW m \in Mgrs, Sleep(m) \/ Wake(m) \/ EmptyPipe(m) \/ Callbacks(m) \/ CutShort(m)
      PROVE  MgrsInv'
  <2> USE <1>9 DEF Sleep, Wake, EmptyPipe, Callbacks, CutShort, CallsPool, Calls, pool, mgrsHistory
  <2>1. Up(m) /\ \E pc \in {"up", "select", "scan"} : Goto(m, pc)
    BY DEF Up
  <2>2. UNCHANGED <<nref, state, loads, at, for, busy, idle, hasty, reborn>>
    OBVIOUS
  <2> HIDE <1>9 DEF Sleep, Wake, EmptyPipe, Callbacks, CutShort, CallsPool, Calls
  <2>3. PICK pc \in {"up", "select", "scan"} : Goto(m, pc)
    BY <2>1
  <2>4. Users' = Users
    BY <1>0, <2>1, <2>3, SameUsers
  <2>5. MgrsType' /\ RefsCover'
    BY <1>0, <2>2, <2>3, <2>4 DEF MgrsType, RefsCover, Goto
  <2>6. PoolStates'
    BY <1>0, <2>2, <2>3, <2>4 DEF PoolStates, MgrsType, Goto
  <2>7. PoolRuns'
    BY <1>0, <2>1, <2>2, <2>3 DEF PoolRuns, MgrsType, Goto, Up
  <2>8. IdleHasNoJobs'
    BY <2>2, NoNewJobs
  <2>9. GoneIsIdle'
    BY <1>0, <2>2, <2>3 DEF GoneIsIdle, MgrsType, Goto
  <2> QED  BY <2>5, <2>6, <2>7, <2>8, <2>9 DEF MgrsInv
<1>10. ASSUME NEW m \in Mgrs, Release(m) PROVE MgrsInv'
  <2> USE <1>10 DEF Release, DestroyMgr, Calls
  <2>1. Up(m) /\ Users' = Users \ {m} /\ Cardinality(Users') = Cardinality(Users) - 1
    BY <1>0, OneUserLess DEF Up
  <2>2. MgrsType'
    BY <1>0 DEF MgrsType, Goto
  <2>3. RefsCover'
    BY <1>0, <2>1, UsersFinite DEF RefsCover, MgrsType
  <2>4. PoolStates'
    BY <1>0, <2>1 DEF PoolStates, MgrsType, Goto
  <2>5. PoolRuns'
    BY <1>0 DEF PoolRuns, MgrsType, Up, Goto
  <2>6. IdleHasNoJobs'
    BY NoNewJobs
  <2>7. GoneIsIdle'
    BY <1>0 DEF GoneIsIdle, MgrsType, Goto
  <2> QED  BY <2>2, <2>3, <2>4, <2>5, <2>6, <2>7 DEF MgrsInv
<1>11. ASSUME NEW m \in Mgrs, ReleaseLast(m) PROVE MgrsInv'
  <2> USE <1>11 DEF ReleaseLast, DestroyMgr, Calls
  <2>1. Up(m) /\ Users' = Users \ {m} /\ Cardinality(Users') = Cardinality(Users) - 1
    BY <1>0, OneUserLess DEF Up
  <2>2. MgrsType'
    BY <1>0 DEF MgrsType, Goto
  <2>3. RefsCover'
    BY <1>0, <2>1, UsersFinite DEF RefsCover, MgrsType
  <2>4. Users' = {}
    <3>1. Cardinality(Users') <= 0 /\ Cardinality(Users') \in Nat /\ IsFiniteSet(Users')
      <4>1. IsFiniteSet(Users')
        BY <2>1, UsersFinite, FS_RemoveElement
      <4>2. Cardinality(Users') \in Nat
        BY <4>1, FS_CardinalityType
      <4> QED  BY <1>0, <2>1, <4>1, <4>2, UsersFinite DEF RefsCover, IsLastRef, MgrsType
    <3> QED  BY <3>1, FS_EmptySet
  <2>5. PoolStates'
    BY <1>0, <2>4, MgrsAssumption DEF PoolStates, MgrsType, Goto
  <2>6. PoolRuns'
    BY <2>4 DEF PoolRuns, Users
  <2>7. IdleHasNoJobs'
    BY <1>0 DEF IdleHasNoJobs
  <2>8. GoneIsIdle'
    BY <1>0 DEF GoneIsIdle, MgrsType, Goto
  <2> QED  BY <2>2, <2>3, <2>5, <2>6, <2>7, <2>8 DEF MgrsInv
<1>12. ASSUME NEW m \in Mgrs, PoolStops(m) PROVE MgrsInv'
  <2> USE <1>12 DEF PoolStops, mgrsHistory
  <2>1. Users' = Users
    BY <1>0 DEF MgrsType, Users, Up, Goto
  <2>2. MgrsType' /\ RefsCover'
    BY <1>0, <2>1 DEF MgrsType, RefsCover, Goto
  <2>3. PoolRuns'
    BY <1>0 DEF PoolRuns, PoolStates, MgrsType, Up, Goto
  <2>4. IdleHasNoJobs'
    BY NoNewJobs
  <2>5. GoneIsIdle'
    BY <1>0 DEF GoneIsIdle, MgrsType, Goto
  <2>6. PoolStates'
    BY <1>0 DEF PoolStates, MgrsType, Goto
  <2> QED  BY <2>2, <2>3, <2>4, <2>5, <2>6 DEF MgrsInv
<1>13. CASE UNCHANGED mgrsVars
  <2> USE <1>13 DEF mgrsVars, pool, mgrsHistory
  <2>1. MgrsType' /\ IdleHasNoJobs' /\ GoneIsIdle'
    BY <1>0 DEF MgrsType, IdleHasNoJobs, GoneIsIdle
  <2> QED  BY <2>1, Unmoved DEF MgrsInv
<1> QED
  BY <1>1, <1>2, <1>3, <1>4, <1>5, <1>6, <1>7, <1>8, <1>9, <1>10, <1>11, <1>12, <1>13
     DEF MgrsNext

LEMMA MgrsInvariance == MgrsSpec => []MgrsInv
<1>1. MgrsInit => MgrsInv
  <2> SUFFICES ASSUME MgrsInit PROVE MgrsInv
    OBVIOUS
  <2> USE DEF MgrsInit
  <2>1. Users = {} /\ Cardinality(Users) = 0
    BY FS_EmptySet DEF Users, Up
  <2>2. MgrsType
    BY DEF MgrsType
  <2>3. RefsCover /\ PoolStates /\ PoolRuns
    BY <2>1 DEF RefsCover, PoolStates, PoolRuns, Users
  <2>4. IdleHasNoJobs /\ GoneIsIdle
    BY DEF IdleHasNoJobs, GoneIsIdle
  <2> QED  BY <2>2, <2>3, <2>4 DEF MgrsInv
<1> QED  BY <1>1, MgrsInvStep, PTL DEF MgrsSpec

\* For any number of managers: none of them stops the pool under another, in
\* whatever order they come, fail to come and go (tpool.c:164-176).
THEOREM PoolRunsForUsers == MgrsSpec => []PoolRuns
<1>1. MgrsInv => PoolRuns
  BY DEF MgrsInv
<1> QED  BY <1>1, MgrsInvariance, PTL

\* For any number of managers: one that calls wait_all before it is destroyed
\* leaves no job behind in the pool (resman.c:142-148, 258).
THEOREM WaitedLeavesNoJobs == MgrsSpec => []GoneHasNoJobs
<1>1. MgrsInv => GoneHasNoJobs
  BY DEF MgrsInv, IdleHasNoJobs, GoneIsIdle, GoneHasNoJobs
<1> QED  BY <1>1, MgrsInvariance, PTL

-----------------------------------------------------------------------------
\* Nobody has a reference but the users, as long as no resman_init has failed,
\* and with the last user the pool no longer runs.
RefsExact ==
  ~failed => /\ nref = Cardinality(Users)
             /\ Users = {} => state # "running"

LEMMA RefsExactStep == MgrsInv /\ MgrsInv' /\ RefsExact /\ [MgrsNext]_mgrsVars => RefsExact'
<1> SUFFICES ASSUME MgrsInv, MgrsInv', RefsExact, [MgrsNext]_mgrsVars PROVE RefsExact'
  OBVIOUS
<1>0. MgrsType /\ PoolStates
  BY DEF MgrsInv
\* Most steps leave the users, the references and the state of the pool alone.
<1>1. ASSUME Users' = Users, UNCHANGED <<nref, state, failed>> PROVE RefsExact'
  BY <1>1 DEF RefsExact
<1>2. CASE TakeLoad \/ FlagLoad \/ ReportLoad \/ UNCHANGED mgrsVars
  BY <1>1, <1>2 DEF TakeLoad, FlagLoad, ReportLoad, mgrsVars, pool, mgrsHistory, Users, Up
<1>3. ASSUME NEW m \in Mgrs, StoppedPool(m) \/ AddLoad(m) \/ WaitForAll(m) PROVE RefsExact'
  BY <1>1, <1>3 DEF StoppedPool, AddLoad, WaitForAll, pool, mgrsHistory, Users, Up
<1>4. ASSUME NEW m \in Mgrs, Sleep(m) \/ Wake(m) \/ EmptyPipe(m) \/ Callbacks(m) \/ CutShort(m)
      PROVE  RefsExact'
  <2>1. Up(m) /\ \E pc \in {"up", "select", "scan"} : Goto(m, pc)
    BY <1>4 DEF Sleep, Wake, EmptyPipe, Callbacks, CutShort, CallsPool, Calls, Up
  <2>2. Users' = Users
    BY <1>0, <2>1, SameUsers
  <2> QED  BY <1>1, <1>4, <2>2 DEF Sleep, Wake, EmptyPipe, Callbacks, CutShort, pool, mgrsHistory
<1>5. ASSUME NEW m \in Mgrs, InitFails(m) PROVE RefsExact'
  BY <1>5 DEF InitFails, RefsExact
<1>6. ASSUME NEW m \in Mgrs, InitOk(m) PROVE RefsExact'
  <2> USE <1>6 DEF InitOk, InitCall
  <2>1. Users' = Users \cup {m} /\ Cardinality(Users') = Cardinality(Users) + 1
    BY <1>0, OneMoreUser DEF Up
  <2>2. state = "none" => Cardinality(Users) = 0
    BY <1>0, FS_EmptySet DEF PoolStates
  <2> QED  BY <1>0, <2>1, <2>2 DEF RefsExact, NewRef, MgrsType
<1>7. ASSUME NEW m \in Mgrs, Release(m) PROVE RefsExact'
  <2> USE <1>7 DEF Release, DestroyMgr, Calls
  <2>1. Users' = Users \ {m} /\ Cardinality(Users') = Cardinality(Users) - 1
    BY <1>0, OneUserLess DEF Up
  <2>2. CASE failed
    BY <2>2 DEF RefsExact
  <2>3. CASE ~failed
    <3>1. nref' = Cardinality(Users') /\ nref' # 0
      BY <1>0, <2>1, <2>3 DEF RefsExact, IsLastRef, MgrsType
    <3>2. Users' # {}
      BY <3>1, FS_EmptySet
    <3> QED  BY <3>1, <3>2 DEF RefsExact
  <2> QED  BY <2>2, <2>3
<1>8. ASSUME NEW m \in Mgrs, ReleaseLast(m) PROVE RefsExact'
  <2> USE <1>8 DEF ReleaseLast, DestroyMgr, Calls
  <2>1. Cardinality(Users') = Cardinality(Users) - 1
    BY <1>0, OneUserLess DEF Up
  <2> QED  BY <1>0, <2>1 DEF RefsExact, MgrsType
<1>9. ASSUME NEW m \in Mgrs, PoolStops(m) PROVE RefsExact'
  <2>1. Users' = Users
    BY <1>0, <1>9 DEF PoolStops, MgrsType, Users, Up, Goto
  <2> QED  BY <1>9, <2>1 DEF PoolStops, RefsExact, mgrsHistory
<1> QED
  BY <1>2, <1>3, <1>4, <1>5, <1>6, <1>7, <1>8, <1>9 DEF MgrsNext

\* For any number of managers: the last one to be destroyed stops the pool, if
\* no reference was lost by a resman_init that failed (resman.c:86-126, 148).
THEOREM LastUserStopsPool == MgrsSpec => []LastStopsPool
<1>1. MgrsInit => RefsExact
  BY FS_EmptySet DEF MgrsInit, RefsExact, Users, Up
<1>2. MgrsInv /\ RefsExact => LastStopsPool
  BY DEF MgrsInv, MgrsType, PoolStates, RefsExact, LastStopsPool
<1> QED  BY <1>1, <1>2, MgrsInvariance, RefsExactStep, PTL DEF MgrsSpec

-----------------------------------------------------------------------------
\* A manager that is not in resman_poll, whether it sleeps yet or not, has its
\* byte for what is done, but for what its own last poll had no time for: it
\* comes to resman_wait with done loads, too.  One that is not up yet has none.
DoneHasByte ==
  /\ done \in [Mgrs -> Nat] /\ cut \in [Mgrs -> Nat]
  /\ \A m \in Mgrs : mgr[m] \in {"up", "select"} /\ done[m] > cut[m] /\ m \notin robbed =>
       wake \/ (at = "report" /\ for = m)
  /\ \A m \in Mgrs : mgr[m] = "none" => done[m] = 0

LEMMA DoneHasByteStep == MgrsInv /\ DoneHasByte /\ [MgrsNext]_mgrsVars => DoneHasByte'
<1> SUFFICES ASSUME MgrsInv, DoneHasByte, [MgrsNext]_mgrsVars PROVE DoneHasByte'
  OBVIOUS
<1>0. mgr \in [Mgrs -> {"none", "up", "select", "scan", "leaving", "gone"}]
  BY DEF MgrsInv, MgrsType
<1>1. CASE TakeLoad \/ UNCHANGED mgrsVars
  BY <1>1 DEF TakeLoad, DoneHasByte, mgrsVars, pool, mgrsHistory
<1>2. CASE FlagLoad
  BY <1>2 DEF FlagLoad, DoneHasByte, Up, mgrsHistory
<1>3. CASE ReportLoad
  BY <1>3 DEF ReportLoad, DoneHasByte, mgrsHistory
<1>4. ASSUME NEW m \in Mgrs, InitOk(m) PROVE DoneHasByte'
  BY <1>0, <1>4 DEF InitOk, InitCall, Goto, DoneHasByte
<1>5. ASSUME NEW m \in Mgrs, InitFails(m) \/ StoppedPool(m) \/ AddLoad(m) \/ WaitForAll(m)
      PROVE  DoneHasByte'
  BY <1>5 DEF InitFails, InitCall, StoppedPool, AddLoad, WaitForAll, DoneHasByte, pool, mgrsHistory
<1>6. ASSUME NEW m \in Mgrs, Sleep(m) \/ Wake(m) PROVE DoneHasByte'
  BY <1>0, <1>6 DEF Sleep, Wake, CallsPool, Calls, Goto, DoneHasByte, pool, mgrsHistory
<1>7. ASSUME NEW m \in Mgrs, EmptyPipe(m) PROVE DoneHasByte'
  BY <1>0, <1>7 DEF EmptyPipe, Goto, DoneHasByte, Users, Up
<1>8. ASSUME NEW m \in Mgrs, Callbacks(m) PROVE DoneHasByte'
  BY <1>0, <1>8 DEF Callbacks, Goto, DoneHasByte, pool
<1>9. ASSUME NEW m \in Mgrs, Release(m) \/ ReleaseLast(m) PROVE DoneHasByte'
  BY <1>0, <1>9 DEF Release, ReleaseLast, DestroyMgr, Goto, DoneHasByte
<1>10. ASSUME NEW m \in Mgrs, PoolStops(m) PROVE DoneHasByte'
  BY <1>0, <1>10 DEF PoolStops, Goto, DoneHasByte, mgrsHistory
<1>11. ASSUME NEW m \in Mgrs, CutShort(m) PROVE DoneHasByte'
  <2>1. PICK left \in 1..done[m]-1 :
          done' = [done EXCEPT ![m] = left] /\ cut' = [cut EXCEPT ![m] = left]
    BY <1>11 DEF CutShort
  <2>2. left \in Nat
    BY DEF DoneHasByte
  <2> QED  BY <1>0, <1>11, <2>1, <2>2 DEF CutShort, Goto, DoneHasByte, pool
<1> QED
  BY <1>1, <1>2, <1>3, <1>4, <1>5, <1>6, <1>7, <1>8, <1>9, <1>10, <1>11 DEF MgrsNext

\* For any number of managers: none sleeps on a finished load, unless another
\* has emptied their pipe, or its own last poll left the load when the time
\* slice was over (resman.c:288, 336-339, 449).
THEOREM SleepersAreWoken == MgrsSpec => []SleeperWakes
<1>1. MgrsInit => DoneHasByte
  BY DEF MgrsInit, DoneHasByte
<1>2. DoneHasByte => SleeperWakes
  BY DEF DoneHasByte, SleeperWakes
<1> QED  BY <1>1, <1>2, MgrsInvariance, DoneHasByteStep, PTL DEF MgrsSpec

-----------------------------------------------------------------------------
\* A worker has the job of a manager that has been up, and the program comes to
\* grief only over one that was destroyed with loads left, or got a stopped pool.
FaultsOk ==
  /\ at = "work" => for \in Mgrs
  /\ \A m \in Mgrs : mgr[m] = "none" => m \in idle
  /\ poolfault = "freed_manager" => for \in hasty
  /\ poolfault = "stopped_pool" => \E m \in reborn : Up(m)

LEMMA FaultsOkStep == MgrsInv /\ FaultsOk /\ [MgrsNext]_mgrsVars => FaultsOk'
<1> SUFFICES ASSUME MgrsInv, FaultsOk, [MgrsNext]_mgrsVars PROVE FaultsOk'
  OBVIOUS
<1> USE DEF FaultsOk
<1>0. /\ mgr \in [Mgrs -> {"none", "up", "select", "scan", "leaving", "gone"}]
      /\ loads \in Seq(Mgrs)
  BY DEF MgrsInv, MgrsType
<1>1. CASE UNCHANGED mgrsVars
  BY <1>1 DEF mgrsVars, pool, mgrsHistory, Up
<1>2. CASE TakeLoad
  <2>1. Head(loads) \in Mgrs
    BY <1>0, <1>2 DEF TakeLoad
  <2> QED  BY <1>2, <2>1 DEF TakeLoad, mgrsHistory, Up
<1>3. CASE FlagLoad
  <2>1. CASE Up(for)
    BY <1>3, <2>1 DEF FlagLoad, mgrsHistory, Up
  <2>2. CASE ~Up(for)
    <3>1. for \in Mgrs /\ at = "work"
      BY <1>3 DEF FlagLoad
    <3>2. for \notin idle
      BY <3>1 DEF MgrsInv, IdleHasNoJobs
    <3>3. mgr[for] \in {"leaving", "gone"}
      BY <1>0, <2>2, <3>1, <3>2 DEF Up
    <3>4. for \in hasty
      BY <3>1, <3>2, <3>3 DEF MgrsInv, GoneIsIdle
    <3> QED  BY <1>3, <2>2, <3>1, <3>4 DEF FlagLoad, mgrsHistory, Up
  <2> QED  BY <2>1, <2>2
<1>4. CASE ReportLoad
  BY <1>4 DEF ReportLoad, mgrsHistory, Up
<1>5. ASSUME NEW m \in Mgrs, StoppedPool(m) PROVE FaultsOk'
  <2>1. m \in reborn
    BY <1>5 DEF StoppedPool, Calls, Up, MgrsInv, PoolRuns
  <2> QED  BY <1>5, <2>1 DEF StoppedPool, Calls, Up, mgrsHistory, pool
<1>6. ASSUME NEW m \in Mgrs, InitOk(m) \/ InitFails(m) PROVE FaultsOk'
  BY <1>0, <1>6 DEF InitOk, InitFails, InitCall, Goto
<1>7. ASSUME NEW m \in Mgrs, AddLoad(m) \/ WaitForAll(m) PROVE FaultsOk'
  BY <1>7 DEF AddLoad, WaitForAll, CallsPool, Calls, pool
<1>8. ASSUME NEW m \in Mgrs, Sleep(m) \/ Wake(m) \/ EmptyPipe(m) \/ Callbacks(m) \/ CutShort(m)
      PROVE  FaultsOk'
  BY <1>0, <1>8 DEF Sleep, Wake, EmptyPipe, Callbacks, CutShort, CallsPool, Calls, Goto, pool,
     mgrsHistory
<1>9. ASSUME NEW m \in Mgrs, Release(m) \/ ReleaseLast(m) PROVE FaultsOk'
  BY <1>0, <1>9 DEF Release, ReleaseLast, DestroyMgr, Calls, Goto
<1>10. ASSUME NEW m \in Mgrs, PoolStops(m) PROVE FaultsOk'
  BY <1>0, <1>10 DEF PoolStops, Goto, mgrsHistory
<1> QED
  BY <1>1, <1>2, <1>3, <1>4, <1>5, <1>6, <1>7, <1>8, <1>9, <1>10 DEF MgrsNext

\* For any number of managers: a worker touches a manager that was freed only if
\* that one was destroyed without a wait_all before, and a call meets a stopped
\* pool only if its manager got it stopped (resman.c:82, 142-148).
THEOREM FaultsHaveCauses ==
  MgrsSpec => [](/\ poolfault = "freed_manager" => for \in hasty
                 /\ poolfault = "stopped_pool" => \E m \in reborn : Up(m))
<1>1. MgrsInit => FaultsOk
  BY DEF MgrsInit, FaultsOk
<1>2. MgrsSpec => []FaultsOk
  BY <1>1, MgrsInvariance, FaultsOkStep, PTL DEF MgrsSpec
<1>3. FaultsOk =>
        /\ poolfault = "freed_manager" => for \in hasty
        /\ poolfault = "stopped_pool" => \E m \in reborn : Up(m)
  BY DEF FaultsOk
<1> QED  BY <1>2, <1>3, PTL
=============================================================================
