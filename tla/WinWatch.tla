------------------------------- MODULE WinWatch ------------------------------
(***************************************************************************)
(* The file watcher for Windows (src/filewatch_win32.c).  Directories are  *)
(* watched, not files: a struct watch_dir has an event, a read of changes  *)
(* that is outstanding or has completed, and the list of its resources.    *)
(* Of the manager there is what calls the watcher: the done callback,      *)
(* after each load, the poll and the removal.  Handles are not used again  *)
(* by the system, the directories can be opened, and memory does not run   *)
(* out.  The program is followed up to its first fault.                    *)
(***************************************************************************)
EXTENDS Integers, Sequences, FiniteSets, Maps

CONSTANTS WinObjs,   \* resources
          DirOf,     \* the directory of each
          Confused,  \* pairs <<r, s>>: the name of s contains the file name of r
          MaxWrites  \* a bound on the changes on disk

ASSUME WinAssumption == IsFiniteSet(WinObjs) /\ Confused \subseteq WinObjs \X WinObjs

PoolEvent == 0  \* tpool_wait_handle

VARIABLES
  watchdirs,    \* nref, items (the newest first) and event of each directory
  wait_handles, \* the events that are waited for
  closed,       \* those among all events that were closed
  results, backlog, \* by event: files in a completed read; changes after it
  pooldone,     \* is the pool's event set?
  watched,      \* the resources with a watch_path
  freed, winreloads, \* freed; with a job in the pool
  windone,      \* loaded, with the done callback to come
  winfault,     \* "none", "null_deref" or "use_after_free"
  nextevent, writes,
  winstale,     \* history: changed while watched, and not loaded since
  again,        \* history: was the watch of a resource started again?
  lost          \* history: the resources whose item was lost with another's

tables == <<watchdirs, wait_handles, closed, nextevent>>
reads == <<results, backlog>>
objects == <<watched, freed, winreloads, windone>>
winhistory == <<writes, winstale, again>>
winVars == <<tables, reads, pooldone, objects, winfault, winhistory, lost>>

-----------------------------------------------------------------------------
\* Completion: a read returns what has happened since the last one.
Arm(ev) ==
  /\ results' = Put(results, ev, backlog[ev])
  /\ backlog' = Put(backlog, ev, <<>>)

Modify(r) ==
  /\ winfault = "none" /\ writes < MaxWrites /\ writes' = writes + 1
  /\ LET d == DirOf[r] IN
       IF d \notin DOMAIN watchdirs THEN UNCHANGED reads
       ELSE LET ev == watchdirs[d].event IN
         IF results[ev] = <<>> THEN results' = [results EXCEPT ![ev] = <<r>>] /\ UNCHANGED backlog
         ELSE backlog' = [backlog EXCEPT ![ev] = Append(@, r)] /\ UNCHANGED results
  /\ winstale' = IF r \in watched \ freed THEN winstale \cup {r} ELSE winstale
  /\ UNCHANGED <<tables, pooldone, objects, winfault, again, lost>>

\* A worker loads the file and reports: its event resets when it is seen.
WinLoad(r) ==
  /\ winfault = "none" /\ r \in winreloads
  /\ winreloads' = winreloads \ {r} /\ windone' = windone \cup {r}
  /\ winstale' = winstale \ {r}
  /\ pooldone' = TRUE
  /\ UNCHANGED <<tables, reads, watched, freed, winfault, writes, again, lost>>

-----------------------------------------------------------------------------
(* resman_start_watch, which the poll calls after every done callback.     *)

StartCall(r) ==
  /\ winfault = "none" /\ r \in windone
  /\ windone' = windone \ {r}
  /\ watched' = watched \cup {r}
  /\ again' = (again \/ r \in watched)
  /\ UNCHANGED <<closed, pooldone, freed, winreloads, winfault, writes, winstale, lost>>

StartInDir(r) ==
  /\ StartCall(r) /\ DirOf[r] \in DOMAIN watchdirs
  /\ watchdirs' = [watchdirs EXCEPT ![DirOf[r]].nref = @ + 1,
                                    ![DirOf[r]].items = <<r>> \o @]
  /\ UNCHANGED <<wait_handles, nextevent, reads>>

StartDir(r) ==
  /\ StartCall(r) /\ DirOf[r] \notin DOMAIN watchdirs
  /\ watchdirs' = Put(watchdirs, DirOf[r],
                     [nref |-> 1, items |-> <<r>>, event |-> nextevent])
  /\ wait_handles' = Append(wait_handles, nextevent)
  /\ nextevent' = nextevent + 1
  /\ results' = Put(results, nextevent, <<>>) /\ backlog' = Put(backlog, nextevent, <<>>)

-----------------------------------------------------------------------------
(* resman_stop_watch, by remove_resource, which then frees the resource.   *)

StopCall(r) ==
  /\ winfault = "none" /\ r \notin freed \cup winreloads
  /\ UNCHANGED <<wait_handles, nextevent, reads, pooldone, watched, winreloads,
                 winhistory>>

Free(r) == freed' = freed \cup {r} /\ windone' = windone \ {r} /\ UNCHANGED winfault
Crash == winfault' = "null_deref" /\ UNCHANGED <<freed, windone>>

StopUnwatched(r) ==
  /\ StopCall(r) /\ r \notin watched
  /\ Free(r)
  /\ UNCHANGED <<watchdirs, closed, lost>>

\* Mutant: a directory goes with the first of its resources.
IsLast_Always(r) == TRUE

IsLast(r) == watchdirs[DirOf[r]].nref <= 1

\* The last one closes the directory.  Its event stays in wait_handles, which
\* is searched for the handle of the directory, and rb_delete of the only key
\* dereferences NULL.
StopDir(r) ==
  /\ StopCall(r) /\ r \in watched /\ IsLast(r)
  /\ \/ /\ DOMAIN watchdirs # {DirOf[r]}
        /\ watchdirs' = [d \in DOMAIN watchdirs \ {DirOf[r]} |-> watchdirs[d]]
        /\ closed' = closed \cup {watchdirs[DirOf[r]].event}
        /\ Free(r)
     \/ DOMAIN watchdirs = {DirOf[r]} /\ Crash /\ UNCHANGED <<watchdirs, closed>>
  /\ UNCHANGED lost

\* Mutant: the first item stays.
Unlinked_NotFirst(items, r) ==
  IF \E k \in 2..Len(items) : items[k] = r
  THEN LET k == CHOOSE k \in 2..Len(items) : items[k] = r /\ \A j \in 2..k-1 : items[j] # r
       IN <<items[1]>> \o SubSeq(items, k + 1, Len(items))
  ELSE items

\* Unless r is first, the first item's next is set to what follows r: wprev does
\* not move, so the items between are lost.
Unlinked(items, r) ==
  IF items[1] = r THEN Tail(items)
  ELSE IF \E k \in 2..Len(items) : items[k] = r
  THEN LET k == CHOOSE k \in 2..Len(items) : items[k] = r /\ \A j \in 2..k-1 : items[j] # r
       IN <<items[1]>> \o SubSeq(items, k + 1, Len(items))
  ELSE items

StopItem(r) ==
  /\ StopCall(r) /\ r \in watched /\ ~IsLast(r)
  /\ LET wdir == watchdirs[DirOf[r]] IN
       IF wdir.items = <<>> THEN Crash /\ UNCHANGED <<watchdirs, lost>>
       ELSE LET items == Unlinked(wdir.items, r) IN
            /\ watchdirs' = [watchdirs EXCEPT ![DirOf[r]] =
                 [wdir EXCEPT !.nref = @ - 1, !.items = items]]
            /\ lost' = lost \cup ({wdir.items[k] : k \in DOMAIN wdir.items}
                                 \ ({items[k] : k \in DOMAIN items} \cup {r}))
            /\ Free(r)
  /\ UNCHANGED closed

-----------------------------------------------------------------------------
(* resman_check_watch.  A closed handle fails the wait for all of them.    *)

IsSet(ev) == IF ev = PoolEvent THEN pooldone ELSE results[ev] # <<>>
CanWait == closed \cap {wait_handles[k] : k \in DOMAIN wait_handles} = {}

\* The wait returns the first handle that is set.
Check(ev) ==
  /\ winfault = "none" /\ CanWait
  /\ \E k \in DOMAIN wait_handles :
       /\ wait_handles[k] = ev /\ IsSet(ev)
       /\ \A j \in 1..k-1 : ~IsSet(wait_handles[j])
  /\ UNCHANGED <<tables, watched, freed, windone, winhistory, lost>>

CheckPool ==
  /\ Check(PoolEvent)
  /\ pooldone' = FALSE
  /\ UNCHANGED <<reads, winreloads, winfault>>

\* strstr(witem->res->name, name)
Matches(item, r) == item = r \/ <<r, item>> \in Confused
Match(items, r) ==
  {k \in DOMAIN items : Matches(items[k], r) /\ \A j \in 1..k-1 : ~Matches(items[j], r)}

\* The search reads every item's resource up to the match.
Dangles(items, r) ==
  \E j \in DOMAIN items : items[j] \in freed /\ \A k \in Match(items, r) : j <= k

\* Mutant: changes that have come since are dropped.
Rearm_Drops(ev) ==
  results' = [results EXCEPT ![ev] = <<>>] /\ backlog' = [backlog EXCEPT ![ev] = <<>>]

Rearm(ev) == Arm(ev)

\* handle_event reloads the first match of each file in the result (and the
\* last one again for a file that has none: res is not reset); then the next
\* read is started.
CheckDir(d) ==
  LET wdir == watchdirs[d]
      files == {results[wdir.event][k] : k \in DOMAIN results[wdir.event]}
  IN /\ Check(wdir.event)
     /\ IF \E r \in files : Dangles(wdir.items, r)
        THEN winfault' = "use_after_free" /\ UNCHANGED <<winreloads, reads>>
        ELSE /\ winreloads' = winreloads \cup
                  {wdir.items[k] : k \in UNION {Match(wdir.items, r) : r \in files}}
             /\ Rearm(wdir.event)
             /\ UNCHANGED winfault
     /\ UNCHANGED pooldone

CheckDirs == CheckPool \/ \E d \in DOMAIN watchdirs : CheckDir(d)

WinInit ==
  /\ watchdirs = <<>> /\ wait_handles = <<PoolEvent>> /\ closed = {} /\ nextevent = 1
  /\ results = <<>> /\ backlog = <<>> /\ pooldone = FALSE
  /\ watched = {} /\ freed = {} /\ winreloads = {} /\ windone = WinObjs
  /\ winfault = "none" /\ writes = 0 /\ winstale = {}
  /\ again = FALSE /\ lost = {}

WinStart(r) == StartInDir(r) \/ StartDir(r)

WinNext ==
  \/ CheckDirs
  \/ \E r \in WinObjs : \/ Modify(r) \/ WinLoad(r) \/ WinStart(r)
                        \/ StopUnwatched(r) \/ StopDir(r) \/ StopItem(r)

WinFairness ==
  /\ WF_winVars(CheckDirs)
  /\ \A r \in WinObjs : WF_winVars(WinLoad(r)) /\ WF_winVars(WinStart(r))

WinSpec == WinInit /\ [][WinNext]_winVars /\ WinFairness

-----------------------------------------------------------------------------
\* A resource that is watched has its directory in watchdirs, and the directory
\* an open event that is waited for, however many of its resources came, were
\* loaded again and went (filewatch_win32.c:84-85, 163).
DirsAreWatched ==
  winfault = "none" =>
    /\ \A r \in watched \ freed : DirOf[r] \in DOMAIN watchdirs
    /\ \A d \in DOMAIN watchdirs : watchdirs[d].event \notin closed
         /\ \E k \in DOMAIN wait_handles : wait_handles[k] = watchdirs[d].event

\* The items of a directory are live resources, unless some resource was loaded
\* a second time: its second item outlives it (resman.c:330, which has no
\* guard on Windows; filewatch_win32.c:125-131, 188-204).
ItemsAreLive ==
  ~again => \A d \in DOMAIN watchdirs :
    \A k \in DOMAIN watchdirs[d].items : watchdirs[d].items[k] \notin freed

Found(r) == CanWait /\ r \notin lost /\ ~\E s \in WinObjs \ {r} : <<r, s>> \in Confused

\* A change of a watched file is followed by a load of it: unless a directory
\* was given up, whose closed event fails every wait; the resource's item was
\* lost with another's; or its file name is part of another resource's name.
WinChangeIsReloaded ==
  \A r \in WinObjs : r \in winstale ~>
    r \notin winstale \/ r \in freed \/ winfault # "none" \/ ~Found(r)

=============================================================================
