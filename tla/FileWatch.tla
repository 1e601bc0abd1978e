------------------------------ MODULE FileWatch ------------------------------
(***************************************************************************)
(* The file watcher for Linux (src/filewatch_linux.c), from the changes on *)
(* disk through inotify to the reload of a resource.  A name leads to an   *)
(* inode, or to none; the kernel watches inodes, each by a descriptor wd   *)
(* that is not used again; nresmap leads from wd to resource, and keeps    *)
(* the old key when a file was replaced.  No two resources have one file.  *)
(* Of what resman_poll does around the watcher there is the removal of     *)
(* resources, the first watch, and the delayed reload.  The program is     *)
(* followed up to its first fault.                                         *)
(***************************************************************************)
EXTENDS Integers, Sequences, FiniteSets, Maps

CONSTANTS Objs,       \* the resources, loaded for the first time
          NoEvent,
          MaxChanges  \* a bound on the changes on disk

ASSUME WatchAssumption ==
  IsFiniteSet(Objs) /\ NoEvent \notin [wd : Int, kind : {"modify", "written", "ignored"}]

VARIABLES
  inode,    \* what the name of each resource leads to, 0 if to nothing
  watching, \* the kernel's watches: inode by wd
  events,   \* what can be read from inotify_fd
  nfd,      \* the wd in each resource; -1 once it was removed
  nresmap, modset,
  timer,    \* reload_timeout: "off", "armed" (in the future) or "due"
  wstep,    \* where resman_poll is: "idle", "read", "junk", "scan"
  buf,      \* the event that was read, or NoEvent
  reloads,  \* the resources that have a job in the pool
  fault,    \* "none", "assert", "null_deref" or "use_after_free"
  nextwd, nextinode, changes,
  stale,    \* history: changed while tracked, and not loaded since
  several,  \* history: has a read returned several events?
  twice,    \* history: was a file replaced after this check began to watch it?
  misread   \* history: has this check taken junk for IN_CLOSE_WRITE?

disk == <<inode, nextinode, changes, stale, twice>>
kernel == <<watching, events, nextwd>>
resource == <<nfd, nresmap, timer, reloads>>
check == <<modset, wstep, buf, several, misread>>
watchVars == <<disk, kernel, resource, check, fault>>

Event == [wd : 1..nextwd, kind : {"modify", "written", "ignored"}]
Tracked(o) == nfd[o] > 0 /\ nfd[o] \in DOMAIN nresmap

-----------------------------------------------------------------------------
(* The disk and the kernel.                                                *)

WdOf(n) == {wd \in DOMAIN watching : watching[wd] = n}

\* An event that repeats the last one is not queued.
Post(q, wds, kind) ==
  IF wds = {} \/ (q # <<>> /\ q[Len(q)] \in [wd : wds, kind : {kind}]) THEN q
  ELSE Append(q, [wd |-> CHOOSE wd \in wds : TRUE, kind |-> kind])

\* The watch, if there is one, goes with its inode.
Unwatch(wds) ==
  /\ watching' = [wd \in DOMAIN watching \ wds |-> watching[wd]]
  /\ events' = Post(events, wds \cap DOMAIN watching, "ignored")

Change(o) ==
  /\ fault = "none" /\ changes < MaxChanges /\ nfd[o] # -1
  /\ changes' = changes + 1
  /\ UNCHANGED <<nextwd, resource, check, fault>>

Notice(o) == stale' = IF Tracked(o) THEN stale \cup {o} ELSE stale

Write(o) ==
  /\ Change(o) /\ inode[o] # 0
  /\ events' = Post(events, WdOf(inode[o]), "modify")
  /\ Notice(o)
  /\ UNCHANGED <<inode, nextinode, watching, twice>>

\* A new file under the old name, as vim writes it, or where there was none.
Replace(o) ==
  /\ Change(o)
  /\ inode' = [inode EXCEPT ![o] = nextinode] /\ nextinode' = nextinode + 1
  /\ Unwatch(WdOf(inode[o]))
  /\ Notice(o)
  /\ twice' = (twice \/ nfd[o] \in modset)

Unlink(o) ==
  /\ Change(o) /\ inode[o] # 0
  /\ inode' = [inode EXCEPT ![o] = 0]
  /\ Unwatch(WdOf(inode[o]))
  /\ UNCHANGED <<nextinode, stale, twice>>

-----------------------------------------------------------------------------
(* The watcher.                                                            *)

\* inotify_add_watch, which gives an inode that is watched the wd it has.
NewWd(o) == IF WdOf(inode[o]) = {} THEN nextwd ELSE CHOOSE wd \in WdOf(inode[o]) : TRUE

\* resman_start_watch, of a resource whose nfd is 0 and whose file is there.
AddWatch(o) ==
  /\ inode[o] # 0
  /\ watching' = Put(watching, NewWd(o), inode[o])
  /\ nextwd' = IF WdOf(inode[o]) = {} THEN nextwd + 1 ELSE nextwd
  /\ nresmap' = Put(nresmap, NewWd(o), o)
  /\ nfd' = [nfd EXCEPT ![o] = NewWd(o)]
  /\ UNCHANGED events

\* rb_deletei of the only key, or of one that is not there, dereferences NULL.
CanDelete(wd) == wd \in DOMAIN nresmap /\ DOMAIN nresmap # {wd}
DeleteKey(wd) == nresmap' = [k \in DOMAIN nresmap \ {wd} |-> nresmap[k]]

\* The first watch, after the first load.
Start(o) ==
  /\ wstep = "idle" /\ nfd[o] = 0
  /\ AddWatch(o)
  /\ UNCHANGED <<disk, timer, reloads, check, fault>>

CanRemove(o) == wstep = "idle" /\ nfd[o] # -1 /\ o \notin reloads

\* Mutant: the key stays.
Remove_KeepsKey(o) ==
  /\ CanRemove(o)
  /\ Unwatch({nfd[o]})
  /\ nfd' = [nfd EXCEPT ![o] = -1]
  /\ UNCHANGED <<disk, nextwd, nresmap, timer, reloads, check, fault>>

\* remove_resource and resman_stop_watch: the resource is freed.
Remove(o) ==
  /\ CanRemove(o) /\ (nfd[o] = 0 \/ CanDelete(nfd[o]))
  /\ DeleteKey(nfd[o])
  /\ Unwatch({nfd[o]})
  /\ nfd' = [nfd EXCEPT ![o] = -1]
  /\ UNCHANGED <<disk, nextwd, timer, reloads, check, fault>>

RemoveCrashes(o) ==
  /\ CanRemove(o) /\ nfd[o] # 0 /\ ~CanDelete(nfd[o])
  /\ fault' = "null_deref"
  /\ UNCHANGED <<disk, kernel, resource, check>>

Poll ==
  /\ wstep = "idle"
  /\ wstep' = "read" /\ twice' = FALSE /\ misread' = FALSE
  /\ UNCHANGED <<inode, nextinode, changes, stale, kernel, resource, modset, buf, several,
                 fault>>

\* A read takes all there is.
Read ==
  /\ wstep = "read" /\ buf = NoEvent /\ events # <<>>
  /\ buf' = Head(events) /\ events' = <<>>
  /\ wstep' = IF Len(events) > 1 THEN "junk" ELSE "read"
  /\ several' = (several \/ Len(events) > 1)
  /\ UNCHANGED <<disk, watching, nextwd, resource, modset, misread, fault>>

\* ev += evsize goes 16 times too far: what comes after the first event is not
\* the second, but what lies 256 bytes on in the buffer, where most reads have
\* written nothing, or beyond it, if it passes for an event, or for several.
Junk ==
  /\ wstep = "junk" /\ buf = NoEvent
  /\ buf' \in Event
  /\ UNCHANGED <<disk, kernel, resource, modset, wstep, several, misread, fault>>

JunkEnds ==
  /\ wstep = "junk" /\ buf = NoEvent
  /\ wstep' = "read"
  /\ UNCHANGED <<disk, kernel, resource, modset, buf, several, misread, fault>>

Handle(o) ==
  /\ buf # NoEvent /\ buf.wd \in DOMAIN nresmap /\ nresmap[buf.wd] = o
  /\ buf' = NoEvent
  /\ UNCHANGED <<disk, reloads, wstep, several>>

Unknown ==
  /\ buf # NoEvent /\ buf.wd \notin DOMAIN nresmap
  /\ buf' = NoEvent
  /\ UNCHANGED <<disk, kernel, resource, modset, wstep, several, misread, fault>>

Dangling(o) ==
  /\ Handle(o) /\ nfd[o] = -1
  /\ fault' = "use_after_free"
  /\ UNCHANGED <<kernel, nfd, nresmap, timer, modset, misread>>

Modified(o) ==
  /\ Handle(o) /\ nfd[o] # -1 /\ buf.kind = "modify"
  /\ timer' = [timer EXCEPT ![o] = "armed"]
  /\ UNCHANGED <<kernel, nfd, nresmap, modset, misread, fault>>

\* IN_CLOSE_WRITE, which no watch asks for: only junk has it.
Written(o) ==
  /\ Handle(o) /\ nfd[o] # -1 /\ buf.kind = "written"
  /\ modset' = modset \cup {buf.wd} /\ misread' = TRUE
  /\ timer' = [timer EXCEPT ![o] = "off"]
  /\ UNCHANGED <<kernel, nfd, nresmap, fault>>

\* Mutants: the new file is read, and not watched; watched, and not read.
Restarted_NotWatched(o) ==
  /\ Handle(o) /\ nfd[o] # -1 /\ buf.kind = "ignored"
  /\ inode[o] # 0
  /\ modset' = modset \cup {nfd[o]}
  /\ UNCHANGED <<kernel, nfd, nresmap, timer, misread, fault>>

Restarted_NotRead(o) ==
  /\ Handle(o) /\ nfd[o] # -1 /\ buf.kind = "ignored"
  /\ AddWatch(o)
  /\ UNCHANGED <<timer, modset, misread, fault>>

\* The file was deleted, and its name leads to a new one.
Restarted(o) ==
  /\ Handle(o) /\ nfd[o] # -1 /\ buf.kind = "ignored"
  /\ AddWatch(o)
  /\ modset' = modset \cup {NewWd(o)}
  /\ UNCHANGED <<timer, misread, fault>>

\* It is gone: stop_watch, with the old nfd, which stays.
Dropped(o) ==
  /\ Handle(o) /\ nfd[o] # -1 /\ buf.kind = "ignored" /\ inode[o] = 0
  /\ IF CanDelete(nfd[o]) THEN DeleteKey(nfd[o]) /\ UNCHANGED fault
     ELSE fault' = "null_deref" /\ UNCHANGED nresmap
  /\ UNCHANGED <<kernel, nfd, timer, modset, misread>>

\* Mutant: modset is not cleared.
Flush_Keeps ==
  /\ wstep = "read" /\ buf = NoEvent /\ events = <<>>
  /\ wstep' = "scan" /\ UNCHANGED modset
  /\ LET found == modset \cap DOMAIN nresmap IN
       IF \A wd \in found : nfd[nresmap[wd]] = wd
       THEN reloads' = reloads \cup {nresmap[wd] : wd \in found} /\ UNCHANGED fault
       ELSE fault' = "assert" /\ UNCHANGED reloads
  /\ UNCHANGED <<disk, kernel, nfd, nresmap, timer, buf, several, misread>>

\* Nothing more to read: reload what is in modset, and clear it.
Flush ==
  /\ wstep = "read" /\ buf = NoEvent /\ events = <<>>
  /\ wstep' = "scan" /\ modset' = {}
  /\ LET found == modset \cap DOMAIN nresmap IN
       IF \A wd \in found : nfd[nresmap[wd]] = wd
       THEN reloads' = reloads \cup {nresmap[wd] : wd \in found} /\ UNCHANGED fault
       ELSE fault' = "assert" /\ UNCHANGED reloads
  /\ UNCHANGED <<disk, kernel, nfd, nresmap, timer, buf, several, misread>>

\* The end of resman_poll: delayed reloads.
Scan ==
  /\ wstep = "scan"
  /\ LET due == {o \in Objs : timer[o] = "due" /\ nfd[o] # -1} IN
       /\ reloads' = reloads \cup due
       /\ timer' = [o \in Objs |-> IF o \in due THEN "off" ELSE timer[o]]
  /\ wstep' = "idle"
  /\ UNCHANGED <<disk, kernel, nfd, nresmap, modset, buf, several, misread, fault>>

TimeUp(o) ==
  /\ fault = "none" /\ timer[o] = "armed"
  /\ timer' = [timer EXCEPT ![o] = "due"]
  /\ UNCHANGED <<disk, kernel, nfd, nresmap, reloads, check, fault>>

\* A worker runs the load callback, which reads the file.
Load(o) ==
  /\ fault = "none" /\ o \in reloads
  /\ reloads' = reloads \ {o} /\ stale' = stale \ {o}
  /\ UNCHANGED <<inode, nextinode, changes, twice, kernel, nfd, nresmap, timer, check, fault>>

CheckStep ==
  /\ fault = "none"
  /\ \/ Poll \/ Read \/ Junk \/ JunkEnds \/ Unknown \/ Flush \/ Scan
     \/ \E o \in Objs :
          Dangling(o) \/ Modified(o) \/ Written(o) \/ Restarted(o) \/ Dropped(o)

WatchInit ==
  /\ inode = CHOOSE f \in [Objs -> 1..Cardinality(Objs)] : \A o, p \in Objs : f[o] = f[p] => o = p
  /\ nextinode = Cardinality(Objs) + 1 /\ nextwd = 1
  /\ watching = <<>> /\ events = <<>> /\ nresmap = <<>>
  /\ nfd = [o \in Objs |-> 0] /\ timer = [o \in Objs |-> "off"]
  /\ modset = {} /\ reloads = {} /\ stale = {} /\ changes = 0
  /\ wstep = "idle" /\ buf = NoEvent
  /\ fault = "none" /\ several = FALSE /\ twice = FALSE /\ misread = FALSE

WatchNext ==
  \/ CheckStep
  \/ \E o \in Objs :
       \/ Write(o) \/ Replace(o) \/ Unlink(o) \/ TimeUp(o) \/ Load(o)
       \/ fault = "none" /\ (Start(o) \/ Remove(o) \/ RemoveCrashes(o))

\* The application polls, time passes, and the workers load.  A check comes to
\* the end of its buffer, however much junk it meets.
WatchFairness ==
  /\ WF_watchVars(CheckStep) /\ SF_watchVars(fault = "none" /\ JunkEnds)
  /\ \A o \in Objs : WF_watchVars(TimeUp(o)) /\ WF_watchVars(Load(o))

WatchSpec == WatchInit /\ [][WatchNext]_watchVars /\ WatchFairness

-----------------------------------------------------------------------------
\* No event that is still to come leads to a resource that was freed, though
\* keys of files that were replaced stay in the tree, and events of a watch
\* that was stopped in the queue (filewatch_linux.c:78, 87-88).
FoundIsLive ==
  \A k \in 1..Len(events) : events[k].wd \in DOMAIN nresmap =>
    nfd[nresmap[events[k].wd]] # -1

\* A resource that is tracked is watched: the kernel watches what its name
\* leads to, or will say that it does not, unless that event was lost with
\* others of one read.
TrackedIsWatched ==
  \A o \in Objs : Tracked(o) /\ ~several /\ fault = "none" =>
    \/ nfd[o] \in DOMAIN watching /\ watching[nfd[o]] = inode[o]
    \/ \E k \in 1..Len(events) : events[k] = [wd |-> nfd[o], kind |-> "ignored"]
    \/ buf = [wd |-> nfd[o], kind |-> "ignored"]

\* The assertion of reload_modified fails only if, in the same check, a file
\* was replaced again after the check had begun to watch it anew, or junk was
\* taken for IN_CLOSE_WRITE (filewatch_linux.c:115-121, 126-141, 172).
AssertHasCause == fault = "assert" => twice \/ misread

Settled(o) == o \notin stale \/ inode[o] = 0 \/ ~Tracked(o) \/ fault # "none"

\* A change of a watched file is followed by a load of it, unless the file is
\* deleted or the resource removed.
ChangeIsReloaded == \A o \in Objs : o \in stale ~> Settled(o)

\* ... as it is if each read returns a single event.
LoneChangeIsReloaded == \A o \in Objs : o \in stale ~> (Settled(o) \/ several)

=============================================================================
