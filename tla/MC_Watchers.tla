----------------------------- MODULE MC_Watchers -----------------------------
(* Small instances for TLC of the two file watchers and of the cleaning of *)
(* paths, one at a time.                                                   *)
EXTENDS FileWatch, WinWatch, WinPath, TLC

CONSTANTS a, b, c, e

VARIABLE which

TwoObjs == {a, b}
FourObjs == {a, b, c, e}
TwoDirs == a :> "d1" @@ b :> "d1" @@ c :> "d1" @@ e :> "d2"
Letters == {"c", ":", "d", "f", "."}
Disk == <<"c", ":">>
ThreeNames == {<<>>, <<"d">>, <<".", "d">>}
ThreeFiles == {<<"f">>, <<"f", "f", "f">>, <<"f", "f", "f", "f", "f">>}
OnePair == {<<a, b>>}  \* a file name that is part of another's

watchersVars == <<which, watchVars, winVars, pathVars>>

\* The path of one that is not checking paths.
NoPath == parts = <<>> /\ fname = <<>> /\ path = <<>> /\ ptr = 0 /\ dest = 0 /\ pathpc = "none"

WatchersInit ==
  /\ which \in {"linux", "win32", "path"}
  /\ WatchInit /\ WinInit
  /\ IF which = "path" THEN PathInit ELSE NoPath

Linux(A) == which = "linux" /\ A /\ UNCHANGED <<which, winVars, pathVars>>
Win32(A) == which = "win32" /\ A /\ UNCHANGED <<which, watchVars, pathVars>>

WatchersNext ==
  \/ which = "linux" /\ WatchNext /\ UNCHANGED <<which, winVars, pathVars>>
  \/ which = "win32" /\ WinNext /\ UNCHANGED <<which, watchVars, pathVars>>
  \/ which = "path" /\ PathNext /\ UNCHANGED <<which, watchVars, winVars>>

\* The fairness of FileWatch and of WinWatch, for the one that runs, but for
\* the end of the junk.
WatchersSpec ==
  /\ WatchersInit /\ [][WatchersNext]_watchersVars
  /\ WF_watchersVars(Linux(CheckStep))
  /\ \A o \in Objs : WF_watchersVars(Linux(TimeUp(o))) /\ WF_watchersVars(Linux(Load(o)))
  /\ WF_watchersVars(Win32(CheckDirs))
  /\ \A r \in WinObjs : WF_watchersVars(Win32(WinLoad(r))) /\ WF_watchersVars(Win32(WinStart(r)))

\* ... with it.
EndingSpec == WatchersSpec /\ SF_watchersVars(Linux(fault = "none" /\ JunkEnds))
=============================================================================
