------------------------------- MODULE WinPath -------------------------------
(***************************************************************************)
(* How the watcher for Windows (src/filewatch_win32.c) finds the directory *)
(* of a file: clean_path removes "." and ".." from an absolute path, in    *)
(* place, and resman_start_watch cuts the result at its last backslash.    *)
(***************************************************************************)
EXTENDS Integers, Sequences

CONSTANTS Chars,        \* of names; not the separators, and not the NUL at the end
          Drive,        \* what an absolute path begins with
          Names, Files, \* of directories; <<>> is two slashes in a row
          MaxParts      \* a bound on the directories in a path

Dot == <<".">>
DotDot == <<".", ".">>

ASSUME PathAssumption ==
  /\ "." \in Chars /\ Chars \cap {"\\", "/", "NUL"} = {}
  /\ Names \cup Files \cup {Drive} \subseteq Seq(Chars) \ {Dot, DotDot}
  /\ MaxParts \in Nat

VARIABLES parts, fname, \* the path that abs_path returns: directories and file
          path,         \* the buffer, to its NUL
          ptr, dest,    \* offsets in it
          pathpc        \* "slashes", "clean", "cut" or "outside"

pathVars == <<parts, fname, path, ptr, dest, pathpc>>

Parts == Names \cup {Drive, Dot, DotDot}

Up(dirs) == SubSeq(dirs, 1, Len(dirs) - 1)

\* Directories, each with a separator after it.
Join[dirs \in Seq(Parts)] ==
  IF dirs = <<>> THEN <<>> ELSE Join[Up(dirs)] \o Append(dirs[Len(dirs)], "\\")

Dirs == <<Drive>> \o parts
AbsPath == Join[Dirs] \o fname \o <<"NUL">>

PathInit ==
  /\ \E n \in 0..MaxParts : parts \in [1..n -> Names \cup {Dot, DotDot}]
  /\ fname \in Files
  /\ \E sep \in {"/", "\\"} :
       path = [k \in DOMAIN AbsPath |-> IF AbsPath[k] = "\\" THEN sep ELSE AbsPath[k]]
  /\ ptr = 0 /\ dest = 0
  /\ pathpc = "slashes"

-----------------------------------------------------------------------------
\* The first pass.
Slashes ==
  /\ pathpc = "slashes"
  /\ path' = [k \in DOMAIN path |-> IF path[k] = "/" THEN "\\" ELSE path[k]]
  /\ pathpc' = "clean"
  /\ UNCHANGED <<parts, fname, ptr, dest>>

\* Does s lie at ptr, just after a slash?
AfterSlash(s) ==
  /\ pathpc = "clean" /\ ptr > 0 /\ path[ptr] = "\\"
  /\ ptr + Len(s) <= Len(path) /\ SubSeq(path, ptr + 1, ptr + Len(s)) = s

SkipDot ==
  /\ AfterSlash(<<".", "\\">>)
  /\ ptr' = ptr + 2
  /\ UNCHANGED <<parts, fname, path, dest, pathpc>>

\* Mutant: one step back, to the slash just passed.
Back_One == dest - 1

\* Where the search for the previous slash starts.
Back == dest - 2

\* Just after the slash, or at the beginning.
PreviousPart ==
  IF \E k \in 0..Back : path[k + 1] = "\\"
  THEN 1 + CHOOSE k \in 0..Back : path[k + 1] = "\\" /\ \A l \in k+1..Back : path[l + 1] # "\\"
  ELSE 0

\* Before the buffer the search reads, and may then write, what is not its own.
SkipDotDot ==
  /\ AfterSlash(<<".", ".", "\\">>)
  /\ IF Back < 0 THEN pathpc' = "outside" /\ UNCHANGED <<ptr, dest>>
     ELSE dest' = PreviousPart /\ ptr' = ptr + 3 /\ UNCHANGED pathpc
  /\ UNCHANGED <<parts, fname, path>>

CopyChar ==
  /\ pathpc = "clean" /\ path[ptr + 1] # "NUL"
  /\ ~AfterSlash(<<".", "\\">>) /\ ~AfterSlash(<<".", ".", "\\">>)
  /\ path' = [path EXCEPT ![dest + 1] = path[ptr + 1]]
  /\ ptr' = ptr + 1 /\ dest' = dest + 1
  /\ UNCHANGED <<parts, fname, pathpc>>

\* No NUL is written at dest; strrchr finds the last slash before the old one.
LastSlash == CHOOSE k \in DOMAIN path : path[k] = "\\" /\ \A l \in k+1..Len(path) : path[l] # "\\"

Cut ==
  /\ pathpc = "clean" /\ path[ptr + 1] = "NUL"
  /\ pathpc' = "cut"
  /\ path' = IF \E k \in DOMAIN path : path[k] = "\\" THEN SubSeq(path, 1, LastSlash) ELSE path
  /\ UNCHANGED <<parts, fname, ptr, dest>>

PathNext == Slashes \/ SkipDot \/ SkipDotDot \/ CopyChar \/ Cut

PathSpec == PathInit /\ [][PathNext]_pathVars

-----------------------------------------------------------------------------
\* The directory above: an empty name is none, since two slashes are as one.
Parent(dirs) ==
  LET named == {k \in 1..Len(dirs) : dirs[k] # <<>>} IN
    IF named = {} THEN <<>>
    ELSE SubSeq(dirs, 1, (CHOOSE k \in named : \A l \in named : l <= k) - 1)

\* The directories that are left when every ".." leads to the one above.
Kept[dirs \in Seq(Parts)] ==
  IF dirs = <<>> THEN <<>>
  ELSE LET d == dirs[Len(dirs)]
           above == Kept[Up(dirs)]
       IN CASE d = Dot -> above [] d = DotDot -> Parent(above) [] OTHER -> Append(above, d)

\* Does a ".." take the drive?
Climbs == \E k \in 1..Len(Dirs) : Kept[SubSeq(Dirs, 1, k)] = <<>>

\* Does a ".." meet two slashes in a row?  The code goes back between the two
\* only, and so from c:\d\\..\f to c:\d.
MeetsTwoSlashes ==
  \E k \in 2..Len(Dirs) : LET kept == Kept[SubSeq(Dirs, 1, k - 1)] IN
    Dirs[k] = DotDot /\ kept # <<>> /\ kept[Len(kept)] = <<>>

\* What start_watch gets is the file's directory, and clean_path stays inside
\* its buffer.  The path may not climb above its drive, and none of its ".." may
\* come after two slashes in a row: there the code finds another directory.
\* Nor does it find it unless the file's name is at least as long as what was
\* removed, so that no slash of the old path is left behind the new one
\* (filewatch_win32.c:326-356, 77-81).
DirectoryIsFound ==
  ~Climbs /\ ~MeetsTwoSlashes =>
    /\ pathpc # "outside"
    /\ pathpc = "cut" /\ ptr - dest <= Len(fname) => path = Join[Kept[Dirs]]

=============================================================================
