SPECIFICATION WatchersSpec
CONSTANTS
  a = a  b = b  c = c  e = e  NoEvent = NoEvent
  Objs <- TwoObjs
  MaxChanges = 2
  WinObjs <- FourObjs
  DirOf <- TwoDirs
  Confused <- OnePair
  MaxWrites = 2
  Chars <- Letters  Drive <- Disk  Names <- ThreeNames  Files <- ThreeFiles
  MaxParts = 4
CHECK_DEADLOCK FALSE
INVARIANTS FoundIsLive TrackedIsWatched AssertHasCause DirsAreWatched ItemsAreLive DirectoryIsFound
PROPERTIES LoneChangeIsReloaded WinChangeIsReloaded
