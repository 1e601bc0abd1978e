SPECIFICATION EndingSpec
CONSTANTS
  a = a  b = b  c = c  e = e  NoEvent = NoEvent
  Objs <- TwoObjs
  MaxChanges = 2
  WinObjs <- TwoObjs
  DirOf <- TwoDirs
  Confused = {}
  MaxWrites = 0
  Chars <- Letters  Drive <- Disk  Names <- ThreeNames  Files <- ThreeFiles
  MaxParts = 0
CHECK_DEADLOCK FALSE
PROPERTIES ChangeIsReloaded
