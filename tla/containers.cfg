SPECIFICATION CSpec
CONSTANTS
  Junk = Junk
  Keys <- EightKeys
  Data <- TwoData
  Items <- TwoData
  MaxItems = 6
CHECK_DEADLOCK FALSE
INVARIANTS FindsAll Balanced CopyIsFaithful Fits
PROPERTIES DeleteIsSafe ImplementsItemStack
