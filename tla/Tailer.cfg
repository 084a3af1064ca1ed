SPECIFICATION FairSpec
CONSTANTS
  N = 3
  Msgs <- NMsgs
  MaxHalves = 1
  MaxLogs = 1
  MaxFaults = 1
  MaxCrashes = 1
  MaxEdits = 1
INVARIANT HandedOnceInOrder
INVARIANT CursorSkipsNothing
CHECK_DEADLOCK FALSE
PROPERTY WrittenIsHanded
