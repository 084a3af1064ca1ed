SPECIFICATION FairSpec
CONSTANTS
  N = 1
  Msgs <- NMsgs
  MaxHalves = 0
  MaxLogs = 0
  MaxFaults = 0
  MaxCrashes = 1
  MaxEdits = 0
PROPERTY RestartDropsNothing
CHECK_DEADLOCK FALSE
