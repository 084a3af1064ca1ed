SPECIFICATION FairSpec
CONSTANTS
  N = 2
  Rows <- NRows
  MailOf <- Distinct
  Late = {}
  MaxAttempts = 3
  MaxGone = 0
  MaxFaults = 0
  MaxCrashes = 1
PROPERTY RecoveredIsTold
