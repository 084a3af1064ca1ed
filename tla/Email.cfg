SPECIFICATION FairSpec
CONSTANTS
  N = 2
  Rows <- NRows
  MailOf <- Distinct
  Late = {1}
  MaxAttempts = 2
  MaxGone = 1
  MaxFaults = 1
  MaxCrashes = 1
INVARIANT CursorCoversMail
INVARIANT ToldOnce
PROPERTY MailIsFiled
PROPERTY FiledIsTold
