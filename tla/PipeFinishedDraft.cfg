SPECIFICATION Spec
CONSTANTS
  r1 = r1
  r2 = r2
  Reqs = {r1}
  Channel <- AllEmail
  Allowlisted = {}
  MaxCopies = 1
  MaxStops = 1
PROPERTY FinishedDraftStays
