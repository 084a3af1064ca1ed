SPECIFICATION Spec
CONSTANTS
  r1 = r1
  r2 = r2
  Reqs = {r1}
  Channel <- AllEmail
  Allowlisted = {}
  MaxCopies = 2
  MaxStops = 2
INVARIANT NothingLeavesUngranted
INVARIANT SentMeansLeft
INVARIANT WaitingDraftHasRecord
PROPERTY ImplementsOwnerGate
