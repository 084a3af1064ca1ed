SPECIFICATION FairSpec
CONSTANTS
  r1 = r1
  r2 = r2
  Reqs = {r1, r2}
  Channel <- AllImessage
  Allowlisted = {r2}
  MaxCopies = 1
  MaxStops = 1
INVARIANT RejectedStaysHome
INVARIANT RejectionToldOnce
PROPERTY OutcomeIsFinal
PROPERTY ImplementsOwnerGate
PROPERTY ApprovedIsConcluded
 
