SPECIFICATION Spec
CONSTANTS
  r1 = r1
  r2 = r2
  Reqs = {r1}
  Channel <- AllWhatsapp
  Allowlisted = {}
  MaxCopies = 2
  MaxStops = 2
INVARIANT PermissionTravels
