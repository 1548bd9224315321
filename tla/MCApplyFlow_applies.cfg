SPECIFICATION Spec
CONSTANTS
  Jobs = {j1, j2}
  Requests = {r1, r2}
  DailyCap = 2
  MaxRequests = 4
  MaxFaults = 1
SYMMETRY Symmetric
INVARIANTS
  TypeOK
  OneApplication
  ApplicationsSound

CHECK_DEADLOCK FALSE
