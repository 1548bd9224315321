SPECIFICATION Spec
CONSTANTS
  Requests = {r1, r2, r3}
  Jobs = {j1}
  MaxSubmits = 4
  MaxFaults = 2
INVARIANTS
  TypeOK
  OneRow
  JobsKept

CHECK_DEADLOCK FALSE
