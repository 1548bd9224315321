SPECIFICATION Spec
CONSTANTS
  j1 = j1
  j2 = j2
  j3 = j3
  t1 = t1
  t2 = t2
  o1 = o1
  r1 = r1
  r2 = r2
  Jobs = {j1, j2, j3}
  Tokens = {t1, t2}
  Link <- MCLink
  Districts <- MCDistricts
  Orders = {o1}
  Requests = {r1, r2}
  Opening = 1
  Slots = 1
  MaxLocations = 2
  NoJob = NoJob
  NoToken = NoToken
  NoOrder = NoOrder
  NoRecord = NoRecord
  MaxFaults <- MCFaults
SYMMETRY Symmetry
INVARIANTS
  TypeOK
  ChargedOnce
  CoveredWithinSlots
  ListedOncePerCrash

CHECK_DEADLOCK FALSE
