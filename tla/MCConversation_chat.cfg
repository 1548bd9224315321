SPECIFICATION Spec
CONSTANTS
  Messages = {m1, m2, m3}
  Requests = {r1, r2}
  Cap = 2
  MaxFaults = 1
SYMMETRY Symmetric
INVARIANTS
  TypeOK
  AnsweredOnce
  DroppedAccounted
  MemorySound

CHECK_DEADLOCK FALSE
