SPECIFICATION Spec
CONSTANTS
  o1 = o1
  o2 = o2
  r1 = r1
  r2 = r2
  Orders <- MCTwoOrders
  Requests = {r1, r2}
  Grant <- MCGrant
  WelcomeCredits = 1
  NoOrder = NoOrder
  NoRecord = NoRecord
  PaymentsInDb = TRUE
  PurchaseInDb = TRUE
  MaxFaults <- MCFaults
SYMMETRY Symmetry
CONSTRAINT FewFaults
INVARIANTS
  TypeOK
  LiveIdempotent
  OnlyPaidOrdersGranted
  RegrantsAreBlemishes
  WalletsSound
PROPERTIES
  ImplementsPaidOnce

CHECK_DEADLOCK FALSE
