SPECIFICATION Spec
CONSTANTS
  basic = basic
  gold = gold
  y1 = y1
  r1 = r1
  r2 = r2
  r3 = r3
  Requests = {r1, r2, r3}
  Plans = {basic, gold}
  Payments = {y1}
  PlanOf <- MCPlanOf
  Validity <- MCValidity
  Monthly <- MCMonthly
  Cycle = 1
  PaymentsInDb = TRUE
  NoPlan = NoPlan
  NoPayment = NoPayment
  NoRecord = NoRecord
  NoRow = NoRow
  MaxTime = 2
  MaxFaults <- MCFaults
SYMMETRY Symmetry
INVARIANTS
  TypeOK
  SingleSubscription
  NeverTwiceInCycle
  RenewalsAccounted
CHECK_DEADLOCK FALSE
