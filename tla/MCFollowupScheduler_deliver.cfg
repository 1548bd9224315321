SPECIFICATION FairSchedulerSpec
CONSTANTS
  f1 = f1
  f2 = f2
  f3 = f3
  f4 = f4
  w1 = w1
  w2 = w2
  FollowUps = {f1, f2, f3, f4}
  RunAfter <- MCRunAfter
  Bad = {f1}
  Blank = {f4}
  Schedulers = {w1, w2}
  Limit = 2
  MaxFailures <- MCFailures
INVARIANTS
  SchedulerTypeOK
  DeliveryAccounted
PROPERTIES
  DueIsDone

CHECK_DEADLOCK FALSE
