SPECIFICATION FairSpec
CONSTANTS
  j1 = j1
  j2 = j2
  r1 = r1
  r2 = r2
  w1 = w1
  w2 = w2
  api = api
  Jobs = {j1, j2}
  Reindexers = {r1, r2}
  Workers = {w1, w2}
  Api = api
  Bundled = w1
  MaxEdits = 1
  MaxRuns = 2
  MaxFaults <- MCFaults
  MaxTotal = 1
INVARIANTS
  TypeOK
  EventsAccounted
PROPERTIES
  NeverOlder
  PushedIsIndexed

CHECK_DEADLOCK FALSE
