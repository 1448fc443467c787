\* Three rows in pages of two and chunks of one, two requests for two permits.
CONSTANTS
  r1 = r1
  r2 = r2
  r3 = r3
  Rows = {r1, r2, r3}
  Requests = {q1, q2}
  Text <- TextOfIntegers
  Limit = 2
  ChunkRows = 1
  MaxInFlight = 2
  Start <- SomeTables
  MaxTime = 3
  MaxChanges = 1
  MaxTogether = 1
  MaxFaults = 1
SPECIFICATION FairSource
INVARIANTS Covered NothingLeaks
PROPERTY CatchesUp
CHECK_DEADLOCK FALSE
