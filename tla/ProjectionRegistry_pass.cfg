\* Two consumers, two sessions, one login, one fault of each budget.
CONSTANTS
  Consumers = {c1, c2}
  Sessions = {p1, p2}
  None = None
  MaxAttempts = 2
  MaxRevision = 2
  MaxActions = 2
  MaxLogins = 1
  MaxFaults = 1
SPECIFICATION FairSpec
INVARIANTS Quiet OwnAuthority
PROPERTIES RevisionsIncrease Served
CHECK_DEADLOCK FALSE
