\* Faults of every kind, live events ahead of the barrier and of the answers.
CONSTANTS
  Sources = {s1, s2}
  MaxIds = 4
  MaxChanges = 2
  MaxFailures = 2
  MaxLive = 2
  BufferLimit = 2
SPECIFICATION FairTransport
INVARIANTS NoGap NoneLeftBehind
PROPERTY EndsSynced
CHECK_DEADLOCK FALSE
