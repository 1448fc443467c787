\* A queue that overflows, a drainer that gives up, callers that are aborted.
CONSTANTS
  Chats = {c1, c2}
  MaxEvents = 4
  MaxCallers = 3
  MaxQueueDepth = 2
  GivesUp = TRUE
  Abortable = TRUE
SPECIFICATION FairSpec
INVARIANTS Accounted HeldByOne
PROPERTIES OrderKept QueuedIsHandled
CHECK_DEADLOCK FALSE
