\* Two requests at once or one after the other, any of which may be dropped.
CONSTANTS
  Requests = {r1, r2}
  Adapters = {a1, a2, a3}
  Tasks = {t1, t2, t3}
  Sessions = {s1}
  Lanes = {l1, l2}
  None = None
  MaxOperations = 3
  MaxWithSends = 1
  OverlapAgain = FALSE
  Droppable = TRUE
SPECIFICATION FairSpec
INVARIANTS ReadyReceives NoStrayConnection LossIsOwn SerialPerSession
PROPERTY StrayLoopsEnd
CHECK_DEADLOCK FALSE
