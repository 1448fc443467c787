\* Four messages of two users and the account itself, a window of two, four
\* operations or faults, both modes.
CONSTANTS
  u1 = u1
  u2 = u2
  Self = Self
  Users = {u1, u2}
  Sender <- FourMessages
  WindowSize = 2
  MaxFaults = 4
SPECIFICATION FairIlink
PROPERTIES NothingDropped HandedOnce EventuallyHanded
CHECK_DEADLOCK FALSE
