\* Nobody stops the loop; writing the cursor file fails at most twice.
CONSTANTS
  u1 = u1
  u2 = u2
  Self = Self
  Users = {u1, u2}
  Sender <- FourMessages
  WindowSize = 2
  MaxFaults = 2
SPECIFICATION UndisturbedSpec
INVARIANT CoveredIsKept
CHECK_DEADLOCK FALSE
