\* A stream that reconnects over a replay buffer that fills up, and a broadcast
\* ring of half its size (256 against 4096 in the code): a lag may leave two
\* events behind, of which the recovery replays one.
CONSTANTS
  Streams = {s1}
  InputCapacity = 1
  ReplayCapacity = 4
  LiveCapacity = 2
  WireCapacity = 1
  AckHandlers = 1
  MaxFrames = 5
SPECIFICATION FairSpec
INVARIANTS NoLostWakeup GapFreeUnlessLagged
PROPERTIES YieldsIncrease ImplementsLaggingLog EventuallyReceived
CHECK_DEADLOCK FALSE
