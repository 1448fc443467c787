\* Two readers, one event of two parts, channels of one, two attempts.
CONSTANTS
  Parts <- JustTwo
  MaxReaders = 2
  Limit = 2
  EventCap = 1
  WriteCap = 1
  WireCap = 1
  MaxFaults = 2
SPECIFICATION FairSpec
INVARIANT AckedIsKept
PROPERTIES DroppedReaderEnds EventuallyReceived
CHECK_DEADLOCK FALSE
