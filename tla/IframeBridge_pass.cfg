\* Three identifiers, two loads of the frame, two requests accepted.
CONSTANTS
  Ids = {a, b, c}
  MaxFlights = 2
  MaxPorts = 2
  MaxActive = 2
  Window = 3
  MaxChunk = 2
  MaxChunks = 1
  MaxCredit = 1
SPECIFICATION FairSpec
INVARIANT ReplacedIsOver
PROPERTIES AnsweredOnce RevokedIsSilent EveryRequestEnds
CHECK_DEADLOCK FALSE
