\* One execution with two bytes of answer, one fault of any kind; an event comes
\* while at most one call is under way.
CONSTANTS
  MaxBytes = 2
  Big = {2}
  MaxEvents = 1
  MaxCalls = 2
  MaxFaults = 1
SPECIFICATION FairSpec
INVARIANTS  CancelledIsSilent
PROPERTY Settles
CHECK_DEADLOCK FALSE
