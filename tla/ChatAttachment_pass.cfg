\* Three uses, three failures, one revocation.
CONSTANTS
  MaxLane = 3
  MaxUses = 3
  MaxFaults = 3
  MaxRevokes = 1
SPECIFICATION Spec
INVARIANTS AdmittedByLease IdleHoldsNoLease
PROPERTY RevokedIsFenced
CHECK_DEADLOCK FALSE
