SPECIFICATION Spec
CONSTANTS
  MaxFaults = 2
  Goals <- AllGoals
INVARIANTS SuccessHonest ProtectedBeforeChange PreflightPredicts RecordsHonest GuestUnharmed
PROPERTY RetriesSucceed
CHECK_DEADLOCK FALSE
