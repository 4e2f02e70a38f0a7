SPECIFICATION LogSpec
CONSTANTS
  MaxIndex = 5
  MaxTerm = 1
  MaxReservations = 1
  MaxTxn = 5
INVARIANTS
  LogTypeOK
  LogIsContiguous
  NothingUnappliedIsLost
  LockStep
  FlushedIsRecoverable
  AckedStays
  ReplayNeverFails
CHECK_DEADLOCK FALSE
