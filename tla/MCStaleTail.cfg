SPECIFICATION LogSpec
CONSTANTS
  MaxIndex = 3
  MaxTerm = 1
  MaxReservations = 1
  MaxTxn = 2
INVARIANT
  StaleTailIsTolerated
CHECK_DEADLOCK FALSE
