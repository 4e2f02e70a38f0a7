CONSTANTS
  MaxTxnId = 5
  MAX_RETAINED_TERMINAL = 2
SPECIFICATION Spec
INVARIANTS
  TypeOK
  ActiveCountExact
  TerminalQueueExact
  RetentionBounded
  BeginIsFresh
PROPERTIES
  VerdictIsFinal
