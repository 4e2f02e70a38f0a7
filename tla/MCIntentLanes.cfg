CONSTANTS
  i1 = i1 i2 = i2
  w1 = w1
  Intents = {i1, i2}
  KeyOf <- MCKeyOf
  TxnOf <- MCTxnOf
  Hash <- MCHash
  Writers = {w1}
  LaneCount = 2
  LowLanes = 1
  WAVE_MAX = 2
  MissingVerdicts = TRUE
  MaxResizes = 2
SPECIFICATION FairSpec
INVARIANTS TypeOK FirstCommitterWins SameKeyOneLane TxnCommitsOnce BooksAreExact OutcomesAreTrue
PROPERTY EveryIntentIsAnswered
CHECK_DEADLOCK FALSE
