CONSTANTS
  n1 = n1 n2 = n2 n3 = n3 n4 = n4 n5 = n5
  Nodes = {n1,n2,n3}
  None = None
  MaxTerm = 2
  MaxIndex = 3
  MaxEvents = 1
SPECIFICATION Spec
SYMMETRY NodeSymmetry
INVARIANTS TypeOK ProgressHolds OneLeaderPerTerm LogMatching
PROPERTY CommittedIsFinal
CHECK_DEADLOCK FALSE
