CONSTANTS
  n1 = n1 n2 = n2 n3 = n3 n4 = n4 n5 = n5
  Nodes = {n1,n2,n3,n4,n5}
  None = None
  MaxTerm = 2
  MaxIndex = 2
  MaxEvents = 0
SPECIFICATION Spec
SYMMETRY NodeSymmetry
PROPERTY QuorumHoldsCommitted
CHECK_DEADLOCK FALSE
