CONSTANTS
  c1 = c1 c2 = c2 c3 = c3
  Clients = {c1,c2,c3}
  l1 = l1 l2 = l2
  Lanes = {l1}
  s1 = s1
  Claimants = {s1}
  d1 = d1
  Drivers = {}
  COMMIT_WAVE_MAX = 2
  WAVE_TAIL_PIPELINE_DEPTH = 2
  MAX_WAL_GROUP_RECORDS = 2
  Faults = {"compat","apply"}
  OverBound = {}
  Absences = {{l1,s1},{c1,l1},{c2,l1},{c3,l1},{c1,c2},{c1,c3},{c2,c3}}
SPECIFICATION Spec
SYMMETRY ClientSymmetry
INVARIANTS TypeOK VisibleIsDurable AckedIsVisible NoGapIsSkipped TailsCountedOnce OneSequencer PipelineBounded QuiescenceIsComplete NoCoverageGap
PROPERTY ImplementsLaw
CHECK_DEADLOCK FALSE
