CONSTANTS
  c1 = c1 c2 = c2 c3 = c3
  Clients = {c1,c2}
  l1 = l1 l2 = l2
  Lanes = {}
  s1 = s1
  Claimants = {s1}
  d1 = d1
  Drivers = {}
  COMMIT_WAVE_MAX = 2
  WAVE_TAIL_PIPELINE_DEPTH = 2
  MAX_WAL_GROUP_RECORDS = 2
  Faults = {"fixed","apply"}
  OverBound = {"idle"}
  Absences = {{}}
SPECIFICATION FairSpec
CHECK_DEADLOCK TRUE
INVARIANTS VisibleIsDurable TailsCountedOnce
PROPERTY EveryCallerReturns
