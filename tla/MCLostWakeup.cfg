CONSTANTS
  c1 = c1 c2 = c2 c3 = c3
  Clients = {}
  l1 = l1 l2 = l2
  Lanes = {l1}
  s1 = s1
  Claimants = {s1}
  d1 = d1
  Drivers = {}
  COMMIT_WAVE_MAX = 1
  WAVE_TAIL_PIPELINE_DEPTH = 1
  MAX_WAL_GROUP_RECORDS = 2
  Faults = {}
  OverBound = {}
  Absences = {{}}
SPECIFICATION FairSpec
CHECK_DEADLOCK FALSE
PROPERTY QuiescenceWaiterWakes
