CONSTANTS
  c1 = c1 c2 = c2 c3 = c3
  Clients = {c1}
  l1 = l1 l2 = l2
  Lanes = {}
  s1 = s1
  Claimants = {}
  d1 = d1
  Drivers = {}
  COMMIT_WAVE_MAX = 1
  WAVE_TAIL_PIPELINE_DEPTH = 1
  MAX_WAL_GROUP_RECORDS = 2
  Faults = {}
  OverBound = {"periodic"}
  Absences = {{}}
SPECIFICATION FairSpec
CHECK_DEADLOCK FALSE
PROPERTY RotationNotStarved
