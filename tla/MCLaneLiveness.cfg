CONSTANTS
  c1 = c1 c2 = c2 c3 = c3
  Clients = {c1}
  l1 = l1 l2 = l2
  Lanes = {l1,l2}
  s1 = s1
  Claimants = {}
  d1 = d1
  Drivers = {d1}
  COMMIT_WAVE_MAX = 1
  WAVE_TAIL_PIPELINE_DEPTH = 2
  MAX_WAL_GROUP_RECORDS = 2
  Faults = {"fixed","compat"}
  OverBound = {}
  Absences = {{l2},{d1}}
SPECIFICATION FairSpec
CHECK_DEADLOCK TRUE
PROPERTY EveryCallerReturns
