\* One task; every collector may be killed, and two of them started again.
SPECIFICATION FairSpec
CONSTANTS
  Tasks = {t1}
  Seeds = {}
  NoPipeline = NoPipeline
  Attempts = 2
  Targets = {1}
  Workers <- Once
  MaxStarts <- PredecessorsTwice
INVARIANTS
  PaidOnce
  OneOpenRolloutPerTask
PROPERTIES
  CollectorsEnd
CHECK_DEADLOCK FALSE
