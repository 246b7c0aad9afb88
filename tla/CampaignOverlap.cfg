\* The thinking cohort is started again beside the protocol cohort.
SPECIFICATION Spec
CONSTANTS
  Tasks = {t1, t2}
  Seeds = {}
  NoPipeline = NoPipeline
  Attempts = 2
  Targets = {2}
  Workers <- Once
  MaxStarts <- ThinkingTwice
SYMMETRY TaskSymmetry
INVARIANTS
  ProBatchesDoNotOverlap
CHECK_DEADLOCK FALSE
