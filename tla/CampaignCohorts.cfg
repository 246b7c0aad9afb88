\* Two tasks, all three cohorts; a killed collector stays down.
SPECIFICATION Spec
CONSTANTS
  Tasks = {t1, t2}
  Seeds = {}
  NoPipeline = NoPipeline
  Attempts = 2
  Targets = {1, 2}
  Workers <- TwoFast
  MaxStarts <- Once
SYMMETRY TaskSymmetry
INVARIANTS
  NoTaskBeyondTarget
  NoTrainingOnUnknownOutcomes
  TrainsOnCompletedTasks
CHECK_DEADLOCK FALSE
