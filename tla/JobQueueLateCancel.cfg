\* A cancellation that arrives after the worker's last look at the row.
SPECIFICATION Spec
CONSTANTS
  Jobs = {j1}
  Workers = {w1}
  NoJob = NoJob
  Verdicts = {"passed", "failed", "blocked"}
  LocalExecutor = FALSE
  MaxResumes = 1
  MaxClaims = 2
  MaxCrashes = 0
PROPERTIES
  CancellationWins
