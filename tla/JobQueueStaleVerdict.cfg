\* An evaluation child that dies without a result in a second attempt.
SPECIFICATION Spec
CONSTANTS
  Jobs = {j1}
  Workers = {w1}
  NoJob = NoJob
  Verdicts = {"passed", "failed", "blocked"}
  LocalExecutor = FALSE
  MaxResumes = 1
  MaxClaims = 2
  MaxCrashes = 0
INVARIANTS
  VerdictOfThisAttempt
