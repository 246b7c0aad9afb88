\* One job, two attempts, two workers that may raise, stall or be killed.
SPECIFICATION Spec
CONSTANTS
  Jobs = {j1}
  Workers = {w1, w2}
  NoJob = NoJob
  Verdicts = {"passed", "blocked"}
  LocalExecutor = FALSE
  MaxResumes = 1
  MaxClaims = 2
  MaxCrashes = 1
SYMMETRY WorkerSymmetry
INVARIANTS
  TypeOK
  PublishedByLatestAttempt
  ChildrenOverlapOnlyAfterReap
PROPERTIES
  EarlyCancelWins
  OnlyItsWriterSettlesACheckpoint
