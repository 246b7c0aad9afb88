\* One job, two attempts, one worker killed at most once, fair scheduling; it
\* evaluates in its own process.
SPECIFICATION FairSpec
CONSTANTS
  Jobs = {j1}
  Workers = {w1}
  NoJob = NoJob
  Verdicts = {"passed", "failed", "blocked"}
  LocalExecutor = TRUE
  MaxResumes = 1
  MaxClaims = 2
  MaxCrashes = 1
PROPERTIES
  ImplementsLifecycle
  ClaimedJobIsReleased
