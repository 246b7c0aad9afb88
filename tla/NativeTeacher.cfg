\* Two commands, three versions of the workspace, at most three calls a response.
SPECIFICATION Spec
CONSTANTS
  Commands = {c1, c2}
  Inventory = Inventory
  Finish = Finish
  Malformed = Malformed
  None = None
  Versions = {0, 1, 2}
  Base = 0
  MaxCalls = 3
  MaxSteps = 4
  CheckpointFrom = 1
INVARIANTS
  ResultsAreReceipts
  RequestsCarryWholeGroups
  KnownCallsRunOnce
  WarningsAreToldOnce
CHECK_DEADLOCK FALSE
