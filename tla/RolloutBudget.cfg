\* Six tokens for two candidates, whose requests may outlast the budget of time.
SPECIFICATION Spec
CONSTANTS
  Count = 2
  TokenLimit = 6
  SecondsLimit = 3
  CallLimit = 3
  Usages = {1, 2}
  Durations = {1, 2}
  Pauses = {0, 1}
  Evidence <- OnePatch
  MaxTurns = 2
  MaxLimited = 2
  NoPatch = NoPatch
  d1 = d1
  d2 = d2
INVARIANTS
  BudgetIsShared
CHECK_DEADLOCK FALSE
