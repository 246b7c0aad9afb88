SPECIFICATION Spec
CONSTANTS
  Edits = {edit}
  Tests = {}
  Reads = {}
  Searches = {}
  Inventory = inventory
  File = file
  Paths = {file}
  PathOf <- MCPathOf
  Done = done
  Invalid = invalid
  None = none
  Versions = {base, v1}
  Pristine = base
  base = base
  scratch = scratch
  v1 = v1
  DiffOf <- MCDiffOf
  MaxSteps = 2
  TokenLimit = 3
  SecondsLimit = 2
  ToolLimits = {0, 2}
  WithInventory = TRUE
  RequireTest = TRUE
  ReadLimit = 3
  TokenBound = 1
  Usages = {0, 2}
  Durations = {0, 2, 3}
  MaxStarts = 3
INVARIANTS
  CallsAreChargedOnce
PROPERTIES
  SpendingNeverShrinks
CHECK_DEADLOCK FALSE
