SPECIFICATION Spec
CONSTANTS
  Edits = {edit}
  Tests = {test}
  Reads = {}
  Searches = {}
  Inventory = inventory
  File = file
  Paths = {file}
  PathOf <- MCPathOf
  Done = done
  Invalid = invalid
  None = none
  Versions = {base, v1}
  Pristine = base
  base = base
  scratch = scratch
  v1 = v1
  DiffOf <- MCDiffOf
  MaxSteps = 2
  TokenLimit = 3
  SecondsLimit = 3
  ToolLimits = {3}
  WithInventory = FALSE
  RequireTest = FALSE
  ReadLimit = 3
  TokenBound = 1
  Usages = {1}
  Durations = {0, 2}
  MaxStarts = 2
INVARIANTS
  AcknowledgedActionsAreNotReplayed
CHECK_DEADLOCK FALSE
