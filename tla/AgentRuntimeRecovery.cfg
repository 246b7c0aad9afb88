SPECIFICATION Spec
CONSTANTS
  Edits = {edit}
  Tests = {test}
  Reads = {r1, r2}
  Searches = {search}
  Inventory = inventory
  File = file
  Paths = {file}
  PathOf <- MCPathOf
  Done = done
  Invalid = invalid
  None = none
  Versions = {base, scratch, v1}
  Pristine = base
  base = base
  scratch = scratch
  v1 = v1
  DiffOf <- MCDiffOf
  MaxSteps = 3
  TokenLimit = 3
  SecondsLimit = 3
  ToolLimits = {3}
  WithInventory = FALSE
  RequireTest = TRUE
  ReadLimit = 1
  TokenBound = 1
  Usages = {1}
  Durations = {0}
  MaxStarts = 3
INVARIANTS
  OutcomesAreKnown
  NoCommandRunsTwiceOnAVersion
  SummaryIsAboutTheTestedPatch
PROPERTIES
  RequestsAreAcknowledged
CHECK_DEADLOCK FALSE
