\* The inventory's receipt is the second new one at the first call.
SPECIFICATION Spec
CONSTANTS
  Commands = {c1, c2}
  Inventory = Inventory
  Finish = Finish
  Malformed = Malformed
  None = None
  Versions = {0, 1, 2}
  Base = 0
  MaxCalls = 3
  MaxSteps = 4
  CheckpointFrom = 1
INVARIANTS
  ReceiptedCallsAreAnswered
CHECK_DEADLOCK FALSE
