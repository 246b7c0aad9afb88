\* Two candidates of two answers; requests of one token, asked again when empty.
SPECIFICATION Spec
CONSTANTS
  Count = 2
  TokenLimit = 4
  SecondsLimit = 4
  CallLimit = 3
  Usages = {1}
  Durations = {1, 2}
  Pauses = {0, 1}
  Evidence <- SmallEvidence
  MaxTurns = 2
  MaxLimited = 2
  NoPatch = NoPatch
  d1 = d1
  d2 = d2
INVARIANTS
  SpendingIsCharged
  SelectionHasEvidence
  UnknownOutcomesStopTheGroup
CHECK_DEADLOCK FALSE
