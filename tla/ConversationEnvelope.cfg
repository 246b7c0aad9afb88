SPECIFICATION DataSpec
CONSTANTS
  F = f
  x = x
  y = y
  bad = bad
  test = test
  sed = sed
  empty = empty
  Paths = {f}
  Lines = {x, y, bad}
  Broken = {bad}
  Wide = {}
  Commands = {test, sed}
  Empty = empty
  ReadMax = 2
  KeptReads = 2
  HistoryTurns = 2
  LatestChars = 1
  OlderChars = 0
  Responses <- MCEnvelopes
  Original <- MCOriginal
  Rewritten <- MCRewritten
  Test = test
  Writers = {sed}
  MaxSteps = 2
  ReadLimit = 1
  NativeChars = 7
  CheckpointStep = 1
  SequenceLimit = 18
  Ladder <- MCLadder
  HeadTokens = 2
INVARIANTS
  HistoryIsAccepted
