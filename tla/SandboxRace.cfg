\* Two harness processes build the same snapshot on Linux, where renaming onto
\* a directory that is not empty says ENOTEMPTY.
SPECIFICATION Spec
CONSTANTS
  r1 = r1
  r2 = r2
  r3 = r3
  r4 = r4
  github = github
  local = local
  url = url
  Procs = {p1, p2}
  Runs <- RunSet
  Keys <- KeySet
  KeyOf <- Work
  Origin <- Origins1
  RenameErrors = {"ENOTEMPTY"}
  MaxStarts = 2
  Nobody = Nobody
  Uids = {100000, 100001}
  Commands = {1, 2}
  Leftovers <- Situations
INVARIANTS
  WinnerIsReused
CHECK_DEADLOCK FALSE
