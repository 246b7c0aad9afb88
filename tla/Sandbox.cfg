\* Two processes; one of them is killed and started again.
SPECIFICATION FairSpec
CONSTANTS
  r1 = r1
  r2 = r2
  r3 = r3
  r4 = r4
  github = github
  local = local
  url = url
  Procs = {p1, p2}
  Runs <- RunSet
  Keys <- KeySet
  KeyOf <- Work
  Origin <- Origins1
  RenameErrors = {"EEXIST", "ENOTEMPTY"}
  MaxStarts = 2
  Nobody = Nobody
  Uids = {100000, 100001}
  Commands = {1, 2}
  Leftovers <- Situations
INVARIANTS
  SnapshotsAreWhole
  CommandsRunPrepared
  CommandsOverlapOnlyAfterCrash
PROPERTIES
  CommandsEnd
CHECK_DEADLOCK FALSE
