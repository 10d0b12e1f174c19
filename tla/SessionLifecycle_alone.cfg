\* One handler at a time, with faults that quarantine followers under it.
CONSTANTS
  Serial = {s1, s2, s3}
  MaxEpoch = 3
  Slot = {h1}
  MaxGroups = 1
  StopsFail = FALSE
  Crashes = FALSE
SPECIFICATION FairSpec
CHECK_DEADLOCK FALSE
INVARIANTS
  RowsAndWorkersAgree
PROPERTIES
  EpochOpensWithWorkers
  HandlersReturn
