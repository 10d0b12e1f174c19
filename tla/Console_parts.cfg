SPECIFICATION ConsolePartsSpec
CONSTANTS
  RunMember = {"d1", "d2"}
  FirstLeader = "d1"
  MaxRuns = 1
  MaxEpoch = 3
  MaxLog = 1
  MaxLostCalls = 1
  MaxVisits = 2
  ResultRun = {"r1", "r2"}
  ExportFormat = {"PDF"}
  MaxCalls = 5
  MaxRevs = 4
  CleanupRun = {"young", "old"}
  Age <- MCAge
  Days = {1, 14}
  MaxLoads = 3
  MaxSaves = 1
  Device = {"d1"}
  MaxChanges = 2
  MaxUidEvents = 1
  MaxReads = 2
  ViewSerial = {"s1", "s2"}
  MaxProviders = 2
  MaxSockets = 3
CHECK_DEADLOCK FALSE
INVARIANTS
  ShownIsLive
  PagesAtRestAreCurrent
PROPERTIES
  ViewNeverGoesBack
  ListNeverGoesBack
  DeletesOnlyWhatWasSelected
