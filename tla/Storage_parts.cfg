SPECIFICATION StorageSpec
CONSTANTS
  Runs <- MCRuns
  Dialog = {d1, d2}
  MaxCleanupFaults = 2
  MaxCleanupCrashes = 1
  Session = {r1, r2}
  Leader = {l1, l2}
  Handler = {h1, h2}
  MaxOpens = 2
  MaxStops = 1
  MaxStarts = 4
  WarningFree = 20
  DangerFree = 5
  Readings <- MCReadings
  a1 = a1
  a2 = a2
  s1 = s1
  s2 = s2
  Worker <- MCWorker
  SerialOf <- MCSerialOf
  MaxGeneration <- MCGeneration
  MaxInterruptions = 1
  LastPort = 2
  LastBridge = 2
  Call = {"c1"}
  ActionCommand <- MCAction
  MaxSessions = 2
  MaxWorkerStops = 2
  Width = 6
  Height = 7
  Scale = 4
  RequestTimeout = 15000
  LineCount = 3
  CrashLine <- MCCrashLine
  BlankLine <- MCBlankLine
  SegmentLimit = 2
  MaxStreams = 2
  MaxTicks = 3
  EndsInLine = TRUE
  PauseMayFail = TRUE
  HostMayCrash = TRUE
  Member = {s1, s2}
  FaultId = {f1, f2}
  Command = {"tap", "swipe", "drag"}
  MaxActions = 2
  MaxEpochs = 2
CHECK_DEADLOCK FALSE
SYMMETRY MCSymmetry
INVARIANTS
  LeasesAreSound
  LogIsKept
  GesturesAreTheirs
  CleanupIsTrue
  NothingRunsOn
  OnlyTextsAreRefused
PROPERTIES
  EvidenceIsFinal
