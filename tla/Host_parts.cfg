SPECIFICATION HostSpec
CONSTANTS
  Importer = {i1, i2}
  ImportDigest = {d1}
  ImportName = {n1, n2}
  ImportMayCrash = TRUE
  Registration = {r1, r2}
  MaxInstalls = 3
  OutputLimit = 2
  MaxChunks = 3
  Serial = {s1, s2}
  MaxUpsets = 2
  Browser = {b1}
  MaxWipes = 2
  MaxReports = 2
  TypedUids = TRUE
  MaxDeployments = 2
  TargetsOf <- MCTargets
  MutationOf <- MCMutations
  MaxNonces = 1
  MaxRuns <- MCRuns
  MaxCrashes = 1
  MaxOverlap = 2
CHECK_DEADLOCK FALSE
INVARIANTS
  StepsAreTrue
  ImportsAreClean
  ReadingsAreTrue
  DevicesAreAsSeen
PROPERTIES
  StepsWriteWhatHappened
