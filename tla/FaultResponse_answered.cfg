\* Two devices, two epochs, faults from the registry and from the workers.
CONSTANTS
  Serial = {s1, s2}
  MaxEpoch = 2
  MaxSeq = 3
  MaxChanges = 2
  MaxChain = 2
  MaxFaults = 2
  Crashes = TRUE
SPECIFICATION MCSpec
CHECK_DEADLOCK FALSE
INVARIANTS
  IncidentsAreTrue
PROPERTIES
  NoFaultIsDropped
  MonitorsGoOn
