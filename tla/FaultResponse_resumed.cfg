\* A server that stays up, against what the design says of a lost leader.
CONSTANTS
  Serial = {s1, s2}
  MaxEpoch = 2
  MaxSeq = 3
  MaxChanges = 2
  MaxChain = 2
  MaxFaults = 2
  Crashes = FALSE
SPECIFICATION Spec
CHECK_DEADLOCK FALSE
INVARIANTS
  LeaderLossPauses
