\* Two handlers under way at once, failing stops and crashes.
CONSTANTS
  Serial = {s1, s2}
  MaxEpoch = 2
  Slot = {h1, h2}
  MaxGroups = 2
  StopsFail = TRUE
  Crashes = TRUE
SPECIFICATION Spec
SYMMETRY MCSymmetry
CHECK_DEADLOCK FALSE
PROPERTIES
  MembershipIsHistory
  KeepsRunControl
