\* The pipeline as wired, against what the design says of a restart.
CONSTANTS
  Serial = {s1}
  MaxEpoch = 1
  MaxActions = 1
  Request = {q1}
  SkipRequest = {k1}
  Reconciles = FALSE
  Command = {"tap", "restart"}
  Armed <- MCArmed
  Verified <- MCVerified
  EnvelopeOf <- MCEnvelopeOf
SPECIFICATION Spec
CHECK_DEADLOCK FALSE
INVARIANTS
  NoAbandonedDispatch
