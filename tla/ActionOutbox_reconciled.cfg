\* The pipeline with reconcileAfterRestart called at startup, as its tests do.
CONSTANTS
  Serial = {s1, s2}
  MaxEpoch = 1
  MaxActions = 1
  Request = {q1}
  SkipRequest = {k1}
  Reconciles = TRUE
  Command = {"tap", "text", "restart"}
  Armed <- MCArmed
  Verified <- MCVerified
  EnvelopeOf <- MCEnvelopeOf
SPECIFICATION FairSpec
CHECK_DEADLOCK FALSE
INVARIANTS
  ReconciledIsTrue
PROPERTIES
  AnswersAreFinal
  EveryActionSettles
