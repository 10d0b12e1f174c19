\* The pipeline as device-runtime.ts wires it: startup does not reconcile.
CONSTANTS
  Serial = {s1, s2}
  MaxEpoch = 2
  MaxActions = 2
  Request = {q1, q2}
  SkipRequest = {k1}
  Reconciles = FALSE
  Command = {"text", "restart"}
  Armed <- MCArmed
  Verified <- MCVerified
  EnvelopeOf <- MCEnvelopeOf
SPECIFICATION Spec
SYMMETRY MCSymmetry
CHECK_DEADLOCK FALSE
INVARIANTS
  RecordIsCoherent
  GesturesAreSingle
  AnswersAreTrue
  AnswersAreAccepted
PROPERTIES
  GesturesFollowSequence
  KeepsTheLedger
