\* A run whose report is retried, exports that share the slots of their
\* formats, and crashes anywhere.
CONSTANTS
  Run = {r1}
  Outcome = {"FINISHED"}
  Optional = {"PDF", "JUNIT"}
  MaxAttempt = 2
  MaxOptional <- MCMaxOptional
SPECIFICATION Spec
CHECK_DEADLOCK FALSE
INVARIANTS
  CompletedIsTheReport
  AttemptIsFresh
PROPERTIES
  FinalizationSettles
  ExportsSettle
