------------------------- MODULE MCSessionLifecycle -------------------------
(***************************************************************************)
(* Small instances of SessionLifecycle.  Serials and slots are symmetric.  *)
(***************************************************************************)
EXTENDS SessionLifecycle, TLC

MCSymmetry == Permutations(Serial) \cup Permutations(Slot)
=============================================================================
