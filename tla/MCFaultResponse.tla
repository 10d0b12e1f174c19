--------------------------- MODULE MCFaultResponse ---------------------------
(***************************************************************************)
(* Small instances of FaultResponse.  Devices are interchangeable: it is   *)
(* enough to look at one first leader.  Under PAUSE_ALL every fault is     *)
(* answered as the leader's is under the other policy.                     *)
(***************************************************************************)
EXTENDS FaultResponse

MCInit ==
  /\ Init
  /\ leader = (CHOOSE s \in Serial : TRUE)
  /\ policy = "QUARANTINE_FAILED_DEVICE"

MCSpec == MCInit /\ [][Next]_vars /\ Fairness
=============================================================================
