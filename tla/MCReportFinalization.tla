------------------------ MODULE MCReportFinalization ------------------------
(***************************************************************************)
(* Small instances of ReportFinalization: two exports of a run as PDF, so  *)
(* that they wait for the one slot, and one of any other optional format.  *)
(***************************************************************************)
EXTENDS ReportFinalization

MCMaxOptional == [f \in Optional |-> IF f = "PDF" THEN 2 ELSE 1]
=============================================================================
