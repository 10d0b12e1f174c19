------------------------------ MODULE MCConsole ------------------------------
(* The console: the pages Sessions, Results, Settings and Devices with the  *)
(* routes they call, and the live view.  The pages are never shown together *)
(* and share no state of their own, so a behaviour exercises one of them,   *)
(* which part names: the run explores the sum of the five, not their        *)
(* product.                                                                 *)
EXTENDS SessionConsole, ResultsConsole, CleanupConsole, StateStream, LiveView

VARIABLE part

\* One run on each side of the longer retention.
MCAge == [r \in {"young", "old"} |-> IF r = "old" THEN 30 ELSE 5]

consolePartsVars ==
  <<part, consoleVars, resultVars, cleanupConsoleVars, streamVars, liveVars>>

ConsolePartsInit ==
  /\ part \in {"sessions", "results", "cleanup", "devices", "view"}
  /\ ConsoleInit
  /\ StreamInit
  /\ LiveInit
  /\ ResultsInit
  /\ part # "results" => \A r \in ResultRun : history[r].final = "COMPLETED"
  /\ CleanupConsoleInit
  /\ part # "cleanup" => panel.days = 14 /\ saving.days = 14

ConsolePartsNext ==
  \/ /\ part = "sessions" /\ ConsoleNext
     /\ UNCHANGED <<part, resultVars, cleanupConsoleVars, streamVars, liveVars>>
  \/ /\ part = "results" /\ ResultsNext
     /\ UNCHANGED <<part, consoleVars, cleanupConsoleVars, streamVars, liveVars>>
  \/ /\ part = "cleanup" /\ CleanupConsoleNext
     /\ UNCHANGED <<part, consoleVars, resultVars, streamVars, liveVars>>
  \/ /\ part = "devices" /\ StreamNext
     /\ UNCHANGED <<part, consoleVars, resultVars, cleanupConsoleVars, liveVars>>
  \/ /\ part = "view" /\ LiveNext
     /\ UNCHANGED <<part, consoleVars, resultVars, cleanupConsoleVars, streamVars>>

ConsolePartsSpec == ConsolePartsInit /\ [][ConsolePartsNext]_consolePartsVars

(* Pages at rest: each holds what its module says it can, and the list of   *)
(* devices is the registry's.                                               *)
PagesAtRestAreCurrent ==
  /\ ConsoleTypeOK /\ ResultsTypeOK /\ CleanupConsoleTypeOK
  /\ StreamTypeOK /\ SettledListIsCurrent
=============================================================================
