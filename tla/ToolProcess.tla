----------------------------- MODULE ToolProcess -----------------------------
(***************************************************************************)
(* One run of an external tool, environment/process-runner.ts: the child   *)
(* and what it started, their output up to a limit, the time limit and     *)
(* taskkill /T.  The promise of run settles once, on "error" or on "close";*)
(* "close" comes when every process that holds the pipes has ended.        *)
(***************************************************************************)
EXTENDS Naturals

CONSTANTS OutputLimit,    \* maxOutputBytes, in chunks of one
          MaxChunks       \* bound: chunks the tool writes

ASSUME ToolProcessAssumption == OutputLimit \in Nat \ {0} /\ MaxChunks \in Nat

VARIABLES
  tool,           \* "none", "running", "ended": the child itself
  grandchild,     \* whether a process it started holds the pipes
  clock,          \* "off", "set", "fired", "cleared": the time limit
  killer,         \* "none", "running", "ok", "failed": terminateProcessTree
  output,         \* [written, kept, truncated]: what CappedOutput holds
  settled,        \* "no", "spawnFailed", "closing", "resolved", "unkillable"
  timedOutFlag    \* timedOut of the result

processVars == <<tool, grandchild, clock, killer, output, settled,
                 timedOutFlag>>

ProcessTypeOK ==
  /\ tool \in {"none", "running", "ended"}
  /\ grandchild \in BOOLEAN /\ timedOutFlag \in BOOLEAN
  /\ clock \in {"off", "set", "fired", "cleared"}
  /\ killer \in {"none", "running", "ok", "failed"}
  /\ output \in [written : 0..MaxChunks, kept : 0..OutputLimit,
                 truncated : BOOLEAN]
  /\ settled \in {"no", "spawnFailed", "closing", "resolved", "unkillable"}

ProcessInit ==
  /\ tool = "none" /\ grandchild = FALSE /\ clock = "off" /\ killer = "none"
  /\ output = [written |-> 0, kept |-> 0, truncated |-> FALSE]
  /\ settled = "no" /\ timedOutFlag = FALSE

ProcessSpawn ==
  /\ tool = "none" /\ settled = "no"
  /\ \/ tool' = "running" /\ clock' = "set" /\ UNCHANGED settled
     \/ settled' = "spawnFailed" /\ clock' = "cleared" /\ UNCHANGED tool
  /\ UNCHANGED <<grandchild, killer, output, timedOutFlag>>

ProcessForks ==
  /\ tool = "running" /\ ~grandchild
  /\ grandchild' = TRUE
  /\ UNCHANGED <<tool, clock, killer, output, settled, timedOutFlag>>

Alive == tool = "running" \/ grandchild

\* CappedOutput.append; a sink, when there is one, is given every chunk.
Capped(o) ==
  IF o.kept >= OutputLimit THEN [o EXCEPT !.written = @ + 1, !.truncated = TRUE]
  ELSE [o EXCEPT !.written = @ + 1, !.kept = @ + 1]

ProcessWrites ==
  /\ Alive /\ output.written < MaxChunks
  /\ output' = Capped(output)
  /\ UNCHANGED <<tool, grandchild, clock, killer, settled, timedOutFlag>>

ToolEnds ==
  /\ tool = "running"
  /\ tool' = "ended"
  /\ UNCHANGED <<grandchild, clock, killer, output, settled, timedOutFlag>>

GrandchildEnds ==
  /\ grandchild
  /\ grandchild' = FALSE
  /\ UNCHANGED <<tool, clock, killer, output, settled, timedOutFlag>>

ProcessTimeout ==
  /\ clock = "set"
  /\ clock' = "fired" /\ killer' = "running" /\ timedOutFlag' = TRUE
  /\ UNCHANGED <<tool, grandchild, output, settled>>

\* taskkill ends the tree, or fails: the child is gone already, or it is not
\* allowed, or it takes too long.  After a failure only the child is killed.
KillerEnds ==
  /\ killer = "running"
  /\ \/ /\ tool = "running"
        /\ killer' = "ok" /\ tool' = "ended" /\ grandchild' = FALSE
     \/ /\ killer' = "failed"
        /\ tool' = "ended"
        /\ UNCHANGED grandchild
  /\ UNCHANGED <<clock, output, settled, timedOutFlag>>

\* Mutant: "exit" is taken for "close".
ProcessClosesOnExit ==
  /\ settled = "no" /\ tool = "ended"
  /\ settled' = "closing"
  /\ clock' = IF clock = "set" THEN "cleared" ELSE clock
  /\ UNCHANGED <<tool, grandchild, killer, output, timedOutFlag>>

\* "close": the time limit is cleared, and a termination under way awaited.
ProcessCloses ==
  /\ settled = "no" /\ tool = "ended" /\ ~grandchild
  /\ settled' = "closing"
  /\ clock' = IF clock = "set" THEN "cleared" ELSE clock
  /\ UNCHANGED <<tool, grandchild, killer, output, timedOutFlag>>

ProcessSettles ==
  /\ settled = "closing" /\ killer # "running"
  /\ settled' = IF killer = "failed" THEN "unkillable" ELSE "resolved"
  /\ UNCHANGED <<tool, grandchild, clock, killer, output, timedOutFlag>>

ProcessNext ==
  \/ ProcessSpawn \/ ProcessForks \/ ProcessWrites \/ ToolEnds
  \/ GrandchildEnds \/ ProcessTimeout \/ KillerEnds \/ ProcessCloses
  \/ ProcessSettles

(***************************************************************************)
(* A result is the whole truth about the run: when it is handed out no     *)
(* process of the tool is left, no termination is under way, and what was  *)
(* kept of the output is all of it unless it says it was truncated.        *)
(***************************************************************************)
ResultIsTheWholeRun ==
  settled = "resolved" =>
    /\ ~Alive /\ killer # "running"
    /\ (timedOutFlag <=> killer = "ok")
    /\ (~output.truncated => output.kept = output.written)
=============================================================================
