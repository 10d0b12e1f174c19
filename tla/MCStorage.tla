------------------------------ MODULE MCStorage ------------------------------
(* Seven components that keep files, leases, sessions or rows of their own: *)
(* the cleanup of ended runs, the recording of a run under way, the polling *)
(* of free space, the ports and directories of the workers, the actions a   *)
(* worker performs, the log of a device, and the rows a report is made of.  *)
(* They share no state, so a behaviour exercises one of them, which part    *)
(* names, and the others stay as they start: the run explores the sum of    *)
(* the seven, not their product.                                            *)
EXTENDS EvidenceCleanup, LeaderRecording, StoragePolling, WorkerResources,
        WorkerGestures, LogcatCapture, ReportSnapshot, TLC

VARIABLE part

CONSTANTS a1, a2, s1, s2

\* Three ended runs: a failure may strike before, between and after others.
MCRuns == 1..3

\* Both sides of both thresholds.
MCReadings == {4, 5, 19, 20}

\* Two devices of a run, one of them started twice.
MCWorker     == {a1, a2}
MCSerialOf   == a1 :> s1 @@ a2 :> s2
MCGeneration == a1 :> 2 @@ a2 :> 1

\* Every type of action; a path whose segments do not divide its duration, which
\* is longer than a request may take.
MCAction == {
  [type |-> "tap",       path |-> <<<<4, 4>>>>, durationMs |-> 0],
  [type |-> "longPress", path |-> <<<<0, 2>>>>, durationMs |-> 300],
  [type |-> "drag",      path |-> <<<<0, 4>>, <<1, 2>>, <<3, 0>>, <<4, 1>>>>,
   durationMs |-> 20000],
  [type |-> "text",      path |-> <<>>, durationMs |-> 0],
  [type |-> "activate",  path |-> <<>>, durationMs |-> 0],
  [type |-> "restart",   path |-> <<>>, durationMs |-> 0],
  [type |-> "terminate", path |-> <<>>, durationMs |-> 0]}

\* Two crash lines that may come in one millisecond, and a blank tag.
MCCrashLine == {1, 2}
MCBlankLine == {3}

\* The recorder's runs and leaders are alike.
MCSymmetry == Permutations(Session) \cup Permutations(Leader)

storageVars == <<part, cleanupVars, recordingVars, pollVars, vars, gestureVars,
                 logcatVars, snapshotVars>>

(* Who leads is an input, which varies in the parts it matters to only.     *)
StorageInit ==
  /\ part \in {"cleanup", "recording", "polling", "workers", "gestures", "logcat", "report"}
  /\ CleanupInit
  /\ RecordingInit
  /\ PollInit
  /\ Init
  /\ GestureInit
  /\ LogcatInit
  /\ SnapshotInit
  /\ part # "recording" => \A q, r \in Session : leader[q] = leader[r]
  /\ part # "report" => rows[s1].role = "LEADER"

StorageNext ==
  \/ /\ part = "cleanup" /\ CleanupNext
     /\ UNCHANGED <<part, recordingVars, pollVars, vars, gestureVars,
                    logcatVars, snapshotVars>>
  \/ /\ part = "recording" /\ RecordingNext
     /\ UNCHANGED <<part, cleanupVars, pollVars, vars, gestureVars,
                    logcatVars, snapshotVars>>
  \/ /\ part = "polling" /\ PollNext
     /\ UNCHANGED <<part, cleanupVars, recordingVars, vars, gestureVars,
                    logcatVars, snapshotVars>>
  \/ /\ part = "workers" /\ Next
     /\ UNCHANGED <<part, cleanupVars, recordingVars, pollVars, gestureVars,
                    logcatVars, snapshotVars>>
  \/ /\ part = "gestures" /\ GestureNext
     /\ UNCHANGED <<part, cleanupVars, recordingVars, pollVars, vars,
                    logcatVars, snapshotVars>>
  \/ /\ part = "logcat" /\ LogcatNext
     /\ UNCHANGED <<part, cleanupVars, recordingVars, pollVars, vars,
                    gestureVars, snapshotVars>>
  \/ /\ part = "report" /\ SnapshotNext
     /\ UNCHANGED <<part, cleanupVars, recordingVars, pollVars, vars,
                    gestureVars, logcatVars>>

StorageSpec == StorageInit /\ [][StorageNext]_storageVars

(* What was started is brought to its end: no interval of the poller lives  *)
(* on after a stop, and no recording of an ended run is left pending.       *)
NothingRunsOn ==
  /\ PollTypeOK /\ OneIntervalWhileRunning
  /\ RecordingTypeOK /\ SettledAtTheEnd
=============================================================================
