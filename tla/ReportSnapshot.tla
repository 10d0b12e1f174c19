--------------------------- MODULE ReportSnapshot ---------------------------
(***************************************************************************)
(* What a report may say of a run: the rows that the session runtime, the  *)
(* outbox, the incident monitor and the recorder write while a run goes on *)
(* and after it, and report-snapshot-repository.ts and report-model.ts,    *)
(* which read them in one transaction and check every row.  A row that is  *)
(* not as the model wants it fails the finalization of the run, at every   *)
(* retry: nothing ever rewrites it.                                        *)
(*                                                                         *)
(* A text is "words" or "blank"; ids, hashes and times are left out.       *)
(***************************************************************************)
EXTENDS Naturals, FiniteSets, Sequences

CONSTANTS
  Member,      \* the devices of the run
  FaultId,     \* the faults of which a monitor may hear
  MaxActions,  \* bound: actions submitted
  MaxEpochs,   \* bound: membership epochs opened after the first
  Command      \* the types of command an operator submits

ASSUME ReportSnapshotAssumption == {MaxActions, MaxEpochs} \subseteq Nat

VARIABLES
  runRow,      \* test_runs.state
  opened,      \* epochs opened after the first
  rows,        \* run_devices of the current epoch: role and membership
  actionRows,  \* actions: type and state, in order of action_seq
  incidentRow, \* incidents: the text of details.message, "none" for no row
  attemptRow,  \* recovery_attempts: status and error_message
  videoRow,    \* evidence_records of the leader video
  snapshot     \* the last answer of load: a model, "refused", or "none"

snapshotVars == <<runRow, opened, rows, actionRows, incidentRow, attemptRow,
                  videoRow, snapshot>>

Text == {"words", "blank"}

Reportable == {"FINISHED", "FAILED", "INTERRUPTED"}

NoAttempt == [status |-> "none", error |-> "none"]
NoVideo   == [state |-> "none", path |-> FALSE, sha256 |-> FALSE]
None      == [is |-> "none"]
Refused   == [is |-> "refused"]

Row(role, membership) == [role |-> role, membership |-> membership]

SnapshotTypeOK ==
  /\ runRow \in Reportable \cup {"RUNNING", "PAUSED"}
  /\ opened \in 0..MaxEpochs
  /\ DOMAIN rows \subseteq Member
  /\ incidentRow \in [FaultId -> Text \cup {"none"}]
  /\ attemptRow \in [FaultId -> [status : {"none", "STARTED", "SUCCEEDED", "FAILED"},
                                error : Text \cup {"none"}]]
  /\ snapshot.is \in {"none", "refused", "model"}

SnapshotInit ==
  /\ runRow = "RUNNING" /\ opened = 0
  /\ \E first \in Member :
       rows = [m \in Member |-> Row(IF m = first THEN "LEADER" ELSE "FOLLOWER", "ACTIVE")]
  /\ actionRows = <<>>
  /\ incidentRow = [f \in FaultId |-> "none"]
  /\ attemptRow = [f \in FaultId |-> NoAttempt]
  /\ videoRow = NoVideo
  /\ snapshot = None
-----------------------------------------------------------------------------
(* Writers.  The run: pause, resume with the active members, promotion of  *)
(* one of them, and completion in the state its operator chose.            *)
Remaining == {m \in DOMAIN rows : rows[m].membership = "ACTIVE"}

PauseRun ==
  /\ runRow = "RUNNING" /\ runRow' = "PAUSED"
  /\ UNCHANGED <<opened, rows, actionRows, incidentRow, attemptRow, videoRow, snapshot>>

OpenEpoch(role) ==
  /\ runRow = "PAUSED" /\ Remaining # {} /\ opened < MaxEpochs
  /\ runRow' = "RUNNING" /\ opened' = opened + 1
  /\ rows' = [m \in Remaining |-> Row(role[m], "ACTIVE")]
  /\ UNCHANGED <<actionRows, incidentRow, attemptRow, videoRow, snapshot>>

ResumeRun == OpenEpoch([m \in Remaining |-> rows[m].role])

\* Mutant: the others keep the role of their last epoch.
PromotedBeside(m, leader) == IF m = leader THEN "LEADER" ELSE rows[m].role

PromotedRole(m, leader) == IF m = leader THEN "LEADER" ELSE "FOLLOWER"

PromoteMember(leader) ==
  /\ leader \in Remaining /\ rows[leader].role = "FOLLOWER"
  /\ OpenEpoch([m \in Remaining |-> PromotedRole(m, leader)])

CompleteRun(end) ==
  /\ runRow \in {"RUNNING", "PAUSED"} /\ runRow' = end
  /\ actionRows' = [i \in DOMAIN actionRows |->
                      IF actionRows[i].state = "QUEUED"
                      THEN [actionRows[i] EXCEPT !.state = "CANCELLED"] ELSE actionRows[i]]
  /\ UNCHANGED <<opened, rows, incidentRow, attemptRow, videoRow, snapshot>>

\* Mutant: action_type holds the type of the command.
StoredAsGiven(command) == command

(* The outbox keeps the type of a command in command_json; action_type has *)
(* two values, and the report reads that column.                           *)
StoredType(command) == IF command = "swipe" THEN "swipe" ELSE "tap"

SubmitAction(command) ==
  /\ runRow = "RUNNING" /\ Len(actionRows) < MaxActions
  /\ actionRows' = Append(actionRows, [type |-> StoredType(command), state |-> "QUEUED"])
  /\ UNCHANGED <<runRow, opened, rows, incidentRow, attemptRow, videoRow, snapshot>>

(* The monitor: the incident, then the recovery it starts, which pauses    *)
(* the run or sets a member aside and is closed when that is done, or did  *)
(* not succeed.  Both texts come from the error that a device, a driver or *)
(* a handler threw.  A run may end before its recoveries do.               *)
RecordIncident(f, text) ==
  /\ runRow = "RUNNING" /\ incidentRow[f] = "none"
  /\ incidentRow' = [incidentRow EXCEPT ![f] = text]
  /\ attemptRow' = [attemptRow EXCEPT ![f].status = "STARTED"]
  /\ UNCHANGED <<runRow, opened, rows, actionRows, videoRow, snapshot>>

QuarantineMember(f, m) ==
  /\ attemptRow[f].status = "STARTED"
  /\ m \in Remaining /\ rows[m].role = "FOLLOWER"
  /\ rows' = [rows EXCEPT ![m].membership = "QUARANTINED"]
  /\ attemptRow' = [attemptRow EXCEPT ![f].status = "SUCCEEDED"]
  /\ UNCHANGED <<runRow, opened, actionRows, incidentRow, videoRow, snapshot>>

PauseForIncident(f) ==
  /\ attemptRow[f].status = "STARTED" /\ runRow = "RUNNING"
  /\ runRow' = "PAUSED"
  /\ attemptRow' = [attemptRow EXCEPT ![f].status = "SUCCEEDED"]
  /\ UNCHANGED <<opened, rows, actionRows, incidentRow, videoRow, snapshot>>

RecoveryFails(f, text) ==
  /\ attemptRow[f].status = "STARTED"
  /\ attemptRow' = [attemptRow EXCEPT ![f] = [status |-> "FAILED", error |-> text]]
  /\ UNCHANGED <<runRow, opened, rows, actionRows, incidentRow, videoRow, snapshot>>

\* The row of the leader video, until it is filed or given up.
VideoBegins ==
  /\ runRow = "RUNNING" /\ videoRow = NoVideo
  /\ videoRow' = [NoVideo EXCEPT !.state = "PENDING"]
  /\ UNCHANGED <<runRow, opened, rows, actionRows, incidentRow, attemptRow, snapshot>>

VideoReady ==
  /\ videoRow.state = "PENDING"
  /\ videoRow' = [state |-> "READY", path |-> TRUE, sha256 |-> TRUE]
  /\ UNCHANGED <<runRow, opened, rows, actionRows, incidentRow, attemptRow, snapshot>>

VideoFails ==
  /\ videoRow.state = "PENDING"
  /\ videoRow' = [videoRow EXCEPT !.state = "FAILED"]
  /\ UNCHANGED <<runRow, opened, rows, actionRows, incidentRow, attemptRow, snapshot>>
-----------------------------------------------------------------------------
(* The reader: one predicate per table, every row of which must satisfy it *)
NormalRun == runRow \in Reportable

NormalDevices ==
  Cardinality({m \in DOMAIN rows : rows[m].role = "LEADER"}) <= 1

NormalActions ==
  \A i \in DOMAIN actionRows : actionRows[i].type \in {"tap", "swipe"}

NormalEvidence ==
  videoRow.state = "READY" => videoRow.path /\ videoRow.sha256

NormalIncidents ==
  \A f \in FaultId : incidentRow[f] # "blank"

NormalRecoveries ==
  \A f \in FaultId : attemptRow[f].error # "blank"

\* The report of a run is made when the run has ended, and again at a retry.
Load ==
  /\ runRow \in Reportable
  /\ snapshot' =
       IF NormalRun /\ NormalDevices /\ NormalActions /\ NormalEvidence
          /\ NormalIncidents /\ NormalRecoveries
       THEN [is |-> "model", leader |-> {m \in DOMAIN rows : rows[m].role = "LEADER"}]
       ELSE Refused
  /\ UNCHANGED <<runRow, opened, rows, actionRows, incidentRow, attemptRow, videoRow>>
-----------------------------------------------------------------------------
SnapshotNext ==
  \/ PauseRun \/ ResumeRun
  \/ \E m \in Member : PromoteMember(m)
  \/ \E end \in Reportable : CompleteRun(end)
  \/ \E command \in Command : SubmitAction(command)
  \/ \E f \in FaultId, text \in Text : RecordIncident(f, text) \/ RecoveryFails(f, text)
  \/ \E f \in FaultId, m \in Member : QuarantineMember(f, m)
  \/ \E f \in FaultId : PauseForIncident(f)
  \/ VideoBegins \/ VideoReady \/ VideoFails
  \/ Load

SnapshotSpec == SnapshotInit /\ [][SnapshotNext]_snapshotVars
-----------------------------------------------------------------------------
(* Whatever the writers did, in whatever order, the report of an ended run *)
(* is refused for one reason only: a text of an incident or of a failed    *)
(* recovery was blank, which the writers let pass and the reader does not. *)
(* No such run can ever be finalized.                                      *)
RefusedForABlankText ==
  snapshot = Refused =>
    \E f \in FaultId : "blank" \in {incidentRow[f], attemptRow[f].error}

(* So the texts of its incidents are all that a report can fail on.        *)
OnlyTextsAreRefused == SnapshotTypeOK /\ RefusedForABlankText
=============================================================================
