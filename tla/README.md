# Verification of the Unity multi-device test center

The repository is a test center that drives one Unity game on several Android
devices at once: an operator opens a *run* over a set of devices, every gesture
made on the leader is dispatched to all members, faults take followers out or
pause the run, and a report is built when the run ends. It is one Node.js server
(`apps/server`) over a SQLite database, with packages for sessions, bridge,
appium, devices, reports and so on, a browser console, and a bridge inside the
game.

This directory holds TLA+ models of the system, the TLC runs that check them on
small instances, and TLAPS proofs of what matters most for every value of the
constants. Every definition is translated from the code; `PROJECT.json` names
the lines each one stands for.

Contents: [inventory](#inventory) · [modules](#modules-and-their-code) ·
[runs](#runs) · [where code and documents disagree](#where-code-and-documents-disagree) ·
[disagreements without a run](#disagreements-without-a-run) ·
[proofs](#proofs) · [not modelled](#what-is-not-modelled) · [plan](#plan).

Paths of the design document are short for
`docs/superpowers/specs/2026-07-31-unity-multi-device-test-center-design.md`
("the design"), those of plans for `docs/superpowers/plans/2026-07-31-*.md`.

## Inventory

The server is one event loop. Between two `await`s a handler is alone; the
database commits synchronously. So the hard behaviours are these: handlers that
overlap at awaits, crashes between two transactions or file operations, events
that waited and are handled in another state than the one they were raised in,
work that outlives the state it was started in, answers that come after somebody
gave up, or overtake each other on their way to the browser.

| Component | State it keeps | Operations | Talks to | Correct when |
| --- | --- | --- | --- | --- |
| **Action outbox and dispatcher** (`run-repository`, `action-outbox`, `action-dispatcher`, `text-focus-barrier`) | `actions`, `action_outbox`, `action_targets`, `device_action_results`, `action_skip_decisions`; the dispatches under way | create, retry, skip; lease, mark, dispatch, complete target; cancel for a run; reconcile | the run's row and members; bridge; worker | one group action at a time, no gesture repeated, withdrawn means not sent, succeeded means performed, the tables agree, each action closes once |
| **Session runtime** (`session-runtime`), **run membership** (`run-membership`) | `test_runs`, `run_devices` by epoch, `run_transitions` | create, start, pause, resume, rejoin, promote, complete; quarantine | coordinator, recorder, registry, outbox, finalization | overlapping handlers leave a state one of them alone could reach; an epoch has one leader, workers for its members, and is never rewritten |
| **Worker coordinator and device workers** (`runtime-worker-coordinator`, `device-worker`) | map of run to workers; state, generation and session of each | start group, stop group, start, stop, execute an action | resources, Appium, bridge, logcat | a failed start leaves nothing behind; an action stays in the session it began in |
| **Worker resources and ports** (`worker-resource-manager`, `port-allocator`) | two JSON files, directories | allocate, release, reclaim | workers | two leases share no port, what is stopped is given back |
| **Appium service and W3C client** (`appium-service`, `w3c-client`, `appium-action`) | a child process; a session fence | spawn, readiness; create, act, delete | workers | a worker drives the server it started; gestures are as drawn |
| **Incidents, failure policy, fault monitors** (`*-fault-monitor`, `incident-*`, `failure-policy`, `logcat-stream`) | `incidents`, `recovery_attempts`; a promise chain and a set of handled faults each; log segments | handle, record, decide, pause or quarantine, finish; rotate, seal | registry and workers (events), session runtime, membership | a fault is answered once, the timeline tells what was done, the log is kept |
| **Unity QA bridge** (`arm-controller`, `bridge-client`, `runtime-bridge`; `QaBridgeServer.cs`) | leases by command id, epochs, clock offset; the arm and the reader thread in the game | calibrate, arm, cancel, ack, expire, invalidate | dispatcher; TCP through adb | what the host takes for armed or performed is; no arm outlives its bridge |
| **Device registry, UIDs** | `devices`, `device_connections`; installations and observations | poll, upsert, mark missing; record, confirm, wipe | adb, monitors, bridge | history is what happened; a uid is of the data it is shown for |
| **Deployments, one-time confirmations** | `deployments`, targets, steps, nonces; machines in memory | run, retry, confirm, cancel, recover | adb, installations | a target reads what was done to its device |
| **Artifacts and content store** | staged files, objects, rows | upload, import, publish, register installed | build providers, file system | rows name whole objects, stages are removed |
| **Environment checks, tool runner, build provider** | none; a child process; two report files | probe, classify, publish; run, kill | server, CLI | the exit code tells the machine; a result is of the whole run |
| **Report finalization and exports, snapshot** | `run_finalizations`, `report_exports`, files, an export queue | start, retry, build, publish, export, recover | session runtime, evidence | completed means there; a run that can end can be reported |
| **Evidence and cleanup** | `runs.cleanup_state`, trash, audit; recordings; free-space samples | preview, confirm, mark, move, remove, restore; record, publish; poll | disk, database | rows and answers say where each run is; nothing runs on after its end |
| **Video** | providers per device, sockets, a decoder | start, fail over, stop, subscribe, draw | devices, console | the picture is of the device chosen |
| **Console** (pages Sessions, Results, Settings, Devices; state stream) | copies of rows, selections, pending calls | submit, poll, choose, retry, export, preview, clean up | routes | what is shown belongs to what was chosen, and does not go back |
| **Security, database, routes, launcher** | confirmations, cookie; schema; none | issue, consume; migrate | all | see `components` in `PROJECT.json` |

How they interact: the HTTP routes call the session runtime, which awaits the
coordinator and the recorder and commits to the database. Submitting an action
creates its rows and starts a dispatch that nobody awaits. Registry and workers
emit events into the monitors' promise chains, which call `pause` of the session
runtime or change the membership themselves. `complete` starts the finalization,
again without waiting. Startup (`device-runtime.ts:187-191`) migrates the
database and reconciles stale finalizations, and nothing else.

`PROJECT.json` lists under `hazards` what can go wrong in these, each at its
line, with the properties below that would catch it.

## Modules and their code

| Module | Models |
| --- | --- |
| `RunControl` | what a run promises of its control state: `test_runs` and the rows of the current epoch; extended by `ActionOutbox` and `FaultResponse`, implemented by `SessionLifecycle` |
| `ActionLedger` | what the action pipeline promises: entries opened in sequence, one open at a time, outcomes and a verdict written once; implemented by `ActionOutbox` |
| `ActionOutbox` | the pipeline: four tables, dispatcher, device, crash and restart |
| `SessionLifecycle` | the session runtime's handlers, split at every await, coordinator, workers and their leases |
| `FaultResponse` | registry, two fault monitors, incidents, policy, and the handlers they race |
| `ReportFinalization` | reports of ended runs: attempts, rows, files, slots of the optional exports, crash and startup |
| `ReportSnapshot` | the rows a report is read from, their writers, and the model's refusals |
| `BridgeArming` | the QA bridge, both ends: host, socket, reader thread and main thread of the game |
| `WorkerResources` | leases, manifest, Appium processes, sessions and forwards of the workers, over crashes |
| `WorkerGestures` | the actions a worker performs in its Appium session, request by request, over stops and starts; the pointer actions |
| `LogcatCapture` | a device's log stream, its segments, its crash lines and their monitor |
| `EvidenceCleanup`, `LeaderRecording`, `StoragePolling` | the cleanup of ended runs; the recording of a leader; the free-space poller |
| `Deployments` | orchestrator, machine, repository, confirmations, recovery |
| `ArtifactImport`, `InstalledIdentity` | imports into the content store; registration of an installed package |
| `DeviceRegistry`, `InstallationUids` | discovery and connection history; uids, wipes and late reports |
| `SelfCheck`, `ToolProcess` | the environment check; one run of an external tool |
| `SessionConsole`, `ResultsConsole`, `CleanupConsole`, `StateStream`, `LiveView` | the console's pages with the routes they call; the state stream; the live picture |
| `MC*` | instances for TLC. `MCStorage`, `MCHost` and `MCConsole` compose components that share no state: a variable `part` chooses the one a behaviour exercises, so a run explores the sum of its parts and not their product |
| `ActionOutboxProofs`, `SessionLifecycleProofs`, `FaultResponseProofs`, `ReportFinalizationProofs`, `BridgeArmingProofs`, `StorageProofs`, `HostProofs`, `ConsoleProofs` | theorems |

`SessionLifecycle` shows with every await what `RunControl` says without one;
the two modules that need a run underneath then use `RunControl`'s steps. That
is how they compose without a product of their states.

### ActionOutbox

* **Tables.** One function per column, indexed by `action_seq` (`Act`) and
  serial. A request id is a model value, and `EnvelopeOf` says what of a command
  the `actions` row keeps besides `command_json`.
* **Sections.** `cpu` is the synchronous section that is under way: `lease` and
  `mark` after a submission, `reject` after a barrier failed, `pause` and
  `complete` after the outbox was cancelled. Only `Crash` comes between its
  transactions. `step[a][s]` is the await a dispatch stands at.
* **Actions.** `Submit`/`Retry` call `Create`; `Skip`; `Lease`,
  `MarkDispatching`; `VerifyPasses`/`VerifyFails` (text barrier, for the group);
  `ArmGranted`, `Post`, `Respond`, `AckReceived`, `Fail`, `BarrierCancelled`
  (`dispatch`, line by line); `CompleteTarget` with its ownership test and its
  verdict; `CommitPause`, `CommitComplete`; `Crash`, `Restart`. `Perform` is
  external: a gesture posted is carried out at most once, possibly after the
  host gave up.
* **Constants.** `Armed` is the set of commands that arm the bridge in the run's
  bridge mode, `Verified` those that pass the focus barrier. `Reconciles` says
  whether startup calls `reconcileAfterRestart`: the server does not, its tests
  do. The theorems hold for both.

### SessionLifecycle

* `jobs[h]` is a handler under way: what it does, where it awaits, and what it
  read before (state, epoch, members). Its commit is guarded by what the code's
  `UPDATE ... WHERE` names, and by no more.
* `entry` is the coordinator's map; `worker[k][s]` are the workers of group `k`,
  of which several may live at once; `lease[s]` is the serial's entry in
  `worker-resources.json`, which survives a crash.
* A worker starts in three steps and stops in two; `StopsFail` says whether
  stopping may fail. `FINISHED` stands for `FINISHED` and `FAILED`.

### FaultResponse

* `chain[source]` is a monitor's promise chain, the first event being handled;
  `handler[source]` is the pause it awaits. `handler["operator"]` is a pause or
  completion by request, `opening` a start, resume, rejoin or promotion.
* A fault is named by what its incident id is made of: serial and
  `connection_seq`, or serial and the worker generation found when it is
  reported. An action that outlives its worker finds the next generation, since
  stopping counts it up first (`device-worker.ts:422`, `:511`; `WorkerNumbers`):
  two faults may share a name. Handled once, the second is taken for a repetition;
  after a restart, for a record with other content, which throws and takes the
  server down (`RecordThrows`). `incident[f]` is the epoch in which the row was
  written, 0 for no row.
* Simplified: one run; one operator stop and one opening at a time (their races
  are `SessionLifecycle`'s); OFFLINE stands for each state that is not ONLINE.
  A pause that waited may commit in a later epoch, as the code's `UPDATE` allows.

### ReportFinalization and ReportSnapshot

* An export `<<run, format, attempt>>` names its row, id and path. `fin` is the
  finalization row, `job` the execution under way and its await, `queue` and
  `active` the optional exports and their slots (one PDF, two others). Partial
  files are left out: a final path appears by renaming a closed file.
* `ReportSnapshot` keeps a row of each table the snapshot joins; a text is
  `"words"` or `"blank"`. `Violations` are the rules of `report-model.ts` that
  two rows can break.

### BridgeArming

`down` and `up` are the lines on the wire, per session and in order; `gate` is the
arm the game's main thread will consume, `inbound` what its reader thread has
read and not handled; the host's leases have timers of their own. A restart of
the app, a second connection and a broken link may come anywhere. `HostAhead`
says which clock is ahead (see below).

### WorkerResources and WorkerGestures

`WorkerResources` is about what a worker *owns* (ports, files, processes,
forwards) and has a crash; `WorkerGestures` about what it *does* with its
session. In the latter a call keeps the fence it began with (`SessionOf`), each
request is answered by the server later or never (`Serve` is external), and the
host may have given up by then. `made` numbers the sessions; coordinates are
numerators over `Scale`.

### The console

A call is a record of what it asked for; its answer is what the server had when
it handled the call, and is applied when it arrives. Components that React
unmounts forget their state and ignore later answers only where the code says so.

## Runs

State counts are distinct states; times are with two workers.

| Run | Instance | States | Checks |
| --- | --- | --- | --- |
| `outbox_wired` | 2 devices, 2 actions, 2 epochs, 2 requests, no reconciliation | 1.33 M, 120 s | `RecordIsCoherent` (`TypeOK`, `BooksAgree`, `RetryLineage`), `GesturesAreSingle` (`OneGroupActionInFlight`, `NoReplay`), `AnswersAreTrue` (`CancelledNeverSent`, `SucceededWasPerformed`), `AnswersAreAccepted`, `GesturesFollowSequence`, refinement of `ActionLedger` (`KeepsTheLedger`) |
| `outbox_reconciled` | 2 devices, 1 action, reconciliation | 22 k | `ReconciledIsTrue` (`NoAbandonedLease`, `CancelledNeverSent`), `AnswersAreFinal`, `EveryActionSettles` |
| `lifecycle_alone` | 3 devices, 3 epochs, one handler at a time, quarantines under it | 19 k | `RowsAndWorkersAgree` (`TypeOK`, `EpochsAreWellFormed`, `QuietRunHoldsNothing`, `RunningRunIsServed`), `EpochOpensWithWorkers`, `HandlersReturn` |
| `lifecycle_races` | 2 devices, 2 epochs, 2 handlers, failing stops, crashes | 700 k, 50 s | `MembershipIsHistory`, refinement of `RunControl` (`KeepsRunControl`) |
| `faults_answered` | 2 devices, 2 epochs, 2 connection changes, 2 faults, crashes | 562 k, 150 s | `IncidentsAreTrue` (`TypeOK`, `RecoveryHolds`, `DeviceFaultsAreNew`), `NoFaultIsDropped`, `MonitorsGoOn` |
| `reports_retried` | 1 run, 2 attempts, 2 PDF exports and one other, crashes | 82 k | `CompletedIsTheReport` (types, `CompletedHasOutputs`, `CompletedIsNewest`), `AttemptIsFresh`, `FinalizationSettles`, `ExportsSettle` |
| `bridge_armed` | a tap, a swipe, a drag; 2 actions, 2 sessions, 2 launches of the app | 803 k, 127 s | `ArmsAreHonest` (`TypeOK`, `AckMeansObserved`, `HeldArmIsGranted`, `LostBridgeHoldsNothing`), `EveryArmSettles` |
| `storage_parts` | seven components | 1.67 M, 140 s | `LeasesAreSound` (`TypeOK`, `LeasesDiffer`, `BridgeLeadsHome`, `DrivesItsOwnServer`, `NothingLeftBehind`), `LogIsKept` (types, `SegmentsAreAsAnnounced`, `StoppedIsSealed`, `ServerOutlivesTheLog`), `GesturesAreTheirs` (types, `GesturesStayInTheirSession`, `PerformedIsDone`, `GesturesAreAsDrawn`), `CleanupIsTrue` (types, `StateTellsThePlace`, `OneCleanupPerRun`, `AnswerNamesWhatIsLost`), `NothingRunsOn` (types, `OneIntervalWhileRunning`, `SettledAtTheEnd`), `OnlyTextsAreRefused` (types, `RefusedForABlankText`), `EvidenceIsFinal` |
| `host_parts` | seven components | 1.85 M, 184 s | `StepsAreTrue` (`TypeOK`, `CompletedWasLaunched`; of undisturbed deployments `DidEverySteps`, `HistoriesAreTrue`), `ImportsAreClean`, `ReadingsAreTrue` (`NeverTwoBuilds`, `ResultIsTheWholeRun`, `ExitCodeTellsTheMachine`, `ReportIsAPair`), `DevicesAreAsSeen` (`ConnectionHistoryIsTrue`, `BridgeUidIsOfThisData`), `StepsWriteWhatHappened` (`AttemptsAreFinal`, `FinishedPollIsCurrent`) |
| `console_parts` | five components | 2.03 M, 142 s | `ShownIsLive` (types, `PictureIsOfTheSerial`, `FallbackLeavesNoServer`), `PagesAtRestAreCurrent` (types, `SettledListIsCurrent`), `ViewNeverGoesBack`, `ListNeverGoesBack`, `DeletesOnlyWhatWasSelected` |
| `outbox_restart`, `faults_resumed` | small | | each a counterexample, see below |

A property that names others in brackets is their conjunction: they are about
one question, and their names say which part of it failed.

**Why the bounds are enough.** Two devices are needed for a group to answer
half, for a follower to be quarantined and for a leader to change; two actions
for one to be in the other's way, for a retry and for out-of-order posting; two
epochs for a handler to be stale. A third device and a third epoch are in
`lifecycle_alone`, where a serial can miss an epoch and come back. Two handlers
suffice for every race of the compare-and-sets, since each looks at one row. Two
faults make both monitors stop the run at once, or one chain hold an event
behind a slow pause. Two attempts let a retry meet the remains of the first; two
PDF exports compete for one slot. Two arms let one be withdrawn while the other
is wanted, two sessions let a line of an old connection reach a new one. Among
the storage parts, three runs let a failure strike before, between and after
others, and two dialogs meet; two workers, one of them started twice, compete
for ports; two stops and two sessions let an action outlive its worker; three
lines make a log rotate with a record on each side. Among the host parts, two
imports of one digest meet in the store, two deployments over one device, two
wipes between the reports of a uid. Two runs of one deployment may be under way
at once (`MaxOverlap`), started or retried while the other is; `MCRuns` gives one
deployment three in all, of which the last can meet what two that overlapped have
left, and `DeploymentBounds` lets the pair of them start one each. Two sessions
with a leader each, two handlers and four starts let two runs meet at the recorder
that they share. On the console, two calls suffice for an answer to overtake
another: five do on the results page, and two readings of the device list.

**Bounds.** `MaxActions`, `MaxEpoch(s)`, `MaxGroups`, `MaxSeq`, `MaxChanges`,
`MaxChain` (of both monitors' chains together), `MaxFaults`, `MaxAttempt`,
`MaxOptional`, `MaxScreen`, `MaxSessions`, `MaxApps`, `MaxLines`,
`MaxCleanupFaults`, `MaxCleanupCrashes`, `MaxOpens`, `MaxStops`, `MaxStarts`,
`MaxGeneration`, `MaxInterruptions`, `MaxWorkerStops`, `MaxStreams`, `MaxTicks`,
`MaxInstalls`, `MaxChunks`, `MaxUpsets`, `MaxWipes`, `MaxReports`,
`MaxDeployments`, `MaxNonces`, `MaxRuns`, `MaxOverlap`, `MaxCrashes`, `MaxLog`,
`MaxLostCalls`, `MaxVisits`, `MaxCalls`, `MaxRevs`, `MaxLoads`, `MaxSaves`,
`MaxReads`, `MaxUidEvents`, `MaxProviders` and `MaxSockets` limit how often
something may begin, in the guard of the action that begins it. Deadlock is not
checked: an operator may stop asking, and the bounds end every behaviour.
Symmetry is used in runs without liveness only (devices and requests of
`outbox_wired`, devices and handlers of `lifecycle_races`, sessions and leaders
of `storage_parts`).

**Fairness and what justifies it.** Nothing obliges an operator to act, a device
to fail or a server to crash. Assumed is that

* the event loop finishes the synchronous section it is in, and a server that
  went down is launched again (`WF` of `Section`, `Restart`);
* an await of a dispatch ends: HTTP requests, the foreground poll, the arm lease
  and the focus samples have deadlines. Pause, completion and other dispatches
  may come first and disable the step for a while, hence `SF` of `Verify` and
  `Continue`;
* a session handler's awaits end (`WF` of `Continue`, `StopEnds`), and so do
  those of a monitor's turn (`WF` of `Continue \/ FinishRecovery` of each source),
  for the same deadlines;
* file operations of a report end one way or the other, in a server that stays
  up: `FinalizationSettles` and `ExportsSettle` claim nothing across a crash;
* the host's local timer of an arm fires, and the W3C call under it returns or
  throws (`BridgeArming`): the wire and the game owe nothing.

**What some properties leave open.** `NoReplay` and `GesturesFollowSequence`
speak of what the server *posts*. A device may carry out a gesture after the host
gave up on it: its action then reads FAILED, a later action may be performed
before it, and an operator's retry, a new action, repeats it. Nothing in the code
prevents that; `ActionLedger` says so (`Apply` after FAILED or UNKNOWN), and
`WorkerGestures` what does hold: a late gesture is made once at most, in the
session its action began in. A fault raised by an action of a worker that is
being stopped is reported like any other (its request meets a cleared fence or a
session that is gone), while a dead Appium server (`NETWORK_ERROR`) is no fault
of any category (`device-worker.ts:591-606`).

Every property of a passing run has a *mutant* in its module: an operator that
changes one definition the way a plausible bug would, and under which TLC finds
the property violated.

## Where code and documents disagree

Two runs expect a violation. Each checks what the design says, and TLC finds the
code doing something else.

1. **The outbox is not reconciled at startup** (`outbox_restart`). The design
   (355, 457) wants stale leases to become UNKNOWN or CANCELLED;
   `reconcileAfterRestart` has no caller. An action whose dispatch awaits a
   device when the server crashes stays DISPATCHING, and its run accepts no
   other: pause and completion withdraw QUEUED and LEASED rows and leave
   DISPATCHING ones to the dispatch, which is gone (`NoAbandonedDispatch`). One
   that the crash caught LEASED, between two transactions, waits for a pause or
   a completion only. `outbox_reconciled` shows that the call would mend it, and
   the theorems that it would break nothing.
2. **A leader lost during a resume does not pause the run** (`faults_resumed`).
   Devices are looked at before the workers start and not at the commit, and the
   event is dropped because the run is not RUNNING yet (design 261, 750).

## Disagreements without a run

These are stated as properties in their modules too, and each was refuted by
adding it to the configuration of the module's run (with the constant named, if
any); they have no run of their own because they are of less weight, or follow
from a crash nobody may care about.

| Property | The code | What says otherwise |
| --- | --- | --- |
| `ActionOutbox.ReusedIdIsRejected` | `create` compares the envelope and not `command_json`: commands without a payload look alike (`run-repository.ts:136`, stored type at 492) | design 351 |
| `SessionLifecycle.EpochOpensWithWorkers` (two handlers) | another handler can stop the workers between their start and the commit (`session-runtime.ts:246`, `runtime-worker-coordinator.ts:72`) | `docs/milestones/M9-task23-explicit-resume-acceptance.md:24`, `:26` |
| `ReportFinalization.StartupSettlesRows` | only rows of stale FINALIZING runs are failed (`report-finalization-recovery-service.ts:69`) | design 459 |
| `WorkerResources.PortsAreExclusive` (after a crash) | the manifest keeps ports whose lease was reclaimed and given to another | `m8-dynamic-four-device-capacity.md:89`, `:97` |
| `BridgeArming.OnlyExpiredArmsAreDropped` (`HostAhead = TRUE`) | an arm still good on the device is dropped when the host's clock is ahead (`protocol.ts:175`, `:197`) | comment at `runtime-bridge.ts:36-37` |
| `BridgeArming.ClosedLeaseIsDisarmed` | an arm asked for and not yet granted is not withdrawn when its lease is closed | `m5-unity-qa-bridge.md:168` |
| `Deployments.RestartMarksInterrupted` | a crash between two transactions leaves a target as it was (`deployment-orchestrator.ts:435`) | `m4-single-device-deployment.md:149` |
| `Deployments.CompletedDidEveryStep`, `StepHistoryIsTrue` | a deployment that is running can be started or retried again: two machines drive one target, and `persist` marks the step the other is at as done (`routes/deployments.ts:119-133`, `deployment-repository.ts:83-89`). And after a crash the recovery gives a target without an open attempt the step of the row that another target wrote last; its retry starts there, and steps before it are never done (`deployment-orchestrator.ts:447-458`) | the names of the states |
| `EvidenceCleanup.UnresolvedAreLabelled` | a run that can neither be removed nor moved back is not named in the answer | `m10-default-reports.md:206` |
| `LeaderRecording.NobodyFilmsUnowned`, `EachIsSettled` | two runs started in one turn share the one recorder; the first process runs on, and its row stays PENDING | comment in `leader-video-recorder.ts` |
| `LeaderRecording.ReadyDigestMatches` | a later take replaces the file a READY row's hash is of | the hash |
| `InstalledIdentity.RegisteredIsOneBuild` | `adb exec-out cat` exits 0 although the file is gone or the stream is cut short, and what it printed is hashed (`commands.ts:128`, `installed-identity.ts:147`, `:329-331`) | the digest |
| `InstallationUids.ManualUidIsOfThisData` | a nonce is bound to no generation (`uid-service.ts:245-291`) | `m5-unity-qa-bridge.md:195` |
| `LiveView.OneTransportPerSerial` | `stop` during a start leaves the transport it awaits (`failover-provider.ts:12-17`, `77-83`; `runtime-video.ts:112-121`) | one provider per device |
| `LiveView.GoneSocketsAreUnsubscribed` | a socket that closes during the start is subscribed afterwards (`video-gateway.ts:107-108`) | `onClose` beside it |
| `LiveView.ClosedChannelIsShown` | the viewport keeps its last state (`VideoViewport.tsx:187-188`) | the label it shows |
| `SessionConsole.StaleRequestsAreRefused` | the routes act on the run as it is, not as it was shown (`routes/sessions.ts:483-533`) | `m7-two-device-sync.md:136` |
| `SessionConsole.RunningRunIsReachable` | a page that was left forgets the run it had | the controls it offers |
| `ResultsConsole.ShownDetailIsSelected`, `ExportsAreOfThePickedRun` | answers are applied whatever is selected by then (`ResultsPage.tsx:88`, `:105`) | the page |
| `CleanupConsole.DeletesOnlyWhatWasRead`, `PreviewIsOfTheDays` | the dialog lists the latest answer's selection, of other days maybe (`CleanupDialog.tsx:118`, `CleanupPreviewPanel.tsx:189-197`) | the dialog |
| `StateStream.SettledListIsAlwaysCurrent` | every answer to a reading of the list is applied; an older one that comes last stays (`DevicesPage.tsx:24-36`) | the page |
| `StateStream.EventSeqGrows` | registry and uid service count for themselves (`device-registry.ts:118`, `uid-service.ts:322`, `state-gateway.ts:37-52`) | `m1-console-foundation.md:113` |
| `LogcatCapture.ClosingIsIdempotent` | a last line cut short is appended to a segment that is sealed (`logcat-stream.ts:228-238`, `282-315`) | `docs/milestones/M6-task3-fallback-device-acceptance.md:11` |
| `LogcatCapture.SealedIsKept` | a later stream numbers from the segments that are there, and may rename over one (`logcat-stream.ts:341-347`) | the seal |
| `WorkerGestures.OnlySlowServersTimeOut` | a swipe of 15 s or more is performed and always reported as timed out (`w3c-client.ts:5`, `:368`) | `m9-actions-failure-policies.md:38`: "50-30,000 ms" |
| `WorkerGestures.FaultsNameTheirWorker`, `FaultResponse.WorkerFaultsAreNew` | `executeAction` names the generation of by then, which `stop` has counted up (`device-worker.ts:511`, `:422`): a fault of the next worker meets an incident of its id, and `record` throws (`incident-repository.ts:76`) | `M9-task23-explicit-resume-acceptance.md:22-23` |

Noted without a property: a text or a key is stored, and labelled in the report,
as a tap (`run-repository.ts:492`); a drag is never accepted, with a path or
without (`:447`, `:464`), so that only a caller of the worker itself can have one
performed. The report's uid is the latest
observation of any time (`report-snapshot-repository.ts:99-105`). A blank
incident or recovery text makes a run unreportable for ever
(`report-model.ts:428-445`; this is what `OnlyTextsAreRefused` leaves). An
incident id made for a worker's fault can be longer than the schema allows
(`runtime-fault-monitor.ts:89`): it is stored, and every reading of the run's
incidents is then rejected. A logcat line with a blank tag rejects a promise
nobody handles and ends the server. A uid set while a wipe is PENDING makes
`recordMutationResult` throw (`installation-repository.ts:107-140`, `179`). A
crash between the marking of a cleanup and its answer leaves runs DELETING for
good (`cleanup-execution-service.ts:62`). Followers are wiped without the
confirmation (m8 plan, 66). A poll that throws ends discovery
(`device-registry.ts:86`). A lost state stream is never reopened
(`App.tsx:92-100`). A session is created again with a fresh request id
(`SessionsPage.tsx:142`). `worker-resources.json` is rewritten in place; torn by
a crash it stops every allocation until it is removed by hand
(`worker-resource-manager.ts:187`, `readable` in `WorkerResources`). Runs left
RUNNING by a crash are not made INTERRUPTED (design 457).

## Proofs

All theorems are for any devices, commands, requests, runs and bounds, from the
named assumptions on the constants only: nothing is assumed about the code
beyond the module's actions. Two hypotheses go further and are stated in the
theorems: `Alone`, explained below, and that the server reconciles (`Reconciles`,
for `NothingAbandoned`).

Every safety invariant and every action property of the passing runs is the
subject of a theorem, which states the very formula the run checks.

**ActionOutboxProofs.** `TypeOK` is inductive by itself. The safety invariants
are not: that no gesture is posted twice depends on where each dispatch stands,
that a withdrawal touches nothing sent depends on the tables, and those depend
on the order of the actions. `Inv` joins them: types; *Sequence* (rows exist up
to `lastSeq`, and only the last action may be in flight); per action *Rows*,
which is `Story` (the four tables agree), `Owned` (a dispatch awaits only while
its rows are DISPATCHING and PENDING) and `Sends` (what was sent and performed
at each await and behind each result); and that a server that is down awaits
nothing. Each action has a lemma that it keeps the rows; `InvStep` puts them
together. `OneInFlight`, `AtMostOnce`, `WithdrawnBeforeSent`, `SuccessIsReal`,
`OneStory`, `NoAnswerLost`, `SingleGestures` and `TrueAnswers` follow from `Inv`
state by state. With the reconciliation at startup more is inductive
(`Handled`): an action is LEASED only inside the section that leases it or while
the server is down, and each answer that an action being dispatched still lacks
is awaited by some device's part. `NothingAbandoned` is what that says when the
server is at rest.

For the refinement of `ActionLedger`, each step is, under `Inv`, a step of the
ledger or hidden from it: `Create` opens an entry; an answer (`Respond`,
`AckReceived`, `Fail`, `Reject`, ...) settles devices, and closes the entry with
the last; withdrawal and reconciliation abandon; `Perform` applies; leasing,
marking, arming and posting are hidden. Pauses and completions withdraw at most
one action because only one is in flight (`OneToClose`). Hence `Refinement`;
`WriteOnce`, `InOrder`, `RetriesAreRetries` and `CoherentRecord` are proved with
it. The run underneath goes `RunControl`'s way throughout
(`ActionsKeepTheRunsWay`).

**SessionLifecycleProofs.** `IInv` says: types; rows exist for the epochs opened
so far and no other (`RowsAreShaped`); each of them has one leader
(`EpochsAreWellFormed`), the first all its devices (`FirstEpochIsWhole`); and of
each handler, that what it read of the epoch it means to replace is still true
while that epoch is the current one (`Remembers`). The last is why the races are
harmless: rows of an epoch change only while the run is RUNNING, and a PAUSED
run leaves that state only through a new epoch, which changes the epoch the
handler compares, or to FINISHED, which changes the state. `MembershipIsHistory`
(`HistoryHolds`) and the refinement of `RunControl` (`ControlHolds`) follow step
by step, for any number of handlers, with stops that fail and crashes.
That rows and workers agree is not true then: with two handlers an epoch may
open without its workers, and after a crash leases stay. Hence `Alone` (one
slot, stops succeed, no crash), and `AloneInv`, which says at each program
counter of the handler what workers and leases there are (`AtRest`, `Serving`,
`ComingUp`, `IsUp`, `GoingDown`): `AgreementHolds`, `EpochsOpenServed`.

**FaultResponseProofs.** That what a recovery says was done stays done
(`RecoveryHolds`) takes an invariant from the event to the end of the epoch.
`Inv` says: types; who an opening is about (*Targeted*); connections are never
numbered alike (*Fresh*: a fault of the registry that has an incident is either
known as handled or not queued, because connections to come have a higher
`connection_seq`, also after the crash that empties the set of handled events);
what is handled is answered or being answered (*Settled*); a monitor attends to
the first event of its chain and is `done` only when the run is paused or the
device out (*Attending*); and what is recorded as SUCCEEDED is so (*Recorded*).
Every step leaves the run alone or is one of `RunControl`'s (`RunMoves`): within
an epoch a quarantine is for good and a run that stopped does not run again, so
what was done lasts to its end. That an old, succeeded recovery does not get a
new epoch needs no numbering: `record` throws before it would write, and the
server goes down (`RecordThrows`), which happens for workers' faults and, by
*Fresh*, for no other (`EveryDisconnectionIsNew`).
`WhatWasDoneLasts`, `EveryFaultIsAnswered` and `TrueIncidents` follow, and with
`RunMoves` that monitors, handlers and crashes together implement `RunControl`
(`FaultsKeepTheRunsWay`).

**ReportFinalizationProofs.** What completed stays complete only if no later
attempt, retry or startup touches it. The invariant says of each run: types; no
row or file before a report is asked for (*NoReportYet*); nothing beyond the
attempt that the finalization names, except the rows of an attempt whose lease
was never taken (*NothingAhead*); what the execution under way has published
(*Published*); and the outputs of a completed one (*Outputs*).

**BridgeArmingProofs** (`ArmsHold`). That an arm the host holds is in the game's
gate, once no line is on its way, is a statement about two queues in opposite
directions, and not inductive. `BridgeInv` says: types; what each
end of the connection may still see (`ConnectionIsSound`: at most one greeting
comes, and none before the present worker was accepted); that every order,
answer, observation and the gate are of an arm that was asked for, on the screen
it was asked for (`ArmsAreAskedFor`); that leases are held one at a time and over
the bridge that is ready, for the launch it greeted (`LeasesAreHeld`); and where
the arm of a lease is (`ArmIsTracked`): its `QA_ARM` is the last order on its
way, or no order is, and then the gate has it unless its input was observed or
the app's answer says that it is over. With a host's clock that is ahead
(`HostAhead`) what holds is that no arm is ever taken for granted.

**StorageProofs.** One part for each component of `MCStorage`. A step of the
composition is one of a component, so that what is proved of a part holds in the
run.

* *Leases* (`LeasesHold`). `WorkersInv` adds to `LeasesAreSound` that a worker
  that does anything holds exactly its own entry of the manifest
  (*HoldsItsEntry*), and that until something is interrupted the two files say
  the same and what listens on a port is of the worker that holds it
  (*Undisturbed*). That the allocator finds a least free port is not arithmetic
  but induction; it comes from strict inclusion being well-founded on finite
  sets (`MinimalSet`).
* *Cleanup* (`CleanupHolds`). To be DELETING means to belong to one execution:
  at each of its program counters an execution knows which of its runs are still
  in place, in the trash, removed or restored (*DialogIsTrue*), and what an
  answer names is never ACTIVE again.
* *Polling* (`IntervalsHold`): the starts that wait for a sample are some of
  those there were; *snapshot* (`ReportsAreRefusedForTexts`): there is one
  leader, and an attempt has an error only if it failed and has an incident
  behind it.
* *Recording*, for any number of runs on the one recorder, and any handlers.
  `EvidenceStaysFinal` needs no more. That nothing is left PENDING
  (`RecordingsSettle`) is false of a run whose recording met another run's at
  the recorder (`EachIsSettled`, see the table above). The history variable
  `collided` names those: both runs of a start that finds the other's recording
  active, at its beginning or when its own process is up. Of the others
  `OwnedInv` says who a PENDING row belongs to: a handler that is settling it,
  the only one that is opening it, or the active recording of a run whose
  handlers can only be stopping it.
* *Gestures* (`GesturesHold`). A call's program counter says what was done so far
  (`CallIsSound`); every request the server still has is of the session its call
  began in, and for a gesture none has been done (`AskedInv`). What the gesture
  is, is a lemma for each kind (`DrawnInv`): its moves are a prefix, a middle and
  a lift, and the time it takes is a sum over a sequence of any length, which is
  given in closed form; that no other function is that sum follows by the least
  place at which one would differ, since induction is not to be had.
* *The log* (`LogHolds`). `LogInv` has two halves. One is about control
  (`OrderlyInv`): nobody seals under the record that is being appended, whoever
  ends the stream has waited for the queue, and a segment that was sealed is not
  appended to. The other is about content (`KeptInv`): each announced segment is
  the file of that name, no half-written one is left but the open one, and the
  records read are those of the sealed segments, then the open one, then the one
  under way. The join of any number of segments is a function carried in the
  invariant (`Joins`), which each step extends by one place; that it is the
  concatenation is again shown by a least place (`JoinsAreFlat`).
* `NothingIsLeftRunning` puts polling and recording together for the formula the
  run checks.

**HostProofs.** One part for each component of `MCHost`, and at the end a step of
the composition is a step of each or leaves it as it is.

* *Deployments* (`StepsHold`, for the composition `DeploymentsHold`), with runs
  that overlap and crashes anywhere. What is recorded as done must have been
  carried out, although `persist` closes every other running row as SUCCEEDED,
  and each actor reads a machine of its own from rows that others wrote.
  `DeploymentInv` says: of each target, how its rows, its state and what its
  device did fit together (`TargetIsSound`: only the rows of the step it is at
  can be running, everything before that step was done, a failed target knows
  the attempt it failed in, unless it failed before it had one); of each
  machine, that it is where its target is, or that a cancellation took the
  target to CANCELLED while the wipe was awaited (`RunnerFits`); of each
  deployment's row, that one of its targets is in that state (`RowsTrue`); of
  the transactions left of a series, that what they will find is what they were
  made for (`ItemsAreSound`), and that a machine is inside a series of its own
  only when there are none (`ServerIsSound`). A recovery that throws ends the
  server, so after it only the history has to be true (`StepsTell`). The lemmas
  on rows (`AddedIsSound`, `EntersNext`, `OneFailed`, ...) are about rows of any
  number, by their first and last places rather than by induction. All of this
  is said of deployments of which no two runs overlapped and no crash came while
  one of several targets was at a step and one past its precheck: the others are
  *disturbed*, a history variable, and of them it is false
  (`CompletedDidEveryStep`, above). Of every deployment, disturbed or not, holds
  that a COMPLETED target was launched after its last wipe
  (`CompletedWasLaunched`). `LaunchInv` says why: nothing but a machine's own
  launch precedes its last `persist`, a target at a step has its own last row
  open at that step, and no two machines are inside a series of one target
  (`LaunchIsSound`); and a row that reads COMPLETED names no step that a
  recovery could hand to a target (`RowsEnded`).
* *Attempts* (`AttemptsStay`) need only the types, and hold over any crash and
  any overlap.
* *Imports* (`ImportsHold`). `ImportInv` says of each request what it has left on
  the disk and in the catalogue at its program counter (`ImportIsSound`), and
  that a file which is catalogued, or about to be, is there or was withdrawn by a
  request that had put it there (`There`).
* *Readings* (`ReadingsHold`). Of a registration: the files are streamed from
  the path that was read first, which is gone once another build is installed,
  so what was read in between is of the same build (`ReadInOrder`), and a digest
  is of that build or, if a file was gone or cut short, of no build; of a tool:
  no result before its process is gone (`OutputIsTrue`); of the self-check:
  every diagnostic is what the machine's errors make it (`Judged`), and the
  files of a report fit where its publication stands (`FilesOfStep`).
* *Devices* (`DevicesHold`). Of the register: the history is what was heard since
  the start, after what there was before (`HistoryIsTrue`); of the uids: data and
  reports are counted in order, and what is shown is of data no wipe destroyed
  (`DataAreCounted`, `ReportsAreCounted`, `ShownIsPresent`).
* `StepsWriteTrue` joins `AttemptsStay` with what a poll that finishes writes.

**ConsoleProofs.** One part for each page (`PagesInv`).

* *Live* (`ShownHolds`): a provider takes screenshots only when its transport is
  closed, the fallback is active and no start is under way (`ProviderSound`); the
  viewport's socket is the last one opened, of the device it is set to
  (`ViewSound`).
* *Sessions* (`ViewHolds`): the page holds a copy of its run that is not newer
  than the run (`PageSound`), and the answer to the one handler that is busy lies
  between the two (`CallSound`), whatever requests of a page that was left are
  still under way (`AdriftSound`).
* *Results* (`ListHolds`): one reading of the history is under way, and what it
  brings is between the list and the history (`ListIsBehind`).
* *Cleanup* (`DeletesHold`): what is selected, and what the dialog is at work on,
  the operator ticked and did not untick himself (`CleanupInv`).
* *Devices* (`PagesHold`), whatever answers overtake each other: unless an event
  is on its way, what the list shows is up to date (`UpToDate`), or a reading is
  under way that was not overtaken and has nothing stale behind it (`AskedAgain`).
  A list whose last answer had been overtaken is excepted (`late`): it may be
  older, see `SettledListIsAlwaysCurrent` above.

**Only model-checked** is liveness (`EveryActionSettles`, `HandlersReturn`,
`MonitorsGoOn`, `FinalizationSettles`, `ExportsSettle`, `EveryArmSettles`):
fairness and ENABLED are out of the prover's reach.

## What is not modelled

* *Console:* the overview, deployments and apps pages, the build dialog, the uid
  editor and the incident timeline, which only show what one call answered.
* *Launcher and credential helper:* two messages; one secret.
* *`leaseNext`, `coordinator.start` of the video, `InstallSetExecutor`, AAB
  conversion, the evidence manifest, redacted logs and
  mandatory captures* have no production caller, or cannot be reached as
  `device-runtime.ts` wires the server.
* `AppiumActionExecutor` takes the workers' place when the server is started with
  `TEST_CENTER_APPIUM_URL` (`device-runtime.ts:664-730`). It opens a session for
  each action on a server that somebody else runs; the managed workers, which the
  models are of, are what the server has otherwise.
* *Tags* are one row each. *LOW_DISK* is emitted by nothing.
* *Conversions:* ADB and logcat parsing, payload schemas, frame encoding, HTML
  and PDF hold no control; a package's contents are one outcome.

## Plan

Built, checked and proved: the action pipeline with its refinement and its
reconciliation, the session runtime with its refinement, faults, report
finalization, the bridge, the storage parts, the host's parts and the console's.

Left: the pages that only show what one call answered, if they come to do more;
the disagreements above, when the code changes, since each is
a property that is ready to be checked; and the liveness properties for any
constants, which need a prover that knows fairness.
