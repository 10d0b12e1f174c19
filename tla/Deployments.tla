---------------------------- MODULE Deployments ----------------------------
(***************************************************************************)
(* A deployment puts one artifact on one to four devices                   *)
(* (deployment-orchestrator.ts).  Each target has a state machine          *)
(* (deployment-machine.ts) held in memory by the run that executes it; its *)
(* snapshots go to the database (deployment-repository.ts), from which     *)
(* cancel, retry, the next run and a restarted server build machines of    *)
(* their own.  A destructive deployment consumes a confirmation            *)
(* (destructive-confirmation.ts) and records its wipes with the            *)
(* installation (installation-repository.ts).                              *)
(*                                                                         *)
(* The server is one thread: what it does between two awaits is a series   *)
(* of transactions nobody else comes between, but a crash does.  `work'    *)
(* holds what is left of such a series, taken in its order, and a runner   *)
(* that is not waiting for its device is inside one.                       *)
(***************************************************************************)
EXTENDS Integers, FiniteSets, Sequences, SequencesExt

CONSTANTS
  MaxDeployments, \* bound: deployments are numbered in the order of creation
  TargetsOf,      \* deployment -> its devices, the leader first
  MutationOf,     \* deployment -> "NONE", "CLEAR_DATA", "UNINSTALL_REINSTALL"
  MaxNonces,      \* bound: confirmations issued
  MaxRuns,        \* bound: starts and retries of each deployment
  MaxCrashes,     \* bound: crashes of the server
  MaxOverlap      \* bound: runs of one deployment under way at a time

Deployment == 1..MaxDeployments
Device     == UNION {ToSet(TargetsOf[d]) : d \in Deployment}
Mutation   == {"CLEAR_DATA", "UNINSTALL_REINSTALL"}
Slot       == 1..MaxOverlap  \* a run under way, of whichever deployment

ASSUME DeploymentsAssumption ==
  /\ MaxDeployments \in Nat /\ MaxNonces \in Nat /\ MaxCrashes \in Nat
  /\ MaxOverlap \in Nat \ {0}
  /\ \A d \in Deployment : /\ TargetsOf[d] \in Seq(Device) /\ IsInjective(TargetsOf[d])
                           /\ Len(TargetsOf[d]) \in 1..4
  /\ \A d \in Deployment : MaxRuns[d] \in Nat
  /\ \A d \in Deployment : MutationOf[d] \in Mutation \cup {"NONE"}

VARIABLES
  server,       \* "up", "down", or "refused": the start of the server threw
  work,         \* transactions left of what the server does without an await
  row,          \* row of the deployment: state and current_step of the last writer
  target,       \* deployment_devices.state
  steps,        \* deployment_steps of each target, in the order of their ids
  runner,       \* run of a deployment -> its machines, in memory
  installation, \* device_app_installations
  confirmation, \* destructive_confirmations
  done,         \* history: steps the device carried out for the target
  disturbed,    \* history: deployments whose runs overlapped, or a wide crash met
  runs,         \* counter: starts and retries of each deployment
  crashes       \* counter

database == <<row, target, steps, installation, confirmation>>
counters == <<runs, crashes>>
vars     == <<server, work, database, runner, done, disturbed, counters>>

-----------------------------------------------------------------------------
StepOrder == <<"PRECHECK", "PREPARE", "INSTALL", "VERIFY", "LAUNCH">>
Step      == ToSet(StepOrder)
Ended     == {"COMPLETED", "CANCELLED"}
Settled   == Ended \cup {"FAILED"}
Cancellable == {"QUEUED", "PRECHECK", "PREPARE"}
TargetState == Step \cup Settled \cup {"QUEUED"}

Position(step) == IF step = "none" THEN 0 ELSE CHOOSE i \in 1..5 : StepOrder[i] = step

\* A machine: its state, and the step its index points at; and the mutation
\* its run has recorded, which is the data generation it made.
Machine == [state : TargetState, step : Step \cup {"none"}, waiting : BOOLEAN, wipe : Nat]
NoRun   == [state |-> "COMPLETED", step |-> "none", waiting |-> FALSE, wipe |-> 0]

StepRow == [step : Step, attempt : 1..2, state : {"RUNNING", "SUCCEEDED", "FAILED", "CANCELLED"}]

LastIn(rows, state) ==
  LET found == {i \in DOMAIN rows : rows[i].state = state}
  IN  IF found = {} THEN "none" ELSE rows[CHOOSE i \in found : \A j \in found : j <= i].step

\* Mutant: the update of a row does not ask whether it is running.
ClosedAny(rows, which, state) ==
  [i \in DOMAIN rows |-> IF i \in which THEN [rows[i] EXCEPT !.state = state] ELSE rows[i]]

\* The rows of the set become `state' if they are running.
Closed(rows, which, state) ==
  [i \in DOMAIN rows |->
     IF i \in which /\ rows[i].state = "RUNNING" THEN [rows[i] EXCEPT !.state = state] ELSE rows[i]]

StepsEntered(rows, step, attempt) ==
  IF step = "none" THEN rows
  ELSE LET others == {i \in DOMAIN rows : rows[i].step # step}
           closed == Closed(rows, others, "SUCCEEDED")
           known  == \E i \in DOMAIN rows : rows[i].step = step /\ rows[i].attempt = attempt
       IN  IF known THEN closed
           ELSE Append(closed, [step |-> step, attempt |-> attempt, state |-> "RUNNING"])

\* Mutant: a cancellation closes the running step as a completion does.
RecordedSucceeding(rows, state, step, attempt) ==
  LET entered == StepsEntered(rows, step, attempt)
      failing == {i \in DOMAIN entered : entered[i].step = step /\ entered[i].attempt = attempt}
  IN  CASE state = "FAILED" -> Closed(entered, failing, "FAILED")
        [] state \in Ended  -> Closed(entered, DOMAIN entered, "SUCCEEDED")
        [] OTHER            -> entered

\* Only the row of the machine's attempt fails; a machine read from the
\* database counts from attempt one, whatever attempt is running.
Recorded(rows, state, step, attempt) ==
  LET entered == StepsEntered(rows, step, attempt)
      failing == {i \in DOMAIN entered : entered[i].step = step /\ entered[i].attempt = attempt}
  IN  CASE state = "FAILED"    -> Closed(entered, failing, "FAILED")
        [] state = "COMPLETED" -> Closed(entered, DOMAIN entered, "SUCCEEDED")
        [] state = "CANCELLED" -> Closed(entered, DOMAIN entered, "CANCELLED")
        [] OTHER               -> entered

Persist(d, s, state, step, attempt) ==
  /\ row' = [row EXCEPT ![d] = [state |-> state, step |-> step]]
  /\ target' = [target EXCEPT ![d][s] = state]
  /\ steps' = [steps EXCEPT ![d][s] = Recorded(@, state, step, attempt)]

\* The machine another actor, or the next run, reads.
Loaded(d, s) == [state |-> target[d][s], step |-> LastIn(steps[d][s], "RUNNING"),
                 waiting |-> FALSE, wipe |-> 0]

-----------------------------------------------------------------------------
Created(d)    == row[d].state # "none"
Executing(k, d, s) == runner[k][d][s] # NoRun
Under(k, d)   == \E s \in ToSet(TargetsOf[d]) : Executing(k, d, s)
Running(d)    == \E k \in Slot : Under(k, d)
Inside(k, d, s) == Executing(k, d, s) /\ ~runner[k][d][s].waiting
Items(d, op, which) == {[op |-> op, d |-> d, s |-> s] : s \in which}

\* They go by deployment, and by its targets; the run comes after its retries.
Index(d, s)  == CHOOSE i \in DOMAIN TargetsOf[d] : TargetsOf[d][i] = s
Before(x, y) == \/ x.d < y.d
                \/ /\ x.d = y.d /\ x.op # "RUN"
                   /\ y.op = "RUN" \/ Index(x.d, x.s) < Index(y.d, y.s)

\* Nothing is running between two awaits: the event loop takes the next event.
Quiet == /\ server = "up" /\ work = {}
         /\ \A k \in Slot : \A d \in Deployment : \A s \in ToSet(TargetsOf[d]) : ~Inside(k, d, s)

Occupied(s) == \E d \in Deployment :
                 Created(d) /\ s \in ToSet(TargetsOf[d]) /\ row[d].state \notin Settled

TypeOK ==
  /\ server \in {"up", "down", "refused"}
  /\ \A w \in work : w.d \in Deployment /\ w.s \in ToSet(TargetsOf[w.d])
  /\ row \in [Deployment -> [state : TargetState \cup {"none"}, step : Step \cup {"none"}]]
  /\ \A d \in Deployment : /\ target[d] \in [ToSet(TargetsOf[d]) -> TargetState]
                           /\ \A k \in Slot : runner[k][d] \in [ToSet(TargetsOf[d]) -> Machine]
                           /\ steps[d] \in [ToSet(TargetsOf[d]) -> Seq(StepRow)]
                           /\ done[d] \in [ToSet(TargetsOf[d]) -> SUBSET Step]
  /\ installation \in [Device -> [install : Nat, data : Nat,
                                  status : {"NULL", "PENDING", "SUCCEEDED", "FAILED"}]]
  /\ Len(confirmation) <= MaxNonces
  /\ disturbed \subseteq Deployment

Init ==
  /\ server = "up" /\ work = {}
  /\ row = [d \in Deployment |-> [state |-> "none", step |-> "none"]]
  /\ target = [d \in Deployment |-> [s \in ToSet(TargetsOf[d]) |-> "QUEUED"]]
  /\ steps = [d \in Deployment |-> [s \in ToSet(TargetsOf[d]) |-> <<>>]]
  /\ runner = [k \in Slot |-> [d \in Deployment |-> [s \in ToSet(TargetsOf[d]) |-> NoRun]]]
  /\ installation = [s \in Device |-> [install |-> 1, data |-> 1, status |-> "NULL"]]
  /\ confirmation = <<>>
  /\ done = [d \in Deployment |-> [s \in ToSet(TargetsOf[d]) |-> {}]]
  /\ disturbed = {} /\ runs = [d \in Deployment |-> 0]
  /\ crashes = 0

-----------------------------------------------------------------------------
(* Confirmations, and the creation of a deployment.                        *)

\* For a deployment the tester means to create.
IssueConfirmation(d) ==
  LET leader == TargetsOf[d][1]
  IN  /\ Quiet
      /\ ~Created(d) /\ MutationOf[d] # "NONE"
      /\ Len(confirmation) < MaxNonces
      /\ confirmation' = Append(confirmation,
           [serial |-> leader, kind |-> MutationOf[d], install |-> installation[leader].install,
            data |-> installation[leader].data, state |-> "issued", for |-> 0])
      /\ UNCHANGED <<server, work, row, target, steps, installation, runner, done, disturbed, counters>>

ConfirmationExpires(n) ==
  /\ n \in DOMAIN confirmation /\ confirmation[n].state = "issued"
  /\ confirmation' = [confirmation EXCEPT ![n].state = "expired"]
  /\ UNCHANGED <<server, work, row, target, steps, installation, runner, done, disturbed, counters>>

\* The route passes no generations, so create() compares with generation one
\* and not with those of the installation; it names the leader only.
Confirms(n, d) ==
  /\ confirmation[n].state = "issued"
  /\ confirmation[n].serial = TargetsOf[d][1]
  /\ confirmation[n].kind = MutationOf[d]
  /\ confirmation[n].install = 1 /\ confirmation[n].data = 1

Insert(d) ==
  /\ Quiet
  /\ ~Created(d) /\ \A e \in 1..(d - 1) : Created(e)
  /\ \A s \in ToSet(TargetsOf[d]) : ~Occupied(s)
  /\ row' = [row EXCEPT ![d].state = "QUEUED"]
  /\ UNCHANGED <<server, work, target, steps, installation, runner, done, disturbed, counters>>

Create(d) ==
  /\ MutationOf[d] = "NONE"
  /\ Insert(d)
  /\ UNCHANGED confirmation

CreateDestructive(d, n) ==
  /\ MutationOf[d] # "NONE"
  /\ n \in DOMAIN confirmation /\ Confirms(n, d)
  /\ Insert(d)
  /\ confirmation' = [confirmation EXCEPT ![n].state = "consumed", ![n].for = d]

-----------------------------------------------------------------------------
(* start, retry and cancel.  None of them asks whether a run of the         *)
(* deployment is under way: each run has machines of its own.              *)

MayRun(d) == /\ Quiet /\ Created(d) /\ runs[d] < MaxRuns[d]
             /\ \E k \in Slot : ~Under(k, d)

\* What run() does before its first await begins with the machines.
Load(d) ==
  /\ \E k \in Slot :
       /\ ~Under(k, d) /\ \A j \in 1..(k - 1) : Under(j, d)
       /\ runner' = [runner EXCEPT ![k][d] = [s \in DOMAIN @ |->
                       IF target[d][s] \in Settled THEN NoRun ELSE Loaded(d, s)]]
  /\ disturbed' = IF Running(d) THEN disturbed \cup {d} ELSE disturbed

Start(d) ==
  /\ MayRun(d)
  /\ \E s \in ToSet(TargetsOf[d]) : target[d][s] \notin Settled
  /\ Load(d)
  /\ runs' = [runs EXCEPT ![d] = @ + 1]
  /\ UNCHANGED <<server, work, database, done, crashes>>

Retry(d) ==
  LET failed == {s \in ToSet(TargetsOf[d]) : target[d][s] = "FAILED"}
  IN  /\ MayRun(d) /\ failed # {}
      /\ work' = Items(d, "RETRY", failed) \cup Items(d, "RUN", {TargetsOf[d][1]})
      /\ runs' = [runs EXCEPT ![d] = @ + 1]
      /\ UNCHANGED <<server, database, runner, done, disturbed, crashes>>

\* A cancellation whose first target is past PREPARE is rejected at once.
Cancel(d) ==
  LET open == {s \in ToSet(TargetsOf[d]) : target[d][s] \notin Settled}
  IN  /\ Quiet /\ Created(d) /\ open # {}
      /\ \E s \in open : /\ \A t \in open \ {s} : Index(d, s) < Index(d, t)
                         /\ target[d][s] \in Cancellable
      /\ work' = Items(d, "CANCEL", open)
      /\ UNCHANGED <<server, database, runner, done, disturbed, counters>>

Requested(w, op) == /\ server = "up" /\ w.op = op
                    /\ \A v \in work \ {w} : Before(w, v)

\* An item that throws ends the request: the items after it are dropped.
DispatchRetry ==
  \E w \in work :
    LET d == w.d  s == w.s  step == LastIn(steps[d][s], "FAILED")
    IN  /\ Requested(w, "RETRY")
        /\ \/ step = "none" /\ work' = {} /\ UNCHANGED <<row, target, steps>>
           \/ step # "none" /\ work' = work \ {w} /\ Persist(d, s, step, step, 2)
        /\ UNCHANGED <<server, installation, confirmation, runner, done, disturbed, counters>>

RunAfterRetry ==
  \E w \in work :
    /\ Requested(w, "RUN")
    /\ work' = work \ {w}
    /\ Load(w.d)
    /\ UNCHANGED <<server, database, done, counters>>

DispatchCancel ==
  \E w \in work :
    LET d == w.d  s == w.s
    IN  /\ Requested(w, "CANCEL")
        /\ \/ /\ target[d][s] \in Cancellable
              /\ work' = work \ {w}
              /\ Persist(d, s, "CANCELLED", Loaded(d, s).step, 1)
           \/ /\ target[d][s] \notin Cancellable
              /\ work' = {}
              /\ UNCHANGED <<row, target, steps>>
        /\ UNCHANGED <<server, installation, confirmation, runner, done, disturbed, counters>>

-----------------------------------------------------------------------------
(* runTarget.                                                              *)

\* The runners of one tick go one after the other.
Turn(k, d, s) ==
  /\ server = "up" /\ work = {}
  /\ Inside(k, d, s)
  /\ \A i, j \in DOMAIN TargetsOf[d] :
       i < j /\ TargetsOf[d][j] = s => ~Inside(k, d, TargetsOf[d][i])

\* START_OR_ADVANCE.  A machine read without a running step has index -1,
\* and advances to the first step.
Advanced(machine) ==
  LET next == Position(machine.step) + 1
  IN  IF machine.state # "QUEUED" /\ next > Len(StepOrder)
      THEN [state |-> "COMPLETED", step |-> "none"]
      ELSE [state |-> StepOrder[IF machine.state = "QUEUED" THEN 1 ELSE next],
            step  |-> StepOrder[IF machine.state = "QUEUED" THEN 1 ELSE next]]

AwaitsDevice(state) == state \in {"INSTALL", "VERIFY", "LAUNCH"}

Advance(k, d, s) ==
  LET next == Advanced(runner[k][d][s])
  IN  /\ Persist(d, s, next.state, next.step, 1)
      /\ runner' = [runner EXCEPT ![k][d][s] =
           IF next.state = "COMPLETED" THEN NoRun
           ELSE [state |-> next.state, step |-> next.step, waiting |-> AwaitsDevice(next.state), wipe |-> 0]]

\* FAIL; without an active step the machine throws, and so does the run.
Fail(k, d, s) ==
  /\ \/ runner[k][d][s].step = "none" /\ UNCHANGED <<row, target, steps>>
     \/ runner[k][d][s].step # "none" /\ Persist(d, s, "FAILED", runner[k][d][s].step, 1)
  /\ runner' = [runner EXCEPT ![k][d][s] = NoRun]

\* QUEUED to PRECHECK, and PRECHECK to PREPARE or to FAILED.
Precheck(k, d, s) ==
  /\ Turn(k, d, s) /\ runner[k][d][s].state \in {"QUEUED", "PRECHECK"}
  /\ \/ Advance(k, d, s)
     \/ runner[k][d][s].state = "PRECHECK" /\ Fail(k, d, s)
  /\ done' = [done EXCEPT ![d][s] =
       IF runner'[k][d][s].state = "PREPARE" THEN @ \cup {"PRECHECK"} ELSE @]
  /\ UNCHANGED <<server, work, installation, confirmation, disturbed, counters>>

PrepareNothing(k, d, s) ==
  /\ Turn(k, d, s) /\ runner[k][d][s].state = "PREPARE" /\ MutationOf[d] = "NONE"
  /\ done' = [done EXCEPT ![d][s] = @ \cup {"PREPARE"}]
  /\ Advance(k, d, s)
  /\ UNCHANGED <<server, work, installation, confirmation, disturbed, counters>>

\* recordDataMutation, then clearData or uninstallReinstall is sent.
RecordWipe(d, s) ==
  installation' = [installation EXCEPT
    ![s].install = IF MutationOf[d] = "UNINSTALL_REINSTALL" THEN @ + 1 ELSE @,
    ![s].data = @ + 1, ![s].status = "PENDING"]

Wipe(k, d, s) ==
  /\ Turn(k, d, s) /\ runner[k][d][s].state = "PREPARE" /\ MutationOf[d] # "NONE"
  /\ RecordWipe(d, s)
  /\ done' = [done EXCEPT ![d][s] = @ \ {"PREPARE", "INSTALL", "VERIFY", "LAUNCH"}]
  /\ runner' = [runner EXCEPT ![k][d][s].waiting = TRUE, ![k][d][s].wipe = installation'[s].data]
  /\ UNCHANGED <<server, work, row, target, steps, confirmation, disturbed, counters>>

\* A run that starts at INSTALL, VERIFY or LAUNCH goes to its device at once.
Resume(k, d, s) ==
  /\ Turn(k, d, s) /\ AwaitsDevice(runner[k][d][s].state)
  /\ runner' = [runner EXCEPT ![k][d][s].waiting = TRUE]
  /\ UNCHANGED <<server, work, database, done, disturbed, counters>>

DeviceAnswered(k, d, s) == Quiet /\ Executing(k, d, s)

\* recordMutationResult throws when the mutation is no longer pending, or
\* another was recorded since, and its caller then fails the step.
Wiped(k, d, s) ==
  /\ DeviceAnswered(k, d, s) /\ runner[k][d][s].state = "PREPARE"
  /\ \E ok \in BOOLEAN :
       LET pending == /\ installation[s].status = "PENDING"
                      /\ installation[s].data = runner[k][d][s].wipe
       IN  /\ installation' = [installation EXCEPT ![s].status =
                IF ~pending THEN @ ELSE IF ok THEN "SUCCEEDED" ELSE "FAILED"]
           /\ IF ok /\ pending
              THEN /\ done' = [done EXCEPT ![d][s] = @ \cup {"PREPARE"}]
                   /\ Advance(k, d, s)
              ELSE UNCHANGED done /\ Fail(k, d, s)
  /\ UNCHANGED <<server, work, confirmation, disturbed, counters>>

\* Mutant: the exit code of the command is not looked at.
PerformedUnchecked(k, d, s) ==
  LET step == runner[k][d][s].state
  IN  /\ DeviceAnswered(k, d, s) /\ AwaitsDevice(step)
      /\ \E ok \in BOOLEAN : done' = [done EXCEPT ![d][s] = IF ok THEN @ \cup {step} ELSE @]
      /\ Advance(k, d, s)
      /\ UNCHANGED <<server, work, installation, confirmation, disturbed, counters>>

\* installApk, collectIdentity with the comparison, or startActivity with the
\* foreground checks, has ended.
Performed(k, d, s) ==
  LET step == runner[k][d][s].state
  IN  /\ DeviceAnswered(k, d, s) /\ AwaitsDevice(step)
      /\ \/ /\ done' = [done EXCEPT ![d][s] = @ \cup {step}]
            /\ Advance(k, d, s)
         \/ UNCHANGED done /\ Fail(k, d, s)
      /\ UNCHANGED <<server, work, installation, confirmation, disturbed, counters>>

\* The tester enters a UID while a wipe is pending: the observation clears
\* its status.
TypeUid(s) ==
  /\ Quiet /\ installation[s].status = "PENDING"
  /\ installation' = [installation EXCEPT ![s].status = "NULL"]
  /\ UNCHANGED <<server, work, row, target, steps, confirmation, runner, done, disturbed, counters>>

-----------------------------------------------------------------------------
(* Crash and restart.                                                      *)

\* A crash is wide that meets a deployment of several devices at work, of
\* which one is past its precheck.
Wide(d) == /\ Len(TargetsOf[d]) > 1
           /\ \E s \in ToSet(TargetsOf[d]) : target[d][s] \in Step
           /\ \E s \in ToSet(TargetsOf[d]) : target[d][s] \notin {"QUEUED", "PRECHECK"}

Crash ==
  /\ server = "up" /\ crashes < MaxCrashes
  /\ server' = "down" /\ work' = {}
  /\ runner' = [k \in Slot |-> [d \in Deployment |-> [s \in ToSet(TargetsOf[d]) |-> NoRun]]]
  /\ disturbed' = disturbed \cup {d \in Deployment : Wide(d)}
  /\ crashes' = crashes + 1
  /\ UNCHANGED <<database, done, runs>>

Interrupted(d) == row[d].state \in Step \/ \E s \in ToSet(TargetsOf[d]) : target[d][s] \in Step

\* recoverInterrupted reads the rows once, and goes through their targets.
Restart ==
  /\ server = "down"
  /\ server' = "up"
  /\ work' = UNION {{[op |-> "RECOVER", d |-> d, s |-> s, row |-> row[d]] :
                      s \in ToSet(TargetsOf[d])} : d \in {e \in Deployment : Interrupted(e)}}
  /\ UNCHANGED <<database, runner, done, disturbed, counters>>

\* A target of a migrated database has no rows of its own, and takes state and
\* step of its deployment; any target without a running step is taken for one.
RecoverFromRow ==
  \E w \in work :
    LET d == w.d  s == w.s  from == w.row
        inserted == IF \E i \in DOMAIN steps[d][s] :
                         steps[d][s][i].step = from.step /\ steps[d][s][i].attempt = 1
                    THEN steps[d][s]
                    ELSE Append(steps[d][s],
                                [step |-> from.step, attempt |-> 1, state |-> "RUNNING"])
        active == LastIn(inserted, "RUNNING")
    IN  /\ Requested(w, "RECOVER")
        /\ Loaded(d, s).step = "none" /\ from.step # "none"
        /\ IF active = from.step /\ from.state \notin Ended
           THEN /\ work' = work \ {w}
                /\ row' = [row EXCEPT ![d] = [state |-> "FAILED", step |-> active]]
                /\ target' = [target EXCEPT ![d][s] = "FAILED"]
                /\ steps' = [steps EXCEPT ![d][s] = Recorded(inserted, "FAILED", active, 1)]
                /\ UNCHANGED server
           ELSE /\ server' = "refused" /\ work' = {}
                /\ target' = [target EXCEPT ![d][s] = from.state]
                /\ steps' = [steps EXCEPT ![d][s] = inserted]
                /\ UNCHANGED row
        /\ UNCHANGED <<installation, confirmation, runner, done, disturbed, counters>>

RecoverTarget ==
  \E w \in work :
    LET d == w.d  s == w.s  active == Loaded(d, s).step
    IN  /\ Requested(w, "RECOVER")
        /\ active # "none" \/ w.row.step = "none"
        /\ work' = work \ {w}
        /\ IF target[d][s] \in Step /\ active # "none"
           THEN Persist(d, s, "FAILED", active, 1)
           ELSE UNCHANGED <<row, target, steps>>
        /\ UNCHANGED <<server, installation, confirmation, runner, done, disturbed, counters>>

-----------------------------------------------------------------------------
\* The rest of what the server does before its next await.
Tick ==
  \/ DispatchRetry \/ RunAfterRetry \/ DispatchCancel \/ RecoverFromRow \/ RecoverTarget
  \/ \E k \in Slot : \E d \in Deployment : \E s \in ToSet(TargetsOf[d]) :
       Precheck(k, d, s) \/ PrepareNothing(k, d, s) \/ Wipe(k, d, s) \/ Resume(k, d, s)

DeviceAnswers(k, d, s) == Wiped(k, d, s) \/ Performed(k, d, s)

Next ==
  \/ Tick
  \/ \E k \in Slot : \E d \in Deployment : \E s \in ToSet(TargetsOf[d]) : DeviceAnswers(k, d, s)
  \/ \E d \in Deployment : IssueConfirmation(d) \/ Create(d) \/ Start(d) \/ Retry(d) \/ Cancel(d)
  \/ \E d \in Deployment, n \in 1..MaxNonces : CreateDestructive(d, n)
  \/ \E n \in 1..MaxNonces : ConfirmationExpires(n)
  \/ \E s \in Device : TypeUid(s)
  \/ Crash \/ Restart

Spec == Init /\ [][Next]_vars

-----------------------------------------------------------------------------
(* Properties.                                                             *)

\* A target reads COMPLETED only when its device carried out every step for it,
\* the later ones after the last wipe: whatever retries, cancellations and
\* restarts came between (deployment-orchestrator.ts:277-371).
DidEverySteps(ds) ==
  \A d \in ds : \A s \in ToSet(TargetsOf[d]) : target[d][s] = "COMPLETED" => done[d][s] = Step

\* A step attempt recorded as SUCCEEDED is one the device carried out, although
\* persist() marks every other running row so (deployment-repository.ts:83-89).
HistoriesAreTrue(ds) ==
  \A d \in ds : \A s \in ToSet(TargetsOf[d]) : \A i \in DOMAIN steps[d][s] :
    steps[d][s][i].state = "SUCCEEDED" => steps[d][s][i].step \in done[d][s]

\* Of all deployments the code breaks both, by runs that overlap and by wide
\* crashes: README, Disagreements without a run.
CompletedDidEveryStep == DidEverySteps(Deployment)
StepHistoryIsTrue     == HistoriesAreTrue(Deployment)

\* However runs overlap and whenever the server crashes, a target reads COMPLETED
\* only when its device launched the package for it after the last wipe.
CompletedWasLaunched ==
  \A d \in Deployment : \A s \in ToSet(TargetsOf[d]) :
    target[d][s] = "COMPLETED" => "LAUNCH" \in done[d][s]

\* The steps of a deployment are true: what is recorded as done is what the
\* devices carried out, while its runs come one after the other and no crash is
\* wide; and COMPLETED is never read of a target that was not launched.
StepsAreTrue ==
  /\ TypeOK /\ CompletedWasLaunched
  /\ DidEverySteps(Deployment \ disturbed) /\ HistoriesAreTrue(Deployment \ disturbed)

\* A finished step attempt is never changed or removed, by a run, a retry, a
\* cancellation or the recovery (deployment-repository.ts:90-131).
AttemptsAreFinal ==
  [][\A d \in Deployment : \A s \in ToSet(TargetsOf[d]) : \A i \in DOMAIN steps[d][s] :
       steps[d][s][i].state # "RUNNING" =>
         i \in DOMAIN steps'[d][s] /\ steps'[d][s][i] = steps[d][s][i]]_vars

\* A restart that met active deployments leaves none of their targets active,
\* when all of them had reached their devices
\* (deployment-orchestrator.ts:421-478).
\* The code breaks it: README, Disagreements without a run.
AtWork(d) == \A s \in ToSet(TargetsOf[d]) : \E i \in DOMAIN steps[d][s] : steps[d][s][i].step = "INSTALL"
RestartMarksInterrupted ==
  server = "refused" \/ (Quiet /\ crashes > 0) =>
    \A d \in Deployment : AtWork(d) =>
      \A s \in ToSet(TargetsOf[d]) : target[d][s] \in Step => \E k \in Slot : Executing(k, d, s)
=============================================================================
