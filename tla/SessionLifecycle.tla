-------------------------- MODULE SessionLifecycle --------------------------
(***************************************************************************)
(* The operator handlers of one run (session-runtime.ts) and the device    *)
(* workers they start and stop (runtime-worker-coordinator.ts,             *)
(* device-worker.ts, worker-resource-manager.ts).                          *)
(*                                                                         *)
(* A handler reads the run, awaits (a probe, the workers, the video        *)
(* recorder), and commits with a compare-and-set on what it read.  Several *)
(* may be between two awaits at once: each occupies a Slot, and jobs holds *)
(* what it remembers.  runState, epoch, rows and lease are persistent; the *)
(* coordinator's entry, the workers and the jobs die with the server.      *)
(***************************************************************************)
EXTENDS Naturals

CONSTANTS
  Serial,     \* the devices selected when the run was created
  MaxEpoch,   \* bound: membership epochs a behaviour may open
  Slot,       \* handlers that may be under way at once
  MaxGroups,  \* bound: worker groups that may be alive at once
  StopsFail,  \* whether stopping a worker may fail
  Crashes     \* whether the server may go down and be launched again

ASSUME SessionLifecycleAssumption ==
  /\ "none" \notin Serial
  /\ MaxEpoch \in Nat \ {0}
  /\ MaxGroups \in Nat \ {0}
  /\ StopsFail \in BOOLEAN
  /\ Crashes \in BOOLEAN

VARIABLES
  runState,  \* test_runs.state
  epoch,     \* test_runs.current_epoch
  rows,      \* run_devices, by epoch and serial
  lease,     \* generation in the serial's entry of worker-resources.json
  entry,     \* group registered in the coordinator's runs map, 0 for none
  worker,    \* state of each worker of each group
  holds,     \* generation of the resource lease a worker holds
  jobs       \* the handlers under way

durable == <<runState, epoch, rows, lease>>
vars    == <<durable, entry, worker, holds, jobs>>

Group == 1..MaxGroups
Epoch == 1..MaxEpoch

NoRow == [role |-> "none", membership |-> "OUT", generation |-> 0]

\* BOOTING: still STARTING for the code, with the resource lease in hand.
Starting    == {"STARTING", "BOOTING"}
WorkerState == Starting \cup {"none", "READY", "STOPPING", "STOPPED", "ERROR"}

Op == {"none", "preflight", "start", "pause", "resume", "rejoin", "promote", "complete"}
Pc == {"idle", "probe", "starting", "unwinding", "video", "undo", "undone", "stopping"}

Idle == [op |-> "none", pc |-> "idle", state |-> "CREATED", epoch |-> 1, members |-> {},
         target |-> "none", group |-> 0, waiting |-> {}, refused |-> FALSE]

TypeOK ==
  /\ runState \in {"CREATED", "PREFLIGHT", "RUNNING", "PAUSED", "FINISHED"}
  /\ epoch \in Epoch
  /\ rows \in [Epoch -> [Serial ->
       [role : {"none", "LEADER", "FOLLOWER"},
        membership : {"OUT", "ACTIVE", "QUARANTINED"},
        generation : 0..MaxEpoch]]]
  /\ lease \in [Serial -> 0..MaxEpoch]
  /\ entry \in 0..MaxGroups
  /\ worker \in [Group -> [Serial -> WorkerState]]
  /\ holds \in [Group -> [Serial -> 0..MaxEpoch]]
  /\ jobs \in [Slot -> [op : Op, pc : Pc, state : {"CREATED", "RUNNING", "PAUSED"},
                        epoch : Epoch, members : SUBSET Serial, target : Serial \cup {"none"},
                        group : 0..MaxGroups, waiting : SUBSET Serial, refused : BOOLEAN]]

Row(s) == rows[epoch][s]
Active == {s \in Serial : Row(s).membership = "ACTIVE"}
Leader == CHOOSE s \in Serial : Row(s).role = "LEADER"

Init ==
  /\ runState = "CREATED"
  /\ epoch = 1
  /\ \E first \in Serial :
       rows = [e \in Epoch |-> [s \in Serial |->
                 IF e > 1 THEN NoRow
                 ELSE [role |-> IF s = first THEN "LEADER" ELSE "FOLLOWER",
                       membership |-> "ACTIVE", generation |-> 1]]]
  /\ lease = [s \in Serial |-> 0]
  /\ entry = 0
  /\ worker = [k \in Group |-> [s \in Serial |-> "none"]]
  /\ holds = [k \in Group |-> [s \in Serial |-> 0]]
  /\ jobs = [h \in Slot |-> Idle]
-----------------------------------------------------------------------------
At(h, ops, pc) == jobs[h].op \in ops /\ jobs[h].pc = pc

\* The handler goes on with some fields changed, or returns.
Become(h, job) == jobs' = [jobs EXCEPT ![h] = job]
Return(h) == Become(h, Idle)

\* A group nobody can reach any more, and that runs nothing.
Unused(k) ==
  /\ k # entry
  /\ \A h \in Slot : jobs[h].group # k
  /\ \A s \in Serial : worker[k][s] \in {"none", "STOPPED", "ERROR"}

\* RuntimeWorkerCoordinator.start, up to its first await, for a handler that
\* then awaits the group: it throws when the run has an entry.
Register(h, job) ==
  /\ entry = 0
  /\ \E k \in Group :
       /\ Unused(k)
       /\ \A j \in 1..(k - 1) : ~ Unused(j)
       /\ entry' = k
       /\ worker' = [worker EXCEPT ![k] = [s \in Serial |-> "none"]]
       /\ holds' = [holds EXCEPT ![k] = [s \in Serial |-> 0]]
       /\ Become(h, [job EXCEPT !.pc = "starting", !.group = k])
  /\ UNCHANGED durable

(* stopWorkers, for a handler that then awaits the workers it could stop:  *)
(* one that is starting or stopping refuses at once.                       *)
Stoppable(states) == {s \in Serial : states[s] \in {"READY", "ERROR"}}

StopWorkers(h, job, k, states, pc) ==
  /\ worker' = [worker EXCEPT ![k] =
       [s \in Serial |-> IF s \in Stoppable(states) THEN "STOPPING" ELSE states[s]]]
  /\ Become(h, [job EXCEPT
       !.pc = pc, !.group = k, !.waiting = Stoppable(states),
       !.refused = \E s \in Serial : states[s] \in Starting \cup {"STOPPING"}])

\* RuntimeWorkerCoordinator.stop: the entry is gone before anything stops.
StopEntry(h, job, pc) ==
  IF entry = 0
  THEN Become(h, [job EXCEPT !.pc = pc, !.group = 0]) /\ UNCHANGED <<entry, worker>>
  ELSE entry' = 0 /\ StopWorkers(h, job, entry, worker[entry], pc)

Stopped(h, pc) == jobs[h].pc = pc /\ jobs[h].waiting = {}
-----------------------------------------------------------------------------
(* What each handler does before its first await.                          *)
Free(h) == jobs[h] = Idle

BeginPreflight(h) ==
  /\ Free(h)
  /\ runState = "CREATED"
  /\ Become(h, [Idle EXCEPT !.op = "preflight", !.pc = "probe"])
  /\ UNCHANGED <<durable, entry, worker, holds>>

BeginStart(h) ==
  /\ Free(h)
  /\ runState = "PREFLIGHT"
  /\ Register(h, [Idle EXCEPT !.op = "start", !.epoch = epoch, !.members = Active])

\* A paused run as the handler sees it: the epoch it expects to replace and
\* the members it will carry into the next one.
Rebuild(op, members, target) ==
  [Idle EXCEPT !.op = op, !.pc = "probe", !.epoch = epoch, !.members = members,
               !.target = target]

Paused == runState = "PAUSED" /\ epoch < MaxEpoch

BeginResume(h) ==
  /\ Free(h)
  /\ Paused
  /\ Active # {}
  /\ Register(h, Rebuild("resume", Active, "none"))

BeginRejoin(h, s) ==
  /\ Free(h)
  /\ Paused
  /\ Row(s).role = "FOLLOWER" /\ Row(s).membership = "QUARANTINED"
  /\ Become(h, Rebuild("rejoin", Active \cup {s}, s))
  /\ UNCHANGED <<durable, entry, worker, holds>>

BeginPromote(h, s) ==
  /\ Free(h)
  /\ Paused
  /\ Row(s).role = "FOLLOWER" /\ Row(s).membership = "ACTIVE"
  /\ Become(h, Rebuild("promote", Active, s))
  /\ UNCHANGED <<durable, entry, worker, holds>>

\* Pause is also what the fault monitors do to a run they cannot keep.
BeginPause(h) ==
  /\ Free(h)
  /\ runState = "RUNNING"
  /\ StopEntry(h, [Idle EXCEPT !.op = "pause"], "stopping")
  /\ UNCHANGED <<durable, holds>>

BeginComplete(h) ==
  /\ Free(h)
  /\ runState \in {"RUNNING", "PAUSED"}
  /\ StopEntry(h, [Idle EXCEPT !.op = "complete", !.state = runState], "stopping")
  /\ UNCHANGED <<durable, holds>>
-----------------------------------------------------------------------------
\* The probe of preflight, rejoin or promote rejects a device.
ProbeFails(h) ==
  /\ jobs[h].pc = "probe"
  /\ Return(h)
  /\ UNCHANGED <<durable, entry, worker, holds>>

\* The state it expected is in the WHERE clause, and nobody asks whether a
\* row changed.
CommitPreflight(h) ==
  /\ At(h, {"preflight"}, "probe")
  /\ runState' = IF runState = "CREATED" THEN "PREFLIGHT" ELSE runState
  /\ Return(h)
  /\ UNCHANGED <<epoch, rows, lease, entry, worker, holds>>

Probed(h) ==
  /\ At(h, {"rejoin", "promote"}, "probe")
  /\ IF entry = 0
     THEN Register(h, jobs[h])
     ELSE Return(h) /\ UNCHANGED <<durable, entry, worker, holds>>
-----------------------------------------------------------------------------
(* The workers of a registered group start one at a time, the leader's     *)
(* first.  The group is the handler's own map: it goes on with it even     *)
(* when another handler has taken it out of the coordinator.               *)
\* Mutant: the generation is incremented once more by the worker.
SkippedGeneration(h, s) ==
  IF jobs[h].op = "start" THEN 2 ELSE rows[jobs[h].epoch][s].generation + 2

Generation(h, s) ==
  IF jobs[h].op = "start" THEN 1 ELSE rows[jobs[h].epoch][s].generation + 1

LeadsAt(e, s) == rows[e][s].role = "LEADER"

StartWorker(h, s) ==
  LET states == worker[jobs[h].group]
  IN  /\ jobs[h].pc = "starting"
      /\ s \in jobs[h].members
      /\ states[s] = "none"
      /\ \A t \in Serial : states[t] \notin Starting
      /\ LeadsAt(jobs[h].epoch, s) \/ \E t \in Serial : states[t] # "none"
      /\ worker' = [worker EXCEPT ![jobs[h].group][s] = "STARTING"]
      /\ UNCHANGED <<durable, entry, holds, jobs>>

\* The same generation of the run is given the lease that is already there.
MayAllocate(s, generation) == lease[s] \in {0, generation}

Allocate(h, s) ==
  LET k == jobs[h].group
      generation == Generation(h, s)
  IN  /\ jobs[h].pc = "starting"
      /\ worker[k][s] = "STARTING"
      /\ MayAllocate(s, generation)
      /\ lease' = [lease EXCEPT ![s] = generation]
      /\ holds' = [holds EXCEPT ![k][s] = generation]
      /\ worker' = [worker EXCEPT ![k][s] = "BOOTING"]
      /\ UNCHANGED <<runState, epoch, rows, entry, jobs>>

WorkerReady(h, s) ==
  /\ jobs[h].pc = "starting"
  /\ worker[jobs[h].group][s] = "BOOTING"
  /\ worker' = [worker EXCEPT ![jobs[h].group][s] = "READY"]
  /\ UNCHANGED <<durable, entry, holds, jobs>>

\* The lease a worker gives back, unless the release itself fails.
Release(k, s) ==
  /\ holds' = [holds EXCEPT ![k][s] = 0]
  /\ \/ lease' = [lease EXCEPT ![s] = IF holds[k][s] # 0 /\ @ = holds[k][s] THEN 0 ELSE @]
     \/ StopsFail /\ UNCHANGED lease

\* A worker fails to start and cleans up; the coordinator stops the others.
StartFails(h, s) ==
  LET k == jobs[h].group
  IN  /\ jobs[h].pc = "starting"
      /\ worker[k][s] \in Starting
      /\ Release(k, s)
      /\ StopWorkers(h, jobs[h], k, [worker[k] EXCEPT ![s] = "ERROR"], "unwinding")
      /\ UNCHANGED <<runState, epoch, rows, entry>>

\* The run's entry is deleted, whichever group it names by now; not at all
\* when a worker would not stop.
Unwound(h) ==
  /\ Stopped(h, "unwinding")
  /\ entry' = IF jobs[h].refused THEN entry ELSE 0
  /\ Return(h)
  /\ UNCHANGED <<durable, worker, holds>>

\* Mutant: the group counts as up with its first worker.
SomeStarted(h) == \E s \in jobs[h].members : worker[jobs[h].group][s] = "READY"

\* Mutant: the group counts as up with its leader.
LeaderStarted(h) ==
  \A s \in jobs[h].members :
    LeadsAt(jobs[h].epoch, s) => worker[jobs[h].group][s] = "READY"

\* Mutant: waits for every device of the run, its members or not.
EveryoneStarted(h) == \A s \in Serial : worker[jobs[h].group][s] \notin {"none"} \cup Starting

AllStarted(h) ==
  \A s \in jobs[h].members : worker[jobs[h].group][s] \notin {"none"} \cup Starting

GroupStarted(h) ==
  /\ jobs[h].pc = "starting"
  /\ AllStarted(h)
  /\ Become(h, [jobs[h] EXCEPT !.pc = "video"])
  /\ UNCHANGED <<durable, entry, worker, holds>>

\* One worker that was told to stop has, cleanly or not.
StopEnds(k, s) ==
  /\ worker[k][s] = "STOPPING"
  /\ Release(k, s)
  /\ \E end \in {"STOPPED"} \cup (IF StopsFail /\ holds[k][s] # 0 THEN {"ERROR"} ELSE {}) :
       /\ lease'[s] # 0 /\ lease'[s] = holds[k][s] => end = "ERROR"
       /\ worker' = [worker EXCEPT ![k][s] = end]
       /\ jobs' = [h \in Slot |->
            IF jobs[h].group = k /\ s \in jobs[h].waiting
            THEN [jobs[h] EXCEPT !.waiting = @ \ {s}, !.refused = @ \/ end = "ERROR"]
            ELSE jobs[h]]
  /\ UNCHANGED <<runState, epoch, rows, entry>>
-----------------------------------------------------------------------------
(* The commits, after the video recorder was started or stopped.           *)
CommitStart(h) ==
  /\ At(h, {"start"}, "video")
  /\ runState = "PREFLIGHT"
  /\ runState' = "RUNNING"
  /\ Return(h)
  /\ UNCHANGED <<epoch, rows, lease, entry, worker, holds>>

\* The compare-and-set of resume, rejoinDevice and promoteLeader.
\* Mutant: the state is missing from the WHERE clause.
StillThatEpoch(h) == epoch = jobs[h].epoch

StillPaused(h) == runState = "PAUSED" /\ epoch = jobs[h].epoch

\* Mutant: the former leader keeps its role.
PromotedAsWell(h, s) ==
  IF jobs[h].op = "promote" /\ s = jobs[h].target THEN "LEADER"
  ELSE rows[jobs[h].epoch][s].role

NextRole(h, s) ==
  IF jobs[h].op # "promote" THEN rows[jobs[h].epoch][s].role
  ELSE IF s = jobs[h].target THEN "LEADER" ELSE "FOLLOWER"

OpenEpoch(h) ==
  LET job == jobs[h]
  IN  /\ At(h, {"resume", "rejoin", "promote"}, "video")
      /\ StillPaused(h)
      /\ runState' = "RUNNING"
      /\ epoch' = job.epoch + 1
      /\ rows' = [rows EXCEPT ![job.epoch + 1] = [s \in Serial |->
                    IF s \notin job.members THEN NoRow
                    ELSE [role |-> NextRole(h, s), membership |-> "ACTIVE",
                          generation |-> Generation(h, s)]]]
      /\ Return(h)
      /\ UNCHANGED <<lease, entry, worker, holds>>

\* start finds a device offline or another state; the others lost the race.
CommitFails(h) ==
  /\ jobs[h].pc = "video"
  /\ jobs[h].op # "start" => ~ StillPaused(h)
  /\ Become(h, [jobs[h] EXCEPT !.pc = "undo"])
  /\ UNCHANGED <<durable, entry, worker, holds>>

\* Mutant: the failed attempt stops the video only.
UndoVideo(h) ==
  /\ jobs[h].pc = "undo"
  /\ Return(h)
  /\ UNCHANGED <<durable, entry, worker, holds>>

Undo(h) ==
  /\ jobs[h].pc = "undo"
  /\ StopEntry(h, jobs[h], "undone")
  /\ UNCHANGED <<durable, holds>>

Undone(h) ==
  /\ Stopped(h, "undone")
  /\ Return(h)
  /\ UNCHANGED <<durable, entry, worker, holds>>

\* pause and complete reject when a worker would not stop, and the run stays
\* as it is.
StopRejected(h) ==
  /\ Stopped(h, "stopping")
  /\ jobs[h].refused
  /\ Return(h)
  /\ UNCHANGED <<durable, entry, worker, holds>>

CommitPause(h) ==
  /\ Stopped(h, "stopping")
  /\ jobs[h].op = "pause" /\ ~ jobs[h].refused
  /\ runState' = IF runState = "RUNNING" THEN "PAUSED" ELSE runState
  /\ Return(h)
  /\ UNCHANGED <<epoch, rows, lease, entry, worker, holds>>

CommitComplete(h) ==
  /\ Stopped(h, "stopping")
  /\ jobs[h].op = "complete" /\ ~ jobs[h].refused
  /\ runState' = IF runState = jobs[h].state THEN "FINISHED" ELSE runState
  /\ Return(h)
  /\ UNCHANGED <<epoch, rows, lease, entry, worker, holds>>
-----------------------------------------------------------------------------
\* Mutant: the epoch is missing from the WHERE clause.
QuarantineEveryRow(s) ==
  /\ runState = "RUNNING"
  /\ Row(s).role = "FOLLOWER" /\ Row(s).membership = "ACTIVE"
  /\ rows' = [e \in Epoch |-> IF rows[e][s] = NoRow THEN rows[e]
                               ELSE [rows[e] EXCEPT ![s].membership = "QUARANTINED"]]
  /\ UNCHANGED <<runState, epoch, lease, entry, worker, holds, jobs>>

(* A fault monitor lists the running runs and quarantines an active        *)
(* follower of the current epoch without an await in between.              *)
Quarantine(s) ==
  /\ runState = "RUNNING"
  /\ Row(s).role = "FOLLOWER" /\ Row(s).membership = "ACTIVE"
  /\ rows' = [rows EXCEPT ![epoch][s].membership = "QUARANTINED"]
  /\ UNCHANGED <<runState, epoch, lease, entry, worker, holds, jobs>>

\* The server dies and is launched again; startup touches neither the run
\* nor the resource manifest.
Relaunch ==
  /\ Crashes
  /\ entry' = 0
  /\ worker' = [k \in Group |-> [s \in Serial |-> "none"]]
  /\ holds' = [k \in Group |-> [s \in Serial |-> 0]]
  /\ jobs' = [h \in Slot |-> Idle]
  /\ UNCHANGED durable
-----------------------------------------------------------------------------
Begin(h) ==
  \/ BeginPreflight(h)
  \/ BeginStart(h)
  \/ BeginPause(h)
  \/ BeginResume(h)
  \/ BeginComplete(h)
  \/ \E s \in Serial : BeginRejoin(h, s) \/ BeginPromote(h, s)

\* An await of the handler is over.
Continue(h) ==
  \/ ProbeFails(h)
  \/ CommitPreflight(h)
  \/ Probed(h)
  \/ \E s \in Serial :
       StartWorker(h, s) \/ Allocate(h, s) \/ WorkerReady(h, s) \/ StartFails(h, s)
  \/ Unwound(h)
  \/ GroupStarted(h)
  \/ CommitStart(h)
  \/ OpenEpoch(h)
  \/ CommitFails(h)
  \/ Undo(h)
  \/ Undone(h)
  \/ StopRejected(h)
  \/ CommitPause(h)
  \/ CommitComplete(h)

Next ==
  \/ \E h \in Slot : Begin(h) \/ Continue(h)
  \/ \E k \in Group, s \in Serial : StopEnds(k, s)
  \/ \E s \in Serial : Quarantine(s)
  \/ Relaunch

Spec == Init /\ [][Next]_vars

(* Every await of a handler has a deadline: probes, HTTP requests, Appium  *)
(* readiness, the processes it stops.  Nothing obliges an operator to act, *)
(* a device to fail or a server to crash.                                  *)
Fairness ==
  /\ \A h \in Slot : WF_vars(Continue(h))
  /\ \A k \in Group, s \in Serial : WF_vars(StopEnds(k, s))

FairSpec == Spec /\ Fairness
-----------------------------------------------------------------------------
Quiet == \A h \in Slot : jobs[h] = Idle

(* A run that is not running and has no handler under way holds nothing:   *)
(* no registered workers, no device, no ports.  Whatever failed on the     *)
(* way, the devices can be used by the next attempt or the next run.       *)
QuietRunHoldsNothing ==
  Quiet /\ runState # "RUNNING" => entry = 0 /\ \A s \in Serial : lease[s] = 0

(* A running run with no handler under way has a ready, registered worker  *)
(* for each active member of its epoch: submitted actions can be executed. *)
RunningRunIsServed ==
  Quiet /\ runState = "RUNNING" =>
    \A s \in Active : entry # 0 /\ worker[entry][s] = "READY"

(* resume, rejoinDevice and promoteLeader open a membership epoch only     *)
(* when the worker of every member is up and registered.                   *)
EpochOpensWithWorkers ==
  [][epoch' # epoch =>
       \A s \in Serial : Row(s)'.membership = "ACTIVE" =>
         entry # 0 /\ worker[entry][s] = "READY"]_vars

(* No handler waits for ever: not for a worker that is not coming, and not *)
(* for one that another step of its own has stopped.                       *)
HandlersReturn == \A h \in Slot : jobs[h] # Idle ~> jobs[h] = Idle

(* The membership rows are a history: rows of former epochs never change,  *)
(* and within the current epoch a member is only ever quarantined.         *)
MembershipIsHistory ==
  [][\A e \in 1..epoch, s \in Serial :
       rows'[e][s] # rows[e][s] =>
         /\ e = epoch /\ runState = "RUNNING"
         /\ rows[e][s].membership = "ACTIVE"
         /\ rows'[e][s] = [rows[e][s] EXCEPT !.membership = "QUARANTINED"]]_vars

(* Every epoch that was opened has one leader, active; a serial left out   *)
(* of the current epoch was quarantined in the last epoch it belonged to,  *)
(* and worker generations count the epochs, so no fence is ever reused.    *)
EpochsAreWellFormed ==
  /\ \A e \in 1..epoch :
       \E first \in Serial :
         /\ rows[e][first].role = "LEADER" /\ rows[e][first].membership = "ACTIVE"
         /\ \A s \in Serial \ {first} : rows[e][s].role # "LEADER"
  /\ \A e \in 1..epoch, s \in Serial :
       IF rows[e][s] = NoRow
       THEN \E d \in 1..(e - 1) :
              /\ rows[d][s].membership = "QUARANTINED"
              /\ \A c \in (d + 1)..(e - 1) : rows[c][s] = NoRow
       ELSE rows[e][s].generation = e

(* The rows of a run and its workers agree whenever no handler is under    *)
(* way: a running epoch is well formed and served by a worker for each     *)
(* member, and a run that is not running holds nothing.                    *)
RowsAndWorkersAgree ==
  TypeOK /\ EpochsAreWellFormed /\ QuietRunHoldsNothing /\ RunningRunIsServed

(* Whatever the handlers do to each other, the run seen through test_runs  *)
(* and its current membership moves only as RunControl allows: a finished  *)
(* run stays finished, a stale handler changes nothing, and a quarantined  *)
(* follower comes back only through rejoin.                                *)
Control == INSTANCE RunControl WITH
  roster <- [s \in Serial |-> Row(s).membership],
  leader <- Leader

KeepsRunControl == Control!RunSpec
=============================================================================
