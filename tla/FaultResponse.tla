---------------------------- MODULE FaultResponse ----------------------------
(***************************************************************************)
(* What the server does about the faults of a running run: the device      *)
(* registry and the monitors that turn its events, and those of the        *)
(* workers, into incidents (device-fault-monitor.ts,                       *)
(* runtime-fault-monitor.ts), the incidents and recovery_attempts tables   *)
(* (incident-monitor.ts, incident-repository.ts), the failure policy, and  *)
(* the pause that it asks of the session runtime, over a run that its      *)
(* operator starts, pauses, resumes and completes (RunControl).            *)
(*                                                                         *)
(* A monitor handles one event at a time, on a promise chain of its own;   *)
(* from taking an event to its first await nothing comes between.  The     *)
(* operator stops the run, and opens epochs, one request at a time: how    *)
(* such requests race each other is the subject of SessionLifecycle.       *)
(***************************************************************************)
EXTENDS RunControl, Sequences, FiniteSets, SequencesExt

CONSTANTS
  MaxSeq,      \* bound: the connection_seq of one device
  MaxChanges,  \* bound: connection changes recorded, of all devices
  MaxChain,    \* bound: events the monitors may have queued
  MaxFaults,   \* bound: different faults queued or on record
  Crashes      \* whether the server may go down and be launched again

ASSUME FaultAssumption ==
  /\ MaxSeq \in Nat \ {0}
  /\ MaxChanges \in Nat
  /\ MaxChain \in Nat
  /\ MaxFaults \in Nat
  /\ Crashes \in BOOLEAN

VARIABLES
  up,          \* the server is running
  policy,      \* test_runs.failure_policy
  device,      \* devices.state
  seq,         \* devices.connection_seq
  incident,    \* incidents: the epoch in which it was recorded, 0 for no row
  action,      \* recovery_attempts.action
  recovery,    \* recovery_attempts.status
  chain,       \* events a monitor has yet to handle, the first under way
  handled,     \* the monitors' sets of events they have answered
  handler,     \* pauses and completions under way, and the state they read
  registered,  \* the coordinator has an entry for the run
  generation,  \* of the workers that were started last, 0 for none
  opening      \* the start, resume, rejoin or promotion under way

registry == <<device, seq>>
tables   == <<policy, incident, action, recovery>>
workers  == <<registered, generation>>
memory   == <<chain, handled, handler, workers, opening>>
vars     == <<runVars, up, registry, tables, memory>>

Policy == {"PAUSE_ALL", "QUARANTINE_FAILED_DEVICE"}
Source == {"device", "worker"}

\* Handlers that stop the workers: the monitors' and the operator's.
Handler == Source \cup {"operator"}
Phase   == {"idle", "stop", "video", "done", "refused"}
Idle    == [phase |-> "idle", op |-> "pause", state |-> "RUNNING"]

Op     == {"none", "start", "resume", "rejoin", "promote"}
Closed == [op |-> "none", epoch |-> 1, target |-> "none"]

(* A fault is named by what its incident id is made of: the connection_seq *)
(* of a device, the generation of a worker, which may be the next one.     *)
MaxNumber == IF MaxSeq > MaxEpoch THEN MaxSeq ELSE MaxEpoch + 1
Fault == [source : Source, serial : Serial, n : 1..MaxNumber]

TypeOK ==
  /\ RunTypeOK
  /\ up \in BOOLEAN
  /\ policy \in Policy
  /\ device \in [Serial -> {"ONLINE", "OFFLINE"}]
  /\ seq \in [Serial -> 1..MaxSeq]
  /\ incident \in [Fault -> 0..MaxEpoch]
  /\ action \in [Fault -> {"NONE", "PAUSE_ALL", "QUARANTINE_DEVICE"}]
  /\ recovery \in [Fault -> {"NONE", "STARTED", "SUCCEEDED", "FAILED"}]
  /\ chain \in [Source -> Seq(Fault)]
  /\ handled \subseteq Fault
  /\ handler \in [Handler -> [phase : Phase, op : {"pause", "complete"},
                             state : {"RUNNING", "PAUSED"}]]
  /\ registered \in BOOLEAN
  /\ generation \in 0..MaxEpoch
  /\ opening \in [op : Op, epoch : 1..MaxEpoch, target : Serial \cup {"none"}]

Init ==
  /\ RunInit
  /\ up = TRUE
  /\ policy \in Policy
  /\ device = [s \in Serial |-> "ONLINE"]
  /\ seq = [s \in Serial |-> 1]
  /\ incident = [f \in Fault |-> 0]
  /\ action = [f \in Fault |-> "NONE"]
  /\ recovery = [f \in Fault |-> "NONE"]
  /\ chain = [source \in Source |-> <<>>]
  /\ handled = {}
  /\ handler = [h \in Handler |-> Idle]
  /\ registered = FALSE
  /\ generation = 0
  /\ opening = Closed
-----------------------------------------------------------------------------
Queued(f) == f \in ToSet(chain[f.source])

Enqueue(f) ==
  /\ Len(chain["device"]) + Len(chain["worker"]) < MaxChain
  /\ Cardinality({f} \cup {g \in Fault : Queued(g) \/ incident[g] # 0}) <= MaxFaults
  /\ chain' = [chain EXCEPT ![f.source] = Append(@, f)]

\* Mutant: another trouble of a device that is already lost is not counted.
LossesCount(s, state) ==
  IF state = "ONLINE" \/ device[s] = "ONLINE" THEN seq[s] + 1 ELSE seq[s]

NextConnection(s, state) == seq[s] + 1

(* A poll finds a device in another state; OFFLINE stands for every state  *)
(* that is not ONLINE.  ONLINE events are of no interest to the monitor.   *)
ConnectionChanges(s, state) ==
  /\ up
  /\ seq[s] < MaxSeq
  /\ Cardinality({p \in Serial \X (2..MaxSeq) : p[2] <= seq[p[1]]}) < MaxChanges
  /\ device[s] = "ONLINE" => state # "ONLINE"
  /\ device' = [device EXCEPT ![s] = state]
  /\ seq' = [seq EXCEPT ![s] = NextConnection(s, state)]
  /\ IF state = "ONLINE" THEN UNCHANGED chain
     ELSE Enqueue([source |-> "device", serial |-> s, n |-> NextConnection(s, state)])
  /\ UNCHANGED <<runVars, up, tables, handled, handler, workers, opening>>

Stopping == \E h \in Handler : handler[h].phase = "stop"

\* A worker counts its generation up before its stop returns; an action it was
\* performing goes on, and names the number it finds then: of the workers of
\* an epoch, the number of the next.
WorkerNumbers ==
  (IF registered \/ Stopping THEN {generation} ELSE {})
    \cup (IF registered \/ runState = "PREFLIGHT" THEN {} ELSE {epoch + 1})

\* A worker loses its Appium session or its bridge, while it starts, during
\* an action, because it is being stopped, or in an action it began before.
WorkerFails(s) ==
  /\ generation # 0
  /\ roster[s] # "OUT"
  /\ \E n \in WorkerNumbers : Enqueue([source |-> "worker", serial |-> s, n |-> n])
  /\ UNCHANGED <<runVars, up, registry, tables, handled, handler, workers, opening>>
-----------------------------------------------------------------------------
(* listRuns: to the device monitor a quarantined member is still active.   *)
Seen(source) ==
  {s \in Serial : roster[s] = "ACTIVE" \/ (source = "device" /\ roster[s] = "QUARANTINED")}

\* Mutant: a device is handled once, whatever its fault is.
ConcernsOnce(f) ==
  runState = "RUNNING" /\ f.serial \in Seen(f.source) /\ ~ \E g \in handled : g.serial = f.serial

Concerns(f) == runState = "RUNNING" /\ f.serial \in Seen(f.source) /\ f \notin handled

Decide(f) ==
  IF policy = "PAUSE_ALL" \/ f.serial = leader \/ Cardinality(Seen(f.source)) <= 1
  THEN "PAUSE_ALL" ELSE "QUARANTINE_DEVICE"

(* pause and complete stop the workers first; without an entry there are   *)
(* none to stop, even when another handler is still stopping them.         *)
StopWorkers(h, op) ==
  /\ handler' = [handler EXCEPT ![h] =
       [phase |-> IF registered THEN "stop" ELSE "video", op |-> op, state |-> runState]]
  /\ registered' = FALSE

\* quarantine refuses the leader; who is quarantined already stays so.
TakeOut(source, s) ==
  /\ IF roster[s] = "ACTIVE" /\ s # leader THEN Quarantine(s) ELSE UNCHANGED runVars
  /\ handler' = [handler EXCEPT ![source].phase = IF s = leader THEN "refused" ELSE "done"]
  /\ UNCHANGED registered

Due(source) == up /\ handler[source].phase = "idle" /\ chain[source] # <<>>

(* A fault that concerns nobody any more, or has been handled.             *)
Ignore(source) ==
  /\ Due(source)
  /\ ~ Concerns(Head(chain[source]))
  /\ chain' = [chain EXCEPT ![source] = Tail(@)]
  /\ UNCHANGED <<runVars, up, registry, tables, handled, handler, workers, opening>>

(* The incident is recorded, the answer decided on and begun.              *)
Answer(source) ==
  LET f == Head(chain[source])
  IN  /\ Due(source)
      /\ Concerns(f)
      /\ incident[f] = 0
      /\ handled' = handled \cup {f}
      /\ incident' = [incident EXCEPT ![f] = epoch]
      /\ action' = [action EXCEPT ![f] = Decide(f)]
      /\ recovery' = [recovery EXCEPT ![f] = "STARTED"]
      /\ IF Decide(f) = "PAUSE_ALL"
         THEN StopWorkers(source, "pause") /\ UNCHANGED runVars
         ELSE TakeOut(source, f.serial)
      /\ UNCHANGED <<up, registry, policy, chain, generation, opening>>

\* Mutant: a pause that did not come about counts as one.
AnyOutcome(source) == "SUCCEEDED"

\* Mutant: the attempt's status is taken from what the handler reached.
RawOutcome(source) == handler[source].phase

Outcome(source) == IF handler[source].phase = "done" THEN "SUCCEEDED" ELSE "FAILED"

FinishRecovery(source) ==
  /\ handler[source].phase \in {"done", "refused"}
  /\ recovery' = [recovery EXCEPT ![Head(chain[source])] = Outcome(source)]
  /\ chain' = [chain EXCEPT ![source] = Tail(@)]
  /\ handler' = [handler EXCEPT ![source] = Idle]
  /\ UNCHANGED <<runVars, up, registry, policy, incident, action, handled, workers, opening>>
-----------------------------------------------------------------------------
(* The handlers that stop workers, from there on.  A monitor's goes on to  *)
(* finish its recovery, an operator's returns or rejects.                  *)
Leave(h, phase) ==
  handler' = [handler EXCEPT ![h] = IF h \in Source THEN [Idle EXCEPT !.phase = phase] ELSE Idle]

\* Mutant: a monitor whose pause was refused waits for somebody to call.
RefusalIsLost(h) == UNCHANGED handler

Refuse(h) == Leave(h, "refused")

StopEnds(h) ==
  /\ handler[h].phase = "stop"
  /\ handler' = [handler EXCEPT ![h].phase = "video"]
  /\ UNCHANGED <<runVars, up, registry, tables, chain, handled, workers, opening>>

\* A worker refuses or fails to stop: the run stays as it is.
StopFails(h) ==
  /\ handler[h].phase = "stop"
  /\ Refuse(h)
  /\ UNCHANGED <<runVars, up, registry, tables, chain, handled, workers, opening>>

CommitPause(h) ==
  /\ handler[h].phase = "video"
  /\ handler[h].op = "pause"
  /\ IF runState = "RUNNING" THEN Pause /\ Leave(h, "done") ELSE UNCHANGED runVars /\ Refuse(h)
  /\ UNCHANGED <<up, registry, tables, chain, handled, workers, opening>>

CommitComplete(h) ==
  /\ handler[h].phase = "video"
  /\ handler[h].op = "complete"
  /\ IF runState = handler[h].state THEN Finish ELSE UNCHANGED runVars
  /\ Leave(h, "done")
  /\ UNCHANGED <<up, registry, tables, chain, handled, workers, opening>>
-----------------------------------------------------------------------------
OnlineAll(members) == \A s \in members : device[s] = "ONLINE"

\* preflight checks that the devices are online, then probes them.
RunPreflight ==
  /\ up
  /\ Preflight
  /\ UNCHANGED <<up, registry, tables, memory>>

BeginStopping(op) ==
  /\ up
  /\ handler["operator"] = Idle
  /\ runState = "RUNNING" \/ (op = "complete" /\ runState = "PAUSED")
  /\ StopWorkers("operator", op)
  /\ UNCHANGED <<runVars, up, registry, tables, chain, handled, generation, opening>>

\* Workers of the given generation are started, on devices that are online.
Begin(op, target, number) ==
  /\ up
  /\ opening = Closed
  /\ ~ registered
  /\ opening' = [op |-> op, epoch |-> epoch, target |-> target]
  /\ registered' = TRUE
  /\ generation' = number
  /\ UNCHANGED <<runVars, up, registry, tables, chain, handled, handler>>

BeginStart ==
  /\ runState = "PREFLIGHT"
  /\ Begin("start", "none", 1)

NextGeneration == epoch + 1

BeginEpoch(op, target, members) ==
  /\ runState = "PAUSED"
  /\ epoch < MaxEpoch
  /\ members # {}
  /\ OnlineAll(members)
  /\ Begin(op, target, NextGeneration)

BeginResume == BeginEpoch("resume", "none", Active)

BeginRejoin(s) ==
  /\ roster[s] = "QUARANTINED"
  /\ BeginEpoch("rejoin", s, Active \cup {s})

BeginPromote(s) ==
  /\ roster[s] = "ACTIVE" /\ s # leader
  /\ BeginEpoch("promote", s, Active)

(* The workers are up and the run is RUNNING: start looks at the devices   *)
(* once more, the others compare state and epoch with what they read.      *)
CommitOpening ==
  /\ opening.op # "none"
  /\ \/ opening.op = "start" /\ OnlineAll(Active) /\ Start
     \/ /\ epoch = opening.epoch
        /\ \/ opening.op = "resume" /\ Resume
           \/ opening.op = "rejoin" /\ Rejoin(opening.target)
           \/ opening.op = "promote" /\ Promote(opening.target)
  /\ opening' = Closed
  /\ UNCHANGED <<up, registry, tables, chain, handled, handler, workers>>

\* A worker fails to start, or the commit fails: the workers are stopped,
\* unless one of them will not.
OpeningFails ==
  /\ opening.op # "none"
  /\ opening' = Closed
  /\ registered' \in {FALSE, registered}
  /\ UNCHANGED <<runVars, up, registry, tables, chain, handled, handler, generation>>
-----------------------------------------------------------------------------
Forget ==
  /\ up
  /\ up' = FALSE
  /\ chain' = [source \in Source |-> <<>>]
  /\ handled' = {}
  /\ handler' = [h \in Handler |-> Idle]
  /\ registered' = FALSE
  /\ generation' = 0
  /\ opening' = Closed
  /\ UNCHANGED <<runVars, registry, policy>>

GoDown == Forget /\ UNCHANGED <<incident, action, recovery>>

Crash == Crashes /\ GoDown

(* The id of an earlier server's fault: record throws, since the content   *)
(* differs, and nobody catches what the monitor's chain rejects with.      *)
RecordThrows(source) ==
  LET f == Head(chain[source])
  IN  /\ Due(source)
      /\ Concerns(f)
      /\ incident[f] # 0
      /\ GoDown

(* It dies between the transactions of an answer.                          *)
CrashAnswering(source) ==
  LET f == Head(chain[source])
  IN  /\ Crashes
      /\ Due(source)
      /\ Concerns(f)
      /\ incident[f] = 0
      /\ incident' = [incident EXCEPT ![f] = epoch]
      /\ \/ UNCHANGED <<action, recovery>>
         \/ /\ action' = [action EXCEPT ![f] = Decide(f)]
            /\ recovery' = [recovery EXCEPT ![f] = "STARTED"]
      /\ Forget

\* Startup leaves incidents and recoveries as they are.
Restart ==
  /\ ~ up
  /\ up' = TRUE
  /\ UNCHANGED <<runVars, registry, tables, memory>>
-----------------------------------------------------------------------------
Operator ==
  \/ RunPreflight
  \/ \E op \in {"pause", "complete"} : BeginStopping(op)
  \/ BeginStart
  \/ BeginResume
  \/ \E s \in Serial : BeginRejoin(s) \/ BeginPromote(s)

\* An await of a handler that stops workers is over.
Continue(h) == StopEnds(h) \/ StopFails(h) \/ CommitPause(h) \/ CommitComplete(h)

Monitor(source) ==
  \/ Ignore(source) \/ Answer(source) \/ RecordThrows(source)
  \/ Continue(source) \/ FinishRecovery(source)

Next ==
  \/ \E s \in Serial : \/ \E state \in {"ONLINE", "OFFLINE"} : ConnectionChanges(s, state)
                       \/ WorkerFails(s)
  \/ \E source \in Source : Monitor(source) \/ CrashAnswering(source)
  \/ Continue("operator")
  \/ Operator
  \/ CommitOpening
  \/ OpeningFails
  \/ Crash
  \/ Restart

(* A monitor goes on with its answer: the promises it awaits settle, since *)
(* workers and recorder are stopped under deadlines.                       *)
Fairness == \A source \in Source : WF_vars(Continue(source) \/ FinishRecovery(source))

Spec == Init /\ [][Next]_vars /\ Fairness
-----------------------------------------------------------------------------
(* What the incident timeline says was done, was done: after a pause that  *)
(* SUCCEEDED the run never runs again in the epoch of the incident, and a  *)
(* quarantined device is no member of it again, whatever operator, other   *)
(* monitors and crashes do meanwhile (incident-monitor.ts, handle).        *)
RecoveryHolds ==
  \A f \in Fault : recovery[f] = "SUCCEEDED" /\ epoch = incident[f] =>
    CASE action[f] = "PAUSE_ALL" -> runState # "RUNNING"
      [] action[f] = "QUARANTINE_DEVICE" -> roster[f.serial] = "QUARANTINED"

(* No two faults of the registry get one incident id, also when the        *)
(* monitors' memory died with the server: record never meets an id it has  *)
(* with other content, which would reject the chain and take the server    *)
(* down (incident-repository.ts, record; device-fault-monitor.ts).         *)
DeviceFaultsAreNew ==
  Due("device") /\ Concerns(Head(chain["device"])) => incident[Head(chain["device"])] = 0

(* So for the faults of the workers.                                       *)
(* The code breaks it: README, Disagreements without a run.                *)
WorkerFaultsAreNew ==
  Due("worker") /\ Concerns(Head(chain["worker"])) => incident[Head(chain["worker"])] = 0

(* The incidents of a run are true: what one says was done holds for the   *)
(* rest of its epoch, and each of the registry's is about one fault.       *)
IncidentsAreTrue == TypeOK /\ RecoveryHolds /\ DeviceFaultsAreNew

(* A fault of an active member of a running run leaves its monitor's chain *)
(* with an answer on record under its id, well or not, unless the server   *)
(* goes down: it is not dropped because another handler is busy with the   *)
(* run, nor as a repetition of something that still waits for its answer   *)
(* (device-fault-monitor.ts, runtime-fault-monitor.ts, handleEvent).       *)
NoFaultIsDropped ==
  [][\A source \in Source :
       LET f == Head(chain[source])
       IN  /\ chain[source] # <<>> /\ chain'[source] # chain[source] /\ up'
           /\ Len(chain'[source]) < Len(chain[source])
           /\ runState = "RUNNING" /\ f.serial \in Active
           => recovery'[f] \in {"SUCCEEDED", "FAILED"}]_vars

(* And it does leave it: a monitor that waits for a pause, whoever else is *)
(* pausing, completing or resuming the run, goes on with its chain         *)
(* (incident-monitor.ts, handle).                                          *)
MonitorsGoOn ==
  \A source \in Source : handler[source] # Idle ~> handler[source] = Idle

(* A running run whose leader is lost is about to be paused, or has an     *)
(* incident that tells why it is not (session-runtime.ts, resume).         *)
LeaderLossPauses ==
  up /\ runState = "RUNNING" /\ device[leader] # "ONLINE" =>
    LET f == [source |-> "device", serial |-> leader, n |-> seq[leader]]
    IN  Queued(f) \/ incident[f] # 0
=============================================================================
