------------------------ MODULE FaultResponseProofs ------------------------
(***************************************************************************)
(* What FaultResponse guarantees for any devices, epochs and number of     *)
(* faults, with and without crashes: types, and that what a recovery says  *)
(* was done stays done in its epoch.                                       *)
(***************************************************************************)
EXTENDS FaultResponse, TLAPS

(* What every step of the run keeps, whoever takes it.                     *)
LEMMA RunTypes ==
  ASSUME RunTypeOK, RunNext
  PROVE  RunTypeOK'
<1>1. CASE Preflight \/ Start \/ Pause \/ Finish
  BY <1>1 DEF Preflight, Start, Pause, Finish, RunTypeOK, RunState
<1>2. ASSUME NEW members, NEW first \in Serial, OpenEpoch(members, first)
      PROVE  RunTypeOK'
  BY <1>2, RunControlAssumption DEF OpenEpoch, RunTypeOK, RunState, Membership
<1>3. CASE Resume
  BY <1>2, <1>3 DEF Resume, RunTypeOK
<1>4. ASSUME NEW s \in Serial, Rejoin(s) \/ Promote(s)
      PROVE  RunTypeOK'
  BY <1>2, <1>4 DEF Rejoin, Promote, RunTypeOK
<1>5. ASSUME NEW s \in Serial, Quarantine(s)
      PROVE  RunTypeOK'
  BY <1>5 DEF Quarantine, RunTypeOK, RunState, Membership
<1> QED
  BY <1>1, <1>3, <1>4, <1>5 DEF RunNext

Early == {"CREATED", "PREFLIGHT"}

(* Epochs are only ever opened; within one, a quarantine is for good and a *)
(* run that has stopped running does not run again.                        *)
RunHistory ==
  /\ epoch' \in Nat /\ epoch <= epoch'
  /\ epoch' = epoch =>
       /\ \A s \in Serial : roster[s] = "QUARANTINED" => roster'[s] = "QUARANTINED"
       /\ runState' = "RUNNING" => runState \in {"RUNNING", "PREFLIGHT"}
  /\ runState' \in Early => runState \in Early

LEMMA RunKeepsHistory ==
  ASSUME RunTypeOK, [RunNext]_runVars
  PROVE  RunHistory
<1> USE DEF RunHistory, RunTypeOK, Early
<1>1. CASE UNCHANGED runVars
  BY <1>1, RunControlAssumption DEF runVars
<1>2. CASE Preflight \/ Start \/ Pause \/ Finish
  BY <1>2, RunControlAssumption DEF Preflight, Start, Pause, Finish
<1>3. ASSUME NEW members, NEW first \in Serial, OpenEpoch(members, first)
      PROVE  RunHistory
  BY <1>3, RunControlAssumption DEF OpenEpoch
<1>4. CASE Resume
  BY <1>3, <1>4 DEF Resume
<1>5. ASSUME NEW s \in Serial, Rejoin(s) \/ Promote(s)
      PROVE  RunHistory
  BY <1>3, <1>5 DEF Rejoin, Promote
<1>6. ASSUME NEW s \in Serial, Quarantine(s)
      PROVE  RunHistory
  BY <1>6, RunControlAssumption DEF Quarantine
<1> QED
  BY <1>1, <1>2, <1>4, <1>5, <1>6 DEF RunNext
-----------------------------------------------------------------------------
\* What the answer to a fault is to achieve.
Kept(f) ==
  \/ action[f] = "PAUSE_ALL" /\ runState # "RUNNING"
  \/ action[f] = "QUARANTINE_DEVICE" /\ roster[f.serial] = "QUARANTINED"

(* A monitor handles faults of its own, the first of its chain; it pauses  *)
(* for those that the policy wants a pause for, and is done when that is.  *)
Attending(source) ==
  /\ \A i \in 1..Len(chain[source]) : chain[source][i].source = source
  /\ handler[source].op = "pause"
  /\ handler[source].phase # "idle" =>
       LET f == Head(chain[source])
       IN  /\ chain[source] # <<>>
           /\ recovery[f] = "STARTED"
           /\ handler[source].phase \in {"stop", "video"} => action[f] = "PAUSE_ALL"
           /\ handler[source].phase = "done" /\ incident[f] = epoch => Kept(f)

\* An opening that changes a member of the run has a device for it.
Targeted == opening.op \in {"rejoin", "promote"} => opening.target \in Serial

\* Incidents are of epochs that were opened, while the run was running.
Recorded(f) ==
  /\ incident[f] <= epoch
  /\ runState \in Early => incident[f] = 0
  /\ recovery[f] # "NONE" => action[f] # "NONE" /\ incident[f] # 0
  /\ recovery[f] = "SUCCEEDED" /\ incident[f] = epoch => Kept(f)

(* A fault of the registry that has an incident is not queued a second     *)
(* time, unless this server knows that it has handled it: the connections  *)
(* to come have other numbers.                                             *)
Known(f) ==
  f.source = "device" =>
    /\ Queued(f) => f.n <= seq[f.serial]
    /\ incident[f] # 0 => f.n <= seq[f.serial] /\ (f \in handled \/ ~ Queued(f))

Fresh == \A f \in Fault : Known(f)

(* What has been handled has an answer, or is being answered right now.    *)
Settled(f) ==
  f \in handled =>
    \/ recovery[f] \in {"SUCCEEDED", "FAILED"}
    \/ /\ handler[f.source].phase # "idle"
       /\ chain[f.source] # <<>>
       /\ f = Head(chain[f.source])

Inv ==
  /\ TypeOK
  /\ Targeted
  /\ Fresh
  /\ \A f \in Fault : Settled(f)
  /\ \A source \in Source : Attending(source)
  /\ \A f \in Fault : Recorded(f)
-----------------------------------------------------------------------------
(* Every step leaves the run alone or is one of its own.                   *)
LEMMA RunMoves ==
  ASSUME Inv, [Next]_vars
  PROVE  [RunNext]_runVars
<1>1. ASSUME NEW source \in Source, Answer(source)
      PROVE  [RunNext]_runVars
  <2> DEFINE f == Head(chain[source])
  <2>1. f.serial \in Serial
    BY <1>1 DEF Answer, Concerns, Seen
  <2> QED
    BY <1>1, <2>1 DEF Answer, TakeOut, RunNext
<1>2. ASSUME NEW h \in Handler, Continue(h)
      PROVE  [RunNext]_runVars
  BY <1>2 DEF Continue, StopEnds, StopFails, CommitPause, CommitComplete, RunNext
<1>3. CASE CommitOpening
  BY <1>3 DEF CommitOpening, RunNext, Inv, Targeted
<1>4. ASSUME NEW source \in Source, Ignore(source) \/ FinishRecovery(source)
                                      \/ CrashAnswering(source) \/ RecordThrows(source)
      PROVE  [RunNext]_runVars
  BY <1>4 DEF Ignore, FinishRecovery, CrashAnswering, RecordThrows, GoDown, Forget
<1>5. CASE Operator
  BY <1>5 DEF Operator, RunPreflight, RunNext, BeginStopping, BeginStart, BeginResume,
              BeginRejoin, BeginPromote, BeginEpoch, Begin
<1>6. ASSUME NEW s \in Serial, NEW state, ConnectionChanges(s, state) \/ WorkerFails(s)
      PROVE  [RunNext]_runVars
  BY <1>6 DEF ConnectionChanges, WorkerFails
<1>7. CASE OpeningFails \/ Crash \/ Restart
  BY <1>7 DEF OpeningFails, Crash, GoDown, Forget, Restart
<1>8. CASE UNCHANGED vars
  BY <1>8 DEF vars
<1> QED
  BY <1>1, <1>2, <1>3, <1>4, <1>5, <1>6, <1>7, <1>8 DEF Next, Monitor, Handler

LEMMA HeadIsFault ==
  ASSUME TypeOK, NEW source \in Source, chain[source] # <<>>
  PROVE  /\ Head(chain[source]) \in Fault
         /\ Tail(chain[source]) \in Seq(Fault)
         /\ Len(Tail(chain[source])) = Len(chain[source]) - 1
         /\ \A i \in 1..Len(Tail(chain[source])) : Tail(chain[source])[i] = chain[source][i + 1]
         /\ Len(chain[source]) \in Nat \ {0}
         /\ Head(chain[source]) = chain[source][1]
<1>1. chain[source] \in Seq(Fault)
  BY DEF TypeOK
<1> QED
  BY <1>1

LEMMA EnqueueTypes ==
  ASSUME TypeOK, NEW f \in Fault, Enqueue(f)
  PROVE  chain' \in [Source -> Seq(Fault)]
<1>1. f.source \in Source
  BY DEF Fault
<1>2. Append(chain[f.source], f) \in Seq(Fault)
  BY <1>1 DEF TypeOK
<1> QED
  BY <1>1, <1>2 DEF Enqueue, TypeOK

LEMMA NumberRange == MaxNumber \in Nat /\ MaxSeq <= MaxNumber /\ MaxEpoch + 1 <= MaxNumber
BY FaultAssumption, RunControlAssumption DEF MaxNumber

\* What a worker reports is a fault of its own.
LEMMA WorkerReports ==
  ASSUME TypeOK, NEW s \in Serial, WorkerFails(s)
  PROVE  \E g \in Fault : g.source = "worker" /\ Enqueue(g)
<1>1. PICK n \in WorkerNumbers : Enqueue([source |-> "worker", serial |-> s, n |-> n])
  BY DEF WorkerFails
<1>2. generation \in 1..MaxEpoch /\ epoch \in 1..MaxEpoch
  BY RunControlAssumption DEF WorkerFails, TypeOK, RunTypeOK
<1>3. n = generation \/ n = epoch + 1
  BY DEF WorkerNumbers
<1>4. n \in 1..MaxNumber
  BY <1>2, <1>3, NumberRange, RunControlAssumption
<1> QED
  BY <1>1, <1>4 DEF Fault, Source

LEMMA LeaveTypes ==
  ASSUME TypeOK, NEW h \in Handler, NEW phase \in Phase, Leave(h, phase)
  PROVE  handler' \in [Handler -> [phase : Phase, op : {"pause", "complete"},
                                  state : {"RUNNING", "PAUSED"}]]
BY DEF Leave, Idle, Phase, TypeOK

(* Types are kept by every step.                                           *)
LEMMA TypeStep ==
  ASSUME Inv, [Next]_vars
  PROVE  TypeOK'
<1> DEFINE HandlerType == [Handler -> [phase : Phase, op : {"pause", "complete"},
                                     state : {"RUNNING", "PAUSED"}]]
<1> USE DEF Inv
<1>0. RunTypeOK'
  <2>1. RunTypeOK
    BY DEF TypeOK
  <2>2. CASE UNCHANGED runVars
    BY <2>1, <2>2 DEF RunTypeOK, runVars
  <2> QED
    BY <2>1, <2>2, RunMoves, RunTypes
<1>1. ASSUME NEW s \in Serial, NEW state \in {"ONLINE", "OFFLINE"}, ConnectionChanges(s, state)
      PROVE  TypeOK'
  <2>1. seq[s] \in 1..MaxSeq /\ seq[s] < MaxSeq
    BY <1>1 DEF ConnectionChanges, TypeOK
  <2>2. NextConnection(s, state) \in 1..MaxSeq
    BY <2>1, FaultAssumption DEF NextConnection
  <2>3. chain' \in [Source -> Seq(Fault)]
    <3>1. CASE state = "ONLINE"
      BY <1>1, <3>1 DEF ConnectionChanges, TypeOK
    <3>2. CASE state # "ONLINE"
      <4>1. [source |-> "device", serial |-> s, n |-> NextConnection(s, state)] \in Fault
        BY <2>2, NumberRange, FaultAssumption DEF Fault, Source
      <4> QED
        BY <1>1, <3>2, <4>1, EnqueueTypes DEF ConnectionChanges
    <3> QED
      BY <3>1, <3>2
  <2>4. device' \in [Serial -> {"ONLINE", "OFFLINE"}] /\ seq' \in [Serial -> 1..MaxSeq]
    BY <1>1, <2>2 DEF ConnectionChanges, TypeOK
  <2> QED
    BY <1>0, <1>1, <2>3, <2>4 DEF ConnectionChanges, TypeOK, tables, workers
<1>2. ASSUME NEW s \in Serial, WorkerFails(s)
      PROVE  TypeOK'
  <2>3. chain' \in [Source -> Seq(Fault)]
    BY <1>2, WorkerReports, EnqueueTypes
  <2> QED
    BY <1>0, <1>2, <2>3 DEF WorkerFails, TypeOK, registry, tables, workers
<1>3. ASSUME NEW source \in Source, Ignore(source)
      PROVE  TypeOK'
  <2>1. chain' \in [Source -> Seq(Fault)]
    BY <1>3, HeadIsFault DEF Ignore, Due, TypeOK
  <2> QED
    BY <1>0, <1>3, <2>1 DEF Ignore, TypeOK, registry, tables, workers
<1>4. ASSUME NEW source \in Source, FinishRecovery(source)
      PROVE  TypeOK'
  <2>1. chain[source] # <<>>
    BY <1>4 DEF FinishRecovery, Attending
  <2>2. chain' \in [Source -> Seq(Fault)]
    BY <1>4, <2>1, HeadIsFault DEF FinishRecovery, TypeOK
  <2>3. recovery' \in [Fault -> {"NONE", "STARTED", "SUCCEEDED", "FAILED"}]
    BY <1>4 DEF FinishRecovery, Outcome, TypeOK
  <2>4. handler' \in HandlerType
    BY <1>4 DEF FinishRecovery, TypeOK, Idle, Phase
  <2> QED
    BY <1>0, <1>4, <2>2, <2>3, <2>4 DEF FinishRecovery, TypeOK, registry, workers
<1>5. ASSUME NEW h \in Handler, NEW op \in {"pause", "complete"},
             runState \in {"RUNNING", "PAUSED"}, StopWorkers(h, op)
      PROVE  handler' \in HandlerType /\ registered' \in BOOLEAN
  BY <1>5 DEF StopWorkers, TypeOK, Phase
<1>6. ASSUME NEW f \in Fault
      PROVE  /\ [incident EXCEPT ![f] = epoch] \in [Fault -> 0..MaxEpoch]
             /\ [action EXCEPT ![f] = Decide(f)] \in [Fault -> {"NONE", "PAUSE_ALL", "QUARANTINE_DEVICE"}]
             /\ [recovery EXCEPT ![f] = "STARTED"] \in [Fault -> {"NONE", "STARTED", "SUCCEEDED", "FAILED"}]
  BY DEF TypeOK, RunTypeOK, Decide
<1>7. ASSUME NEW source \in Source, Answer(source)
      PROVE  TypeOK'
  <2> DEFINE f == Head(chain[source])
  <2>1. f \in Fault /\ source \in Handler
    BY <1>7, HeadIsFault DEF Answer, Due, Handler
  <2>2. handler' \in HandlerType /\ registered' \in BOOLEAN
    <3>1. CASE Decide(f) = "PAUSE_ALL"
      BY <1>5, <1>7, <2>1, <3>1 DEF Answer, Concerns
    <3>2. CASE Decide(f) # "PAUSE_ALL"
      <4>1. TakeOut(source, f.serial)
        BY <1>7, <3>2 DEF Answer
      <4>2. PICK phase \in {"refused", "done"} : handler' = [handler EXCEPT ![source].phase = phase]
        BY <4>1 DEF TakeOut
      <4>3. handler' \in HandlerType
        <5>1. source \in Handler /\ phase \in Phase
          BY DEF Handler, Phase
        <5>2. handler \in HandlerType
          BY DEF TypeOK
        <5> HIDE DEF Inv
        <5> QED
          BY <4>2, <5>1, <5>2
      <4> QED
        BY <4>1, <4>3 DEF TakeOut, TypeOK
    <3> QED
      BY <3>1, <3>2
  <2>3. /\ handled' \subseteq Fault
        /\ incident' \in [Fault -> 0..MaxEpoch]
        /\ action' \in [Fault -> {"NONE", "PAUSE_ALL", "QUARANTINE_DEVICE"}]
        /\ recovery' \in [Fault -> {"NONE", "STARTED", "SUCCEEDED", "FAILED"}]
    BY <1>6, <1>7, <2>1 DEF Answer, TypeOK
  <2> QED
    BY <1>0, <1>7, <2>2, <2>3 DEF Answer, TypeOK, registry
<1>8. ASSUME NEW h \in Handler, Continue(h)
      PROVE  TypeOK'
  <2>1. handler' \in HandlerType
    <3>1. CASE StopEnds(h)
      <4>1. handler' = [handler EXCEPT ![h].phase = "video"]
        BY <3>1 DEF StopEnds
      <4>2. handler \in HandlerType /\ "video" \in Phase
        BY DEF TypeOK, Phase
      <4> HIDE DEF Inv
      <4> QED
        BY <4>1, <4>2
    <3>2. CASE StopFails(h)
      BY <3>2, LeaveTypes DEF StopFails, Refuse, Phase
    <3>3. CASE CommitPause(h)
      BY <3>3, LeaveTypes DEF CommitPause, Refuse, Phase
    <3>4. CASE CommitComplete(h)
      BY <3>4, LeaveTypes DEF CommitComplete, Phase
    <3> QED
      BY <1>8, <3>1, <3>2, <3>3, <3>4 DEF Continue
  <2> QED
    BY <1>0, <1>8, <2>1 DEF Continue, StopEnds, StopFails, CommitPause, CommitComplete,
                            TypeOK, registry, tables, workers
<1>9. CASE Operator
  <2>1. CASE RunPreflight
    BY <1>0, <2>1 DEF RunPreflight, TypeOK, registry, tables, memory, workers
  <2>2. ASSUME NEW op \in {"pause", "complete"}, BeginStopping(op)
        PROVE  TypeOK'
    <3>1. handler' \in HandlerType /\ registered' \in BOOLEAN
      BY <1>5, <2>2 DEF BeginStopping, Handler
    <3> QED
      BY <1>0, <2>2, <3>1 DEF BeginStopping, TypeOK, registry, tables
  <2>3. ASSUME NEW op \in Op, NEW other \in Serial \cup {"none"}, NEW number \in 1..MaxEpoch,
               Begin(op, other, number)
        PROVE  TypeOK'
    <3>1. opening' \in [op : Op, epoch : 1..MaxEpoch, target : Serial \cup {"none"}]
      BY <2>3 DEF Begin, TypeOK, RunTypeOK
    <3> QED
      BY <1>0, <2>3, <3>1 DEF Begin, TypeOK, registry, tables
  <2>4. CASE BeginStart
    BY <2>3, <2>4, RunControlAssumption DEF BeginStart, Op
  <2>5. ASSUME NEW op \in Op, NEW other \in Serial \cup {"none"}, NEW members,
               BeginEpoch(op, other, members)
        PROVE  TypeOK'
    <3>1. NextGeneration \in 1..MaxEpoch
      BY <2>5, RunControlAssumption DEF BeginEpoch, NextGeneration, TypeOK, RunTypeOK
    <3> QED
      BY <2>3, <2>5, <3>1 DEF BeginEpoch
  <2>6. CASE BeginResume
    BY <2>5, <2>6 DEF BeginResume, Op
  <2>7. ASSUME NEW s \in Serial, BeginRejoin(s) \/ BeginPromote(s)
        PROVE  TypeOK'
    BY <2>5, <2>7 DEF BeginRejoin, BeginPromote, Op
  <2> QED
    BY <1>9, <2>1, <2>2, <2>4, <2>6, <2>7 DEF Operator
<1>10. CASE CommitOpening \/ OpeningFails
  <2>1. opening' = Closed
    BY <1>10 DEF CommitOpening, OpeningFails
  <2>2. opening' \in [op : Op, epoch : 1..MaxEpoch, target : Serial \cup {"none"}]
    BY <2>1, RunControlAssumption DEF Closed, Op
  <2> QED
    BY <1>0, <1>10, <2>2 DEF CommitOpening, OpeningFails, TypeOK, registry, tables, workers
<1>11. ASSUME Forget
       PROVE  /\ up' \in BOOLEAN /\ chain' \in [Source -> Seq(Fault)] /\ handled' \subseteq Fault
              /\ handler' \in HandlerType /\ registered' \in BOOLEAN
              /\ generation' \in 0..MaxEpoch
              /\ opening' \in [op : Op, epoch : 1..MaxEpoch, target : Serial \cup {"none"}]
              /\ UNCHANGED <<policy, device, seq>>
  <2>1. <<>> \in Seq(Fault) /\ 1 \in 1..MaxEpoch /\ 0 \in 0..MaxEpoch
    BY RunControlAssumption
  <2>2. Idle \in [phase : Phase, op : {"pause", "complete"}, state : {"RUNNING", "PAUSED"}]
    BY DEF Idle, Phase
  <2>3. Closed \in [op : Op, epoch : 1..MaxEpoch, target : Serial \cup {"none"}]
    BY <2>1 DEF Closed, Op
  <2> QED
    BY <1>11, <2>1, <2>2, <2>3 DEF Forget, registry
<1>12. CASE Crash \/ \E source \in Source : RecordThrows(source)
  <2>1. Forget /\ UNCHANGED <<incident, action, recovery>>
    BY <1>12 DEF Crash, RecordThrows, GoDown
  <2> QED
    BY <1>0, <1>11, <2>1 DEF TypeOK
<1>13. ASSUME NEW source \in Source, CrashAnswering(source)
       PROVE  TypeOK'
  <2>1. Head(chain[source]) \in Fault
    BY <1>13, HeadIsFault DEF CrashAnswering, Due
  <2>2. /\ incident' \in [Fault -> 0..MaxEpoch]
        /\ action' \in [Fault -> {"NONE", "PAUSE_ALL", "QUARANTINE_DEVICE"}]
        /\ recovery' \in [Fault -> {"NONE", "STARTED", "SUCCEEDED", "FAILED"}]
    <3>1. UNCHANGED <<action, recovery>>
            \/ /\ action' = [action EXCEPT ![Head(chain[source])] = Decide(Head(chain[source]))]
               /\ recovery' = [recovery EXCEPT ![Head(chain[source])] = "STARTED"]
      BY <1>13 DEF CrashAnswering
    <3>2. incident' = [incident EXCEPT ![Head(chain[source])] = epoch]
      BY <1>13 DEF CrashAnswering
    <3>3. /\ [incident EXCEPT ![Head(chain[source])] = epoch] \in [Fault -> 0..MaxEpoch]
          /\ [action EXCEPT ![Head(chain[source])] = Decide(Head(chain[source]))]
               \in [Fault -> {"NONE", "PAUSE_ALL", "QUARANTINE_DEVICE"}]
          /\ [recovery EXCEPT ![Head(chain[source])] = "STARTED"]
               \in [Fault -> {"NONE", "STARTED", "SUCCEEDED", "FAILED"}]
      BY <1>6, <2>1
    <3>4. /\ action \in [Fault -> {"NONE", "PAUSE_ALL", "QUARANTINE_DEVICE"}]
          /\ recovery \in [Fault -> {"NONE", "STARTED", "SUCCEEDED", "FAILED"}]
      BY DEF TypeOK
    <3>5. CASE UNCHANGED <<action, recovery>>
      BY <3>2, <3>3, <3>4, <3>5
    <3> QED
      BY <3>1, <3>2, <3>3, <3>5
  <2> QED
    BY <1>0, <1>11, <1>13, <2>2 DEF CrashAnswering, TypeOK
<1>14. CASE Restart
  BY <1>0, <1>14 DEF Restart, TypeOK, registry, tables, memory, workers
<1>15. CASE UNCHANGED vars
  BY <1>0, <1>15 DEF vars, TypeOK, registry, tables, memory, workers
<1> QED
  BY <1>1, <1>2, <1>3, <1>4, <1>7, <1>8, <1>9, <1>10, <1>12, <1>13, <1>14, <1>15
     DEF Next, Monitor, Handler
-----------------------------------------------------------------------------
(* An opening keeps its device.                                            *)
LEMMA TargetedStep ==
  ASSUME Inv, [Next]_vars
  PROVE  Targeted'
<1> USE DEF Inv, Targeted
<1>1. ASSUME UNCHANGED <<registered, generation, opening, handler>>
      PROVE  Targeted'
  BY <1>1
<1>2. ASSUME NEW h \in Handler, NEW op, StopWorkers(h, op), UNCHANGED <<generation, opening>>
      PROVE  Targeted'
  BY <1>2 DEF StopWorkers, TypeOK
<1>3. ASSUME NEW h \in Handler, NEW phase \in Phase \ {"stop"},
             handler' = [handler EXCEPT ![h].phase = phase], UNCHANGED <<registered, workers, opening>>
      PROVE  Targeted'
  BY <1>3 DEF TypeOK, workers
<1>4. ASSUME NEW h \in Handler, NEW phase \in Phase \ {"stop"}, Leave(h, phase),
             UNCHANGED <<workers, opening>>
      PROVE  Targeted'
  BY <1>4 DEF Leave, Idle, TypeOK, workers
<1>5. ASSUME NEW s \in Serial, NEW state, ConnectionChanges(s, state) \/ WorkerFails(s)
      PROVE  Targeted'
  BY <1>1, <1>5 DEF ConnectionChanges, WorkerFails, workers
<1>6. ASSUME NEW source \in Source, Ignore(source)
      PROVE  Targeted'
  BY <1>1, <1>6 DEF Ignore, workers
<1>7. ASSUME NEW source \in Source, Answer(source)
      PROVE  Targeted'
  <2> DEFINE f == Head(chain[source])
  <2>0. source \in Handler
    BY DEF Handler
  <2>1. CASE Decide(f) = "PAUSE_ALL"
    BY <1>2, <1>7, <2>0, <2>1 DEF Answer
  <2>2. CASE Decide(f) # "PAUSE_ALL"
    <3>1. TakeOut(source, f.serial) /\ UNCHANGED <<generation, opening>>
      BY <1>7, <2>2 DEF Answer
    <3>2. PICK phase \in {"refused", "done"} : handler' = [handler EXCEPT ![source].phase = phase]
      BY <3>1 DEF TakeOut
    <3>3. phase \in Phase \ {"stop"} /\ UNCHANGED <<registered, workers, opening>>
      BY <3>1 DEF Phase, TakeOut, workers
    <3> QED
      BY <1>3, <2>0, <3>2, <3>3
  <2> QED
    BY <2>1, <2>2
<1>8. ASSUME NEW source \in Source, FinishRecovery(source)
      PROVE  Targeted'
  BY <1>8 DEF FinishRecovery, Idle, Handler, TypeOK, workers
<1>9. ASSUME NEW h \in Handler, Continue(h)
      PROVE  Targeted'
  <2>1. CASE StopEnds(h)
    BY <1>3, <2>1 DEF StopEnds, Phase, workers
  <2>2. CASE StopFails(h)
    BY <1>4, <2>2 DEF StopFails, Refuse, Phase
  <2>3. CASE CommitPause(h)
    BY <1>4, <2>3 DEF CommitPause, Refuse, Phase
  <2>4. CASE CommitComplete(h)
    BY <1>4, <2>4 DEF CommitComplete, Phase
  <2> QED
    BY <1>9, <2>1, <2>2, <2>3, <2>4 DEF Continue
<1>10. CASE Operator
  <2>1. CASE RunPreflight
    BY <1>1, <2>1 DEF RunPreflight, memory, workers
  <2>2. ASSUME NEW op, BeginStopping(op)
        PROVE  Targeted'
    BY <1>2, <2>2 DEF BeginStopping, Handler
  <2>3. ASSUME NEW op, NEW other, NEW number \in 1..MaxEpoch, Begin(op, other, number),
               op \in {"rejoin", "promote"} => other \in Serial
        PROVE  Targeted'
    BY <2>3, RunControlAssumption DEF Begin
  <2>4. CASE BeginStart
    BY <2>3, <2>4, RunControlAssumption DEF BeginStart
  <2>5. ASSUME NEW op, NEW other, NEW members, BeginEpoch(op, other, members),
               op \in {"rejoin", "promote"} => other \in Serial
        PROVE  Targeted'
    <3>1. NextGeneration \in 1..MaxEpoch
      BY <2>5, RunControlAssumption DEF BeginEpoch, NextGeneration, TypeOK, RunTypeOK
    <3> QED
      BY <2>3, <2>5, <3>1 DEF BeginEpoch
  <2>6. CASE BeginResume
    BY <2>5, <2>6 DEF BeginResume
  <2>7. ASSUME NEW s \in Serial, BeginRejoin(s) \/ BeginPromote(s)
        PROVE  Targeted'
    BY <2>5, <2>7 DEF BeginRejoin, BeginPromote
  <2> QED
    BY <1>10, <2>1, <2>2, <2>4, <2>6, <2>7 DEF Operator
<1>11. CASE CommitOpening \/ OpeningFails
  <2>1. /\ opening' = Closed /\ UNCHANGED <<handler, generation>>
        /\ registered' = FALSE \/ registered' = registered
    BY <1>11 DEF CommitOpening, OpeningFails, workers
  <2>2. registered' => registered
    BY <2>1
  <2>3. opening'.op = "none"
    BY <2>1 DEF Closed
  <2> QED
    BY <2>1, <2>2, <2>3
<1>12. ASSUME Forget
       PROVE  Targeted'
  BY <1>12 DEF Forget, Idle, Closed
<1>13. CASE Crash \/ (\E source \in Source : CrashAnswering(source) \/ RecordThrows(source))
  BY <1>12, <1>13 DEF Crash, CrashAnswering, RecordThrows, GoDown
<1>14. CASE Restart \/ UNCHANGED vars
  BY <1>1, <1>14 DEF Restart, vars, memory, workers
<1> QED
  BY <1>5, <1>6, <1>7, <1>8, <1>9, <1>10, <1>11, <1>13, <1>14 DEF Next, Monitor, Handler
-----------------------------------------------------------------------------
(* What was achieved lasts as long as the epoch.                           *)
LEMMA KeptLasts ==
  ASSUME Inv, RunHistory, NEW f \in Fault, Kept(f),
         epoch' = epoch, incident[f] = epoch, UNCHANGED action[f]
  PROVE  Kept(f)'
<1>1. epoch # 0 /\ runState \notin Early
  BY RunControlAssumption DEF Inv, TypeOK, RunTypeOK, Recorded
<1>2. f.serial \in Serial
  BY DEF Fault
<1> QED
  BY <1>1, <1>2 DEF Kept, RunHistory, Early

LEMMA RecordLasts ==
  ASSUME Inv, RunHistory, NEW f \in Fault, UNCHANGED <<incident[f], action[f], recovery[f]>>
  PROVE  Recorded(f)'
<1>1. incident[f] \in Nat /\ epoch \in Nat /\ incident[f] <= epoch
  BY RunControlAssumption DEF Inv, TypeOK, RunTypeOK, Recorded
<1>2. epoch' \in Nat /\ epoch <= epoch'
  BY DEF RunHistory
<1>3. incident'[f] <= epoch' /\ (incident'[f] = epoch' => epoch' = epoch /\ incident[f] = epoch)
  BY <1>1, <1>2
<1>4. runState' \in Early => incident'[f] = 0
  BY DEF Inv, Recorded, RunHistory
<1>5. recovery'[f] # "NONE" => action'[f] # "NONE" /\ incident'[f] # 0
  BY DEF Inv, Recorded
<1>6. recovery'[f] = "SUCCEEDED" /\ incident'[f] = epoch' => Kept(f)'
  BY <1>3, KeptLasts DEF Inv, Recorded
<1> QED
  BY <1>3, <1>4, <1>5, <1>6 DEF Recorded

\* The monitor has its fault in hand and does not move; events may come.
LEMMA AttentionLasts ==
  ASSUME Inv, RunHistory, TypeOK', NEW source \in Source, UNCHANGED handler[source],
         \/ chain'[source] = chain[source]
         \/ \E g \in Fault : g.source = source /\ chain'[source] = Append(chain[source], g),
         \A f \in Fault : chain[source] # <<>> /\ f = Head(chain[source]) =>
           UNCHANGED <<incident[f], action[f], recovery[f]>>
  PROVE  Attending(source)'
<1>1. chain[source] \in Seq(Fault) /\ Attending(source)
  BY DEF Inv, TypeOK
<1>2. \A i \in 1..Len(chain'[source]) : chain'[source][i].source = source
  <2>1. \A i \in 1..Len(chain[source]) : chain[source][i].source = source
    BY <1>1 DEF Attending
  <2>2. CASE chain'[source] = chain[source]
    BY <2>1, <2>2
  <2>3. ASSUME NEW g \in Fault, g.source = source, chain'[source] = Append(chain[source], g)
        PROVE  \A i \in 1..Len(chain'[source]) : chain'[source][i].source = source
    BY <1>1, <2>1, <2>3
  <2> QED
    BY <2>2, <2>3
<1>3. CASE handler[source].phase = "idle"
  BY <1>1, <1>2, <1>3 DEF Attending
<1>4. CASE handler[source].phase # "idle"
  <2>1. chain[source] # <<>>
    BY <1>4 DEF Inv, Attending
  <2>2. PICK f \in Fault : f = Head(chain[source])
    BY <2>1, HeadIsFault DEF Inv
  <2>3. chain'[source] # <<>> /\ f = Head(chain'[source])
    BY <1>1, <2>1, <2>2
  <2>4. /\ recovery[f] = "STARTED"
        /\ handler[source].phase \in {"stop", "video"} => action[f] = "PAUSE_ALL"
        /\ handler[source].phase = "done" /\ incident[f] = epoch => Kept(f)
    BY <1>4, <2>2 DEF Inv, Attending
  <2>5. UNCHANGED <<incident[f], action[f], recovery[f]>>
    BY <2>1, <2>2
  <2>6. incident[f] <= epoch /\ incident[f] \in Nat /\ epoch \in Nat /\ epoch' \in Nat /\ epoch <= epoch'
    BY RunControlAssumption DEF Inv, TypeOK, RunTypeOK, Recorded, RunHistory
  <2>7. ASSUME handler[source].phase = "done", incident'[f] = epoch'
        PROVE  Kept(f)'
    <3>1. incident'[f] = incident[f] /\ action'[f] = action[f]
      BY <2>5
    <3>2. epoch' = epoch /\ incident[f] = epoch
      BY <2>6, <2>7, <3>1
    <3>3. Kept(f)
      BY <2>4, <2>7, <3>2
    <3> QED
      BY <3>1, <3>2, <3>3, KeptLasts
  <2>8. handler'[source] = handler[source] /\ handler[source].op = "pause"
    BY <1>1 DEF Attending
  <2>9. /\ recovery'[f] = "STARTED"
        /\ handler'[source].phase \in {"stop", "video"} => action'[f] = "PAUSE_ALL"
        /\ handler'[source].phase = "done" /\ incident'[f] = epoch' => Kept(f)'
    BY <2>4, <2>5, <2>7, <2>8
  <2> QED
    BY <1>2, <2>3, <2>8, <2>9 DEF Attending, Kept
<1> QED
  BY <1>3, <1>4

\* Two monitors never have the same fault in hand.
LEMMA OtherFault ==
  ASSUME Inv, NEW source \in Source, NEW other \in Source, source # other,
         chain[source] # <<>>, chain[other] # <<>>
  PROVE  Head(chain[source]) # Head(chain[other])
<1>1. \A s \in Source : chain[s] # <<>> => Head(chain[s]).source = s
  <2> TAKE s \in Source
  <2>1. chain[s] \in Seq(Fault) /\ \A i \in 1..Len(chain[s]) : chain[s][i].source = s
    BY DEF Inv, TypeOK, Attending
  <2> QED
    BY <2>1
<1> QED
  BY <1>1
-----------------------------------------------------------------------------
(* The part of Inv that is about faults, one action at a time.             *)
Answered ==
  /\ \A source \in Source : Attending(source)
  /\ \A f \in Fault : Recorded(f)

\* Steps that tell the monitors nothing, or one more fault.
LEMMA UntoldSound ==
  ASSUME Inv, RunHistory, TypeOK', UNCHANGED <<incident, action, recovery>>,
         \A source \in Source :
           /\ UNCHANGED handler[source]
           /\ \/ chain'[source] = chain[source]
              \/ \E g \in Fault : g.source = source /\ chain'[source] = Append(chain[source], g)
  PROVE  Answered'
<1>1. ASSUME NEW source \in Source
      PROVE  Attending(source)'
  BY AttentionLasts
<1>2. ASSUME NEW f \in Fault
      PROVE  Recorded(f)'
  BY RecordLasts
<1> QED
  BY <1>1, <1>2 DEF Answered

LEMMA EventSound ==
  ASSUME Inv, RunHistory, TypeOK', UNCHANGED <<incident, action, recovery, handler>>,
         NEW g \in Fault, Enqueue(g)
  PROVE  Answered'
<1>1. \A source \in Source :
        \/ chain'[source] = chain[source]
        \/ g.source = source /\ chain'[source] = Append(chain[source], g)
  BY DEF Enqueue, Inv, TypeOK
<1> QED
  BY <1>1, UntoldSound

LEMMA IgnoreSound ==
  ASSUME Inv, RunHistory, TypeOK', NEW source \in Source, Ignore(source)
  PROVE  Answered'
<1> USE DEF Ignore
<1>1. ASSUME NEW other \in Source \ {source}
      PROVE  Attending(other)'
  <2>1. chain'[other] = chain[other]
    BY DEF Inv, TypeOK
  <2> QED
    BY <2>1, AttentionLasts DEF tables
<1>2. Attending(source)'
  <2>1. chain[source] # <<>> /\ handler[source].phase = "idle" /\ handler[source].op = "pause"
    BY DEF Due, Inv, Attending
  <2>2. chain'[source] = Tail(chain[source])
    BY DEF Inv, TypeOK
  <2>3. \A i \in 1..Len(chain'[source]) : chain'[source][i].source = source
    <3>1. \A i \in 1..Len(chain[source]) : chain[source][i].source = source
      BY DEF Inv, Attending
    <3>2. \A i \in 1..(Len(chain[source]) - 1) : Tail(chain[source])[i] = chain[source][i + 1]
      BY <2>1, HeadIsFault DEF Inv
    <3>3. Len(chain[source]) \in Nat \ {0} /\ Len(chain'[source]) = Len(chain[source]) - 1
      BY <2>1, <2>2, HeadIsFault DEF Inv
    <3> QED
      BY <2>2, <3>1, <3>2, <3>3
  <2> QED
    BY <2>1, <2>3 DEF Attending
<1>3. ASSUME NEW f \in Fault
      PROVE  Recorded(f)'
  BY RecordLasts DEF tables
<1> QED
  BY <1>1, <1>2, <1>3 DEF Answered

LEMMA FinishSound ==
  ASSUME Inv, RunHistory, TypeOK', NEW source \in Source, FinishRecovery(source)
  PROVE  Answered'
<1>0. chain[source] # <<>>
  BY DEF FinishRecovery, Inv, Attending
<1> PICK f \in Fault : f = Head(chain[source])
  BY <1>0, HeadIsFault DEF Inv
<1>1. /\ recovery[f] = "STARTED"
      /\ handler[source].phase = "done" /\ incident[f] = epoch => Kept(f)
  BY DEF FinishRecovery, Inv, Attending
<1>2. /\ recovery' = [recovery EXCEPT ![f] = Outcome(source)]
      /\ chain' = [chain EXCEPT ![source] = Tail(@)]
      /\ handler' = [handler EXCEPT ![source] = Idle]
      /\ UNCHANGED <<runVars, incident, action>>
  BY DEF FinishRecovery
<1>3. ASSUME NEW other \in Source \ {source}
      PROVE  Attending(other)'
  <2>1. UNCHANGED <<chain[other], handler[other]>>
    BY <1>2 DEF Inv, TypeOK, Handler
  <2>2. ASSUME NEW g \in Fault, chain[other] # <<>>, g = Head(chain[other])
        PROVE  UNCHANGED recovery[g]
    BY <1>0, <1>2, <2>2, OtherFault DEF Inv, TypeOK
  <2> QED
    BY <1>2, <2>1, <2>2, AttentionLasts
<1>4. Attending(source)'
  <2>1. chain'[source] = Tail(chain[source]) /\ handler'[source] = Idle
    BY <1>2 DEF Inv, TypeOK, Handler
  <2>2. \A i \in 1..Len(chain'[source]) : chain'[source][i].source = source
    <3>1. \A i \in 1..Len(chain[source]) : chain[source][i].source = source
      BY DEF Inv, Attending
    <3>2. \A i \in 1..(Len(chain[source]) - 1) : Tail(chain[source])[i] = chain[source][i + 1]
      BY <1>0, HeadIsFault DEF Inv
    <3>3. Len(chain[source]) \in Nat \ {0} /\ Len(chain'[source]) = Len(chain[source]) - 1
      BY <1>0, <2>1, HeadIsFault DEF Inv
    <3> QED
      BY <2>1, <3>1, <3>2, <3>3
  <2> QED
    BY <2>1, <2>2 DEF Attending, Idle
<1>5. ASSUME NEW g \in Fault, g # f
      PROVE  Recorded(g)'
  <2>1. UNCHANGED recovery[g]
    BY <1>2, <1>5 DEF Inv, TypeOK
  <2> QED
    BY <1>2, <2>1, RecordLasts
<1>6. Recorded(f)'
  <2>1. Recorded(f) /\ UNCHANGED <<epoch, runState, roster, incident[f], action[f]>>
    BY <1>2 DEF Inv, runVars
  <2>2. recovery'[f] = Outcome(source)
    BY <1>2 DEF Inv, TypeOK
  <2>3. recovery'[f] = "SUCCEEDED" => handler[source].phase = "done"
    BY <2>2 DEF Outcome
  <2> QED
    BY <1>1, <2>1, <2>3 DEF Recorded, Kept
<1> QED
  BY <1>3, <1>4, <1>5, <1>6 DEF Answered
-----------------------------------------------------------------------------
(* What a queue holds after its step.                                      *)
LEMMA QueueAfter ==
  ASSUME Inv, TypeOK', NEW f \in Fault
  PROVE  /\ UNCHANGED chain => (Queued(f)' <=> Queued(f))
         /\ \A g \in Fault : Enqueue(g) /\ Queued(f)' => Queued(f) \/ f = g
         /\ \A source \in Source :
              chain[source] # <<>> /\ chain' = [chain EXCEPT ![source] = Tail(@)]
              /\ Queued(f)' => Queued(f)
         /\ chain' = [source \in Source |-> <<>>] => ~ Queued(f)'
         /\ \A source \in Source :
              chain[source] # <<>> /\ f = Head(chain[source]) => Queued(f)
<1> USE DEF Queued, ToSet
<1>0. f.source \in Source /\ chain[f.source] \in Seq(Fault)
  BY DEF Inv, TypeOK, Fault
<1>1. UNCHANGED chain => (Queued(f)' <=> Queued(f))
  OBVIOUS
<1>2. ASSUME NEW g \in Fault, Enqueue(g), Queued(f)'
      PROVE  Queued(f) \/ f = g
  <2>1. \/ chain'[f.source] = chain[f.source]
        \/ chain'[f.source] = Append(chain[f.source], g)
    BY <1>0, <1>2 DEF Enqueue, Inv, TypeOK
  <2> QED
    BY <1>0, <1>2, <2>1
<1>3. ASSUME NEW source \in Source, chain[source] # <<>>,
             chain' = [chain EXCEPT ![source] = Tail(@)], Queued(f)'
      PROVE  Queued(f)
  <2>1. CASE source = f.source
    <3>1. chain'[source] = Tail(chain[source])
      BY <1>3 DEF Inv, TypeOK
    <3>2. \E i \in DOMAIN chain'[source] : f = chain'[source][i]
      BY <1>3, <2>1
    <3>3. PICK i \in 1..Len(Tail(chain[source])) : f = Tail(chain[source])[i]
      <4>1. Tail(chain[source]) \in Seq(Fault)
        BY <1>3, HeadIsFault DEF Inv
      <4>2. \E i \in DOMAIN Tail(chain[source]) : f = Tail(chain[source])[i]
        BY <3>1, <3>2
      <4> QED
        BY <4>1, <4>2
    <3>4. i + 1 \in 1..Len(chain[source]) /\ f = chain[source][i + 1]
      BY <1>3, <3>3, HeadIsFault DEF Inv
    <3> QED
      BY <1>0, <2>1, <3>4
  <2>2. CASE source # f.source
    <3>1. chain'[f.source] = chain[f.source]
      BY <1>0, <1>3, <2>2 DEF Inv, TypeOK
    <3> QED
      BY <1>3, <3>1
  <2> QED
    BY <2>1, <2>2
<1>4. chain' = [source \in Source |-> <<>>] => ~ Queued(f)'
  BY <1>0
<1>5. ASSUME NEW source \in Source, chain[source] # <<>>, f = Head(chain[source])
      PROVE  Queued(f)
  <2>1. 1 \in 1..Len(chain[source]) /\ f = chain[source][1]
    BY <1>5, HeadIsFault DEF Inv
  <2>2. f.source = source
    BY <2>1 DEF Inv, Attending
  <2> QED
    BY <1>0, <2>1, <2>2
<1> QED
  BY <1>1, <1>2, <1>3, <1>4, <1>5

\* A fault that is not answered in this step, and not reported either.
LEMMA KnownLasts ==
  ASSUME Inv, TypeOK', NEW f \in Fault, incident'[f] = incident[f],
         seq[f.serial] <= seq'[f.serial], Queued(f)' => Queued(f),
         (f \in handled => f \in handled') \/ ~ Queued(f)'
  PROVE  Known(f)'
<1>1. f.n \in Nat /\ seq[f.serial] \in Nat /\ seq'[f.serial] \in Nat
  BY NumberRange, FaultAssumption DEF Fault, Inv, TypeOK
<1>2. Known(f)
  BY DEF Inv, Fresh
<1> QED
  BY <1>1, <1>2 DEF Known

LEMMA AnswerFresh ==
  ASSUME Inv, TypeOK', NEW source \in Source, Due(source),
         incident' = [incident EXCEPT ![Head(chain[source])] = epoch], UNCHANGED seq,
         \/ UNCHANGED chain /\ handled' = handled \cup {Head(chain[source])}
         \/ chain' = [s \in Source |-> <<>>]
  PROVE  Fresh'
<1>0. chain[source] # <<>>
  BY DEF Due
<1> PICK f \in Fault : f = Head(chain[source])
  BY <1>0, HeadIsFault DEF Inv
<1>1. \A g \in Fault : Queued(g)' => Queued(g)
  BY QueueAfter
<1>2. \A g \in Fault : chain' = [s \in Source |-> <<>>] => ~ Queued(g)'
  BY QueueAfter
<1>3. ASSUME NEW g \in Fault, g # f
      PROVE  Known(g)'
  <2>1. incident'[g] = incident[g] /\ g.serial \in Serial
    BY <1>3 DEF Inv, TypeOK, Fault
  <2>2. seq[g.serial] <= seq'[g.serial]
    BY <2>1, FaultAssumption DEF Inv, TypeOK
  <2> QED
    BY <1>1, <1>2, <2>1, <2>2, KnownLasts
<1>4. Known(f)'
  <2>1. Queued(f) /\ Known(f)
    BY <1>0, QueueAfter DEF Inv, Fresh
  <2>2. f \in handled' \/ ~ Queued(f)'
    BY <1>2
  <2> QED
    BY <2>1, <2>2 DEF Known
<1> QED
  BY <1>3, <1>4 DEF Fresh

(* The numbers of the registry's faults stay apart.                        *)
LEMMA FreshStep ==
  ASSUME Inv, TypeOK', [Next]_vars
  PROVE  Fresh'
<1>0. /\ Fresh /\ \A s \in Serial : seq[s] \in Nat
      /\ \A f \in Fault : f.n \in Nat \ {0} /\ f.serial \in Serial
  BY NumberRange, FaultAssumption DEF Fault, Inv, TypeOK
<1>1. ASSUME UNCHANGED <<seq, incident, handled>>, \A f \in Fault : Queued(f)' => Queued(f)
      PROVE  Fresh'
  BY <1>0, <1>1, KnownLasts DEF Fresh
<1>2. ASSUME UNCHANGED <<seq, incident, handled, chain>>
      PROVE  Fresh'
  BY <1>1, <1>2, QueueAfter
<1>3. ASSUME NEW s \in Serial, NEW state \in {"ONLINE", "OFFLINE"}, ConnectionChanges(s, state)
      PROVE  Fresh'
  <2>1. [source |-> "device", serial |-> s, n |-> seq[s] + 1] \in Fault
    <3>1. seq[s] \in 1..MaxSeq /\ seq[s] < MaxSeq
      BY <1>3 DEF ConnectionChanges, Inv, TypeOK
    <3> QED
      BY <3>1, NumberRange, FaultAssumption DEF Fault, Source
  <2> PICK new \in Fault : new = [source |-> "device", serial |-> s, n |-> seq[s] + 1]
    BY <2>1
  <2>2. \A f \in Fault : Queued(f)' => Queued(f) \/ f = new
    <3>1. UNCHANGED chain \/ Enqueue(new)
      BY <1>3 DEF ConnectionChanges, NextConnection
    <3> QED
      BY <2>1, <3>1, QueueAfter
  <2>3. seq' = [seq EXCEPT ![s] = seq[s] + 1] /\ UNCHANGED <<incident, handled>>
    BY <1>3 DEF ConnectionChanges, NextConnection, tables
  <2>4. \A t \in Serial : seq[t] <= seq'[t]
    BY <1>0, <2>3 DEF Inv, TypeOK
  <2>5. ASSUME NEW f \in Fault, f # new
        PROVE  Known(f)'
    BY <1>0, <2>2, <2>3, <2>4, <2>5, KnownLasts
  <2>6. Known(new)'
    <3>1. new.source = "device" /\ new.serial = s /\ new.n = seq[s] + 1
      OBVIOUS
    <3>2. seq'[s] = seq[s] + 1
      BY <2>3 DEF Inv, TypeOK
    <3>3. incident[new] = 0
      BY <1>0, <2>1, <3>1 DEF Fresh, Known
    <3> QED
      BY <1>0, <2>3, <3>1, <3>2, <3>3 DEF Known
  <2> QED
    BY <2>5, <2>6 DEF Fresh
<1>4. ASSUME NEW s \in Serial, WorkerFails(s)
      PROVE  Fresh'
  <2>1. PICK g \in Fault : g.source = "worker" /\ Enqueue(g)
    BY <1>4, WorkerReports DEF Inv
  <2>2. UNCHANGED <<seq, incident, handled>>
    BY <1>4 DEF WorkerFails, registry, tables
  <2>3. ASSUME NEW f \in Fault, f # g
        PROVE  Known(f)'
    BY <1>0, <2>1, <2>2, <2>3, QueueAfter, KnownLasts
  <2> QED
    BY <2>1, <2>3 DEF Fresh, Known
<1>5. ASSUME NEW source \in Source, Ignore(source) \/ FinishRecovery(source)
      PROVE  Fresh'
  <2>1. chain[source] # <<>> /\ chain' = [chain EXCEPT ![source] = Tail(@)]
    BY <1>5 DEF Ignore, Due, FinishRecovery, Inv, Attending
  <2>2. UNCHANGED <<seq, incident, handled>>
    BY <1>5 DEF Ignore, FinishRecovery, registry, tables
  <2> QED
    BY <1>1, <2>1, <2>2, QueueAfter
<1>6. ASSUME NEW source \in Source, Answer(source)
      PROVE  Fresh'
  BY <1>6, AnswerFresh DEF Answer, registry
<1>7. ASSUME NEW h \in Handler, Continue(h)
      PROVE  Fresh'
  BY <1>2, <1>7 DEF Continue, StopEnds, StopFails, CommitPause, CommitComplete,
                    registry, tables
<1>8. CASE Operator
  BY <1>2, <1>8 DEF Operator, RunPreflight, BeginStopping, BeginStart, BeginResume, BeginRejoin,
                    BeginPromote, BeginEpoch, Begin, registry, tables, memory
<1>9. CASE CommitOpening \/ OpeningFails \/ Restart \/ UNCHANGED vars
  BY <1>2, <1>9 DEF CommitOpening, OpeningFails, Restart, vars, registry, tables, memory
<1>10. ASSUME Forget
       PROVE  UNCHANGED seq /\ chain' = [s \in Source |-> <<>>]
  BY <1>10 DEF Forget, registry
<1>11. CASE Crash \/ \E source \in Source : RecordThrows(source)
  <2>1. Forget /\ UNCHANGED incident
    BY <1>11 DEF Crash, RecordThrows, GoDown
  <2>2. ASSUME NEW f \in Fault
        PROVE  Known(f)'
    BY <1>0, <1>10, <2>1, QueueAfter, KnownLasts
  <2> QED
    BY <2>2 DEF Fresh
<1>12. ASSUME NEW source \in Source, CrashAnswering(source)
       PROVE  Fresh'
  BY <1>10, <1>12, AnswerFresh DEF CrashAnswering
<1> QED
  BY <1>3, <1>4, <1>5, <1>6, <1>7, <1>8, <1>9, <1>11, <1>12 DEF Next, Monitor, Handler
-----------------------------------------------------------------------------
(* An answer starts a recovery; a device that is taken out is out at once. *)
LEMMA AnswerSound ==
  ASSUME Inv, RunHistory, TypeOK', NEW source \in Source, Answer(source)
  PROVE  Answered'
<1>0. chain[source] # <<>>
  BY DEF Answer, Due
<1> PICK f \in Fault : f = Head(chain[source])
  BY <1>0, HeadIsFault DEF Inv
<1>1. /\ Concerns(f)
      /\ incident' = [incident EXCEPT ![f] = epoch]
      /\ action' = [action EXCEPT ![f] = Decide(f)]
      /\ recovery' = [recovery EXCEPT ![f] = "STARTED"]
      /\ IF Decide(f) = "PAUSE_ALL"
         THEN StopWorkers(source, "pause") /\ UNCHANGED runVars
         ELSE TakeOut(source, f.serial)
      /\ UNCHANGED chain
  BY DEF Answer
<1>2. incident'[f] = epoch /\ action'[f] = Decide(f) /\ recovery'[f] = "STARTED"
  BY <1>1 DEF Inv, TypeOK
<1>3. /\ runState' = "RUNNING" /\ epoch' = epoch
      /\ epoch \in Nat \ {0} /\ f.serial \in Serial
  <2>1. runState = "RUNNING" /\ runState' = runState /\ epoch' = epoch
    BY <1>1 DEF Concerns, TakeOut, Quarantine, runVars
  <2>2. epoch \in Nat \ {0}
    BY RunControlAssumption DEF Inv, TypeOK, RunTypeOK
  <2>3. f.serial \in Serial
    BY DEF Fault
  <2> QED
    BY <2>1, <2>2, <2>3
<1>4. ASSUME NEW other \in Source \ {source}
      PROVE  Attending(other)'
  <2>1. UNCHANGED <<chain[other], handler[other]>>
    <3>1. other \in Handler /\ handler \in [Handler -> [phase : Phase, op : {"pause", "complete"},
                                                   state : {"RUNNING", "PAUSED"}]]
      BY DEF Handler, Inv, TypeOK
    <3>2. PICK r : handler' = [handler EXCEPT ![source] = r]
      BY <1>1 DEF StopWorkers, TakeOut
    <3> QED
      BY <1>1, <3>1, <3>2
  <2>2. ASSUME NEW g \in Fault, chain[other] # <<>>, g = Head(chain[other])
        PROVE  UNCHANGED <<incident[g], action[g], recovery[g]>>
    <3>1. g # f
      BY <1>0, <2>2, OtherFault
    <3> QED
      BY <1>1, <3>1 DEF Inv, TypeOK
  <2> QED
    BY <2>1, <2>2, AttentionLasts
<1>5. Attending(source)'
  <2>1. chain'[source] = chain[source] /\ \A i \in 1..Len(chain[source]) : chain[source][i].source = source
    BY <1>1 DEF Inv, Attending
  <2>2. CASE Decide(f) = "PAUSE_ALL"
    <3>1. handler'[source] = [phase |-> IF registered THEN "stop" ELSE "video",
                              op |-> "pause", state |-> runState]
      BY <1>1, <2>2 DEF StopWorkers, Inv, TypeOK, Handler
    <3>2. handler'[source].op = "pause" /\ handler'[source].phase \in {"stop", "video"}
      BY <3>1
    <3> QED
      BY <1>0, <1>2, <2>1, <2>2, <3>2 DEF Attending
  <2>3. CASE Decide(f) # "PAUSE_ALL"
    <3>1. Decide(f) = "QUARANTINE_DEVICE" /\ f.serial # leader
      BY <2>3 DEF Decide
    <3>2. handler' = [handler EXCEPT ![source].phase = "done"]
      BY <1>1, <2>3, <3>1 DEF TakeOut
    <3>3. handler'[source].op = "pause" /\ handler'[source].phase = "done"
      <4>1. /\ source \in Handler /\ handler[source].op = "pause"
            /\ handler \in [Handler -> [phase : Phase, op : {"pause", "complete"},
                                        state : {"RUNNING", "PAUSED"}]]
        BY DEF Handler, Inv, TypeOK, Attending
      <4> QED
        BY <3>2, <4>1
    <3>4. roster'[f.serial] = "QUARANTINED"
      <4>1. roster \in [Serial -> Membership] /\ roster[f.serial] \in {"ACTIVE", "QUARANTINED"}
        BY <1>1 DEF Concerns, Seen, Inv, TypeOK, RunTypeOK
      <4>2. CASE roster[f.serial] = "ACTIVE"
        BY <1>1, <1>3, <2>3, <3>1, <4>1, <4>2 DEF TakeOut, Quarantine
      <4>3. CASE roster[f.serial] # "ACTIVE"
        BY <1>1, <2>3, <4>1, <4>3 DEF TakeOut, runVars
      <4> QED
        BY <4>2, <4>3
    <3>5. action'[f] = "QUARANTINE_DEVICE"
      BY <1>2, <3>1
    <3> QED
      BY <1>0, <1>2, <2>1, <3>3, <3>4, <3>5 DEF Attending, Kept
  <2> QED
    BY <2>2, <2>3
<1>6. ASSUME NEW g \in Fault, g # f
      PROVE  Recorded(g)'
  <2>1. UNCHANGED <<incident[g], action[g], recovery[g]>>
    BY <1>1, <1>6 DEF Inv, TypeOK
  <2> QED
    BY <2>1, RecordLasts
<1>7. Recorded(f)'
  <2>1. action'[f] # "NONE"
    BY <1>2 DEF Decide
  <2> QED
    BY <1>2, <1>3, <2>1 DEF Recorded, Early
<1> QED
  BY <1>4, <1>5, <1>6, <1>7 DEF Answered

(* A handler comes back from an await: a pause that is done has paused.    *)
LEMMA ContinueSound ==
  ASSUME Inv, RunHistory, TypeOK', NEW h \in Handler, Continue(h)
  PROVE  Answered'
<1>1. UNCHANGED <<chain, incident, action, recovery>>
  BY DEF Continue, StopEnds, StopFails, CommitPause, CommitComplete, tables
<1>2. \A other \in Handler : other # h => handler'[other] = handler[other]
  <2>1. handler \in [Handler -> [phase : Phase, op : {"pause", "complete"},
                                state : {"RUNNING", "PAUSED"}]]
    BY DEF Inv, TypeOK
  <2>2. PICK r : handler' = [handler EXCEPT ![h] = r]
    BY DEF Continue, StopEnds, StopFails, CommitPause, CommitComplete, Refuse, Leave
  <2> QED
    BY <2>1, <2>2
<1>3. CASE h = "operator"
  <2>1. \A source \in Source : UNCHANGED <<handler[source], chain[source]>>
    BY <1>1, <1>2, <1>3 DEF Handler, Source
  <2> QED
    BY <1>1, <2>1, UntoldSound
<1>4. ASSUME h \in Source
      PROVE  Answered'
  <2>1. ASSUME NEW other \in Source, other # h
        PROVE  Attending(other)'
    <3>1. handler'[other] = handler[other] /\ chain'[other] = chain[other]
      BY <1>1, <1>2, <2>1 DEF Handler
    <3> QED
      BY <1>1, <3>1, AttentionLasts
  <2>2. Attending(h)'
    <3>0. Attending(h) /\ handler[h].phase \in {"stop", "video"} /\ handler[h].op = "pause"
      BY <1>4 DEF Continue, StopEnds, StopFails, CommitPause, CommitComplete, Inv, Attending
    <3>1. PICK f \in Fault : f = Head(chain[h])
      BY <1>4, <3>0, HeadIsFault DEF Inv, Attending
    <3>2. chain[h] # <<>> /\ recovery[f] = "STARTED" /\ action[f] = "PAUSE_ALL"
      BY <3>0, <3>1 DEF Attending
    <3>3. \A phase : Leave(h, phase) => handler'[h].phase = phase /\ handler'[h].op = "pause"
      BY <1>4 DEF Leave, Idle, Inv, TypeOK
    <3>4. CASE StopEnds(h)
      <4>1. handler'[h].phase = "video" /\ handler'[h].op = "pause"
        <5>1. /\ handler' = [handler EXCEPT ![h].phase = "video"]
              /\ handler \in [Handler -> [phase : Phase, op : {"pause", "complete"},
                                          state : {"RUNNING", "PAUSED"}]]
          BY <3>4 DEF StopEnds, Inv, TypeOK
        <5> QED
          BY <3>0, <5>1
      <4> QED
        BY <1>1, <3>0, <3>1, <3>2, <4>1 DEF Attending
    <3>5. ASSUME Refuse(h)
          PROVE  Attending(h)'
      <4>1. handler'[h].phase = "refused" /\ handler'[h].op = "pause"
        BY <3>3, <3>5 DEF Refuse
      <4> QED
        BY <1>1, <3>0, <3>1, <3>2, <4>1 DEF Attending
    <3>6. CASE CommitPause(h) /\ ~ Refuse(h)
      <4>1. handler'[h].phase = "done" /\ handler'[h].op = "pause" /\ runState' = "PAUSED"
        BY <3>3, <3>6 DEF CommitPause, Pause
      <4> QED
        BY <1>1, <3>0, <3>1, <3>2, <4>1 DEF Attending, Kept
    <3>7. ~ CommitComplete(h)
      BY <3>0 DEF CommitComplete
    <3> QED
      BY <3>4, <3>5, <3>6, <3>7 DEF Continue, StopFails
  <2>3. ASSUME NEW f \in Fault
        PROVE  Recorded(f)'
    BY <1>1, RecordLasts
  <2> QED
    BY <2>1, <2>2, <2>3 DEF Answered
<1> QED
  BY <1>3, <1>4 DEF Handler

\* The monitors' memory is gone, their records remain.
LEMMA ForgetSound ==
  ASSUME Forget
  PROVE  \A source \in Source : Attending(source)'
BY DEF Forget, Attending, Idle, Handler

LEMMA CrashAnsweringSound ==
  ASSUME Inv, RunHistory, TypeOK', NEW source \in Source, CrashAnswering(source)
  PROVE  Answered'
<1>0. chain[source] # <<>>
  BY DEF CrashAnswering, Due
<1> PICK f \in Fault : f = Head(chain[source])
  BY <1>0, HeadIsFault DEF Inv
<1>1. /\ Concerns(f)
      /\ incident[f] = 0
      /\ incident' = [incident EXCEPT ![f] = epoch]
      /\ \/ UNCHANGED <<action, recovery>>
         \/ /\ action' = [action EXCEPT ![f] = Decide(f)]
            /\ recovery' = [recovery EXCEPT ![f] = "STARTED"]
      /\ Forget
  BY DEF CrashAnswering
<1>2. ASSUME NEW g \in Fault, g # f
      PROVE  Recorded(g)'
  <2>1. UNCHANGED <<incident[g], action[g], recovery[g]>>
    BY <1>1, <1>2 DEF Inv, TypeOK
  <2> QED
    BY <2>1, RecordLasts
<1>3. Recorded(f)'
  <2>2. recovery[f] = "NONE"
    BY <1>1 DEF Inv, Recorded
  <2>3. recovery'[f] = "NONE" \/ (recovery'[f] = "STARTED" /\ action'[f] # "NONE")
    BY <1>1, <2>2 DEF Decide, Inv, TypeOK
  <2>4. /\ incident'[f] = epoch' /\ epoch' \in Nat \ {0}
        /\ runState' = "RUNNING"
    BY <1>1, RunControlAssumption DEF Concerns, Forget, runVars, Inv, TypeOK, RunTypeOK
  <2> QED
    BY <2>3, <2>4 DEF Recorded, Early
<1> QED
  BY <1>1, <1>2, <1>3, ForgetSound DEF Answered
-----------------------------------------------------------------------------
LEMMA AnsweredStep ==
  ASSUME Inv, RunHistory, TypeOK', [Next]_vars
  PROVE  Answered'
<1>1. ASSUME NEW s \in Serial, NEW state \in {"ONLINE", "OFFLINE"}, ConnectionChanges(s, state)
      PROVE  Answered'
  <2>1. UNCHANGED <<incident, action, recovery, handler>>
    BY <1>1 DEF ConnectionChanges, tables
  <2>2. CASE UNCHANGED chain
    BY <2>1, <2>2, UntoldSound
  <2>3. CASE ~ UNCHANGED chain
    <3>1. seq[s] \in 1..MaxSeq /\ seq[s] < MaxSeq
      BY <1>1 DEF ConnectionChanges, Inv, TypeOK
    <3>2. [source |-> "device", serial |-> s, n |-> seq[s] + 1] \in Fault
      BY <3>1, NumberRange, FaultAssumption DEF Fault, Source
    <3>3. Enqueue([source |-> "device", serial |-> s, n |-> seq[s] + 1])
      BY <1>1, <2>3 DEF ConnectionChanges, NextConnection
    <3> QED
      BY <2>1, <3>2, <3>3, EventSound
  <2> QED
    BY <2>2, <2>3
<1>2. ASSUME NEW s \in Serial, WorkerFails(s)
      PROVE  Answered'
  <2>1. \E g \in Fault : Enqueue(g)
    BY <1>2, WorkerReports DEF Inv
  <2>2. UNCHANGED <<incident, action, recovery, handler>>
    BY <1>2 DEF WorkerFails, tables
  <2> QED
    BY <2>1, <2>2, EventSound
<1>3. ASSUME UNCHANGED <<chain, incident, action, recovery>>,
             \A source \in Source : UNCHANGED handler[source]
      PROVE  Answered'
  BY <1>3, UntoldSound
<1>4. CASE Operator
  <2>1. UNCHANGED <<chain, incident, action, recovery>>
    BY <1>4 DEF Operator, RunPreflight, BeginStopping, BeginStart, BeginResume, BeginRejoin,
                BeginPromote, BeginEpoch, Begin, tables, memory
  <2>2. UNCHANGED handler \/ \E r : handler' = [handler EXCEPT !["operator"] = r]
    BY <1>4 DEF Operator, RunPreflight, BeginStopping, StopWorkers, BeginStart, BeginResume,
                BeginRejoin, BeginPromote, BeginEpoch, Begin, memory
  <2>3. \A source \in Source : UNCHANGED handler[source]
    BY <2>2 DEF Source, Handler, Inv, TypeOK
  <2> QED
    BY <1>3, <2>1, <2>3
<1>5. CASE CommitOpening \/ OpeningFails \/ Restart \/ UNCHANGED vars
  BY <1>3, <1>5 DEF CommitOpening, OpeningFails, Restart, vars, tables, memory
<1>6. CASE Crash \/ \E source \in Source : RecordThrows(source)
  <2>1. Forget /\ UNCHANGED <<incident, action, recovery>>
    BY <1>6 DEF Crash, RecordThrows, GoDown
  <2> QED
    BY <2>1, ForgetSound, RecordLasts DEF Answered
<1> QED
  BY <1>1, <1>2, <1>4, <1>5, <1>6, AnswerSound, ContinueSound, CrashAnsweringSound,
     IgnoreSound, FinishSound DEF Next, Monitor, Handler

(* No fault is left half answered, as long as the server is up.            *)
LEMMA SettledStep ==
  ASSUME Inv, TypeOK', [Next]_vars
  PROVE  \A f \in Fault : Settled(f)'
<1> SUFFICES ASSUME NEW f \in Fault
             PROVE  Settled(f)'
  OBVIOUS
<1>0. /\ f.source \in Source /\ Source \subseteq Handler /\ chain[f.source] \in Seq(Fault)
      /\ handler \in [Handler -> [phase : Phase, op : {"pause", "complete"},
                                  state : {"RUNNING", "PAUSED"}]]
      /\ Settled(f)
  BY DEF Fault, Handler, Inv, TypeOK
<1>1. ASSUME UNCHANGED <<handled, recovery>>,
             handler[f.source].phase # "idle" => handler'[f.source].phase # "idle",
             \/ chain'[f.source] = chain[f.source]
             \/ \E g \in Fault : chain'[f.source] = Append(chain[f.source], g)
      PROVE  Settled(f)'
  <2>1. chain[f.source] # <<>> =>
          chain'[f.source] # <<>> /\ Head(chain'[f.source]) = Head(chain[f.source])
    BY <1>0, <1>1
  <2> QED
    BY <1>0, <1>1, <2>1 DEF Settled
<1>2. ASSUME NEW g \in Fault, Enqueue(g), UNCHANGED <<handled, recovery, handler>>
      PROVE  Settled(f)'
  <2>1. chain'[f.source] = chain[f.source] \/ chain'[f.source] = Append(chain[f.source], g)
    BY <1>0, <1>2 DEF Enqueue, Inv, TypeOK
  <2> QED
    BY <1>1, <1>2, <2>1
<1>3. ASSUME NEW s \in Serial, NEW state \in {"ONLINE", "OFFLINE"}, ConnectionChanges(s, state)
      PROVE  Settled(f)'
  <2>1. UNCHANGED <<handled, recovery, handler>>
    BY <1>3 DEF ConnectionChanges, tables
  <2>2. CASE UNCHANGED chain
    BY <1>1, <2>1, <2>2
  <2>3. CASE ~ UNCHANGED chain
    <3>1. seq[s] \in 1..MaxSeq /\ seq[s] < MaxSeq
      BY <1>3 DEF ConnectionChanges, Inv, TypeOK
    <3>2. [source |-> "device", serial |-> s, n |-> seq[s] + 1] \in Fault
      BY <3>1, NumberRange, FaultAssumption DEF Fault, Source
    <3>3. Enqueue([source |-> "device", serial |-> s, n |-> seq[s] + 1])
      BY <1>3, <2>3 DEF ConnectionChanges, NextConnection
    <3> QED
      BY <1>2, <2>1, <3>2, <3>3
  <2> QED
    BY <2>2, <2>3
<1>4. ASSUME NEW s \in Serial, WorkerFails(s)
      PROVE  Settled(f)'
  <2>1. \E g \in Fault : Enqueue(g)
    BY <1>4, WorkerReports DEF Inv
  <2>2. UNCHANGED <<handled, recovery, handler>>
    BY <1>4 DEF WorkerFails, tables
  <2> QED
    BY <1>2, <2>1, <2>2
<1>5. ASSUME NEW source \in Source, Ignore(source)
      PROVE  Settled(f)'
  <2>1. /\ handler[source].phase = "idle" /\ chain' = [chain EXCEPT ![source] = Tail(@)]
        /\ UNCHANGED <<handled, recovery, handler>>
    BY <1>5 DEF Ignore, Due, tables
  <2>2. f.source # source => chain'[f.source] = chain[f.source]
    BY <1>0, <2>1 DEF Inv, TypeOK
  <2> QED
    BY <1>0, <1>1, <2>1, <2>2 DEF Settled
<1>6. ASSUME NEW source \in Source, FinishRecovery(source)
      PROVE  Settled(f)'
  <2>0. chain[source] # <<>>
    BY <1>6 DEF FinishRecovery, Inv, Attending
  <2> PICK g \in Fault : g = Head(chain[source])
    BY <2>0, HeadIsFault DEF Inv
  <2>1. /\ recovery' = [recovery EXCEPT ![g] = Outcome(source)]
        /\ chain' = [chain EXCEPT ![source] = Tail(@)]
        /\ handler' = [handler EXCEPT ![source] = Idle]
        /\ UNCHANGED handled
    BY <1>6 DEF FinishRecovery
  <2>2. CASE f = g
    <3>1. recovery'[f] \in {"SUCCEEDED", "FAILED"}
      BY <2>1, <2>2 DEF Outcome, Inv, TypeOK
    <3> QED
      BY <3>1 DEF Settled
  <2>3. CASE f # g
    <3>1. recovery'[f] = recovery[f]
      BY <2>1, <2>3 DEF Inv, TypeOK
    <3>2. CASE f.source = source
      BY <1>0, <2>1, <2>3, <3>1, <3>2 DEF Settled
    <3>3. CASE f.source # source
      <4>1. handler'[f.source] = handler[f.source] /\ chain'[f.source] = chain[f.source]
        BY <1>0, <2>1, <3>3 DEF Inv, TypeOK
      <4> QED
        BY <1>0, <2>1, <3>1, <4>1 DEF Settled
    <3> QED
      BY <3>2, <3>3
  <2> QED
    BY <2>2, <2>3
<1>7. ASSUME NEW source \in Source, Answer(source)
      PROVE  Settled(f)'
  <2>0. chain[source] # <<>> /\ handler[source].phase = "idle"
    BY <1>7 DEF Answer, Due
  <2> PICK g \in Fault : g = Head(chain[source])
    BY <2>0, HeadIsFault DEF Inv
  <2>1. /\ recovery' = [recovery EXCEPT ![g] = "STARTED"] /\ handled' = handled \cup {g}
        /\ UNCHANGED chain
    BY <1>7 DEF Answer
  <2>2. \/ \E op, state : \E phase \in {"stop", "video"} :
              handler' = [handler EXCEPT ![source] = [phase |-> phase, op |-> op, state |-> state]]
        \/ \E phase \in {"refused", "done"} : handler' = [handler EXCEPT ![source].phase = phase]
    <3>1. CASE StopWorkers(source, "pause")
      <4> PICK phase \in {"stop", "video"} : phase = IF registered THEN "stop" ELSE "video"
        OBVIOUS
      <4>1. handler' = [handler EXCEPT ![source] = [phase |-> phase, op |-> "pause", state |-> runState]]
        BY <3>1 DEF StopWorkers
      <4> QED
        BY <4>1
    <3>2. CASE TakeOut(source, g.serial)
      BY <3>2 DEF TakeOut
    <3> QED
      BY <1>7, <3>1, <3>2 DEF Answer
  <2>3. CASE f = g
    <3>1. f.source = source
      <4>1. 1 \in 1..Len(chain[source]) /\ f = chain[source][1]
        BY <2>0, <2>3, HeadIsFault DEF Inv
      <4> QED
        BY <4>1 DEF Inv, Attending
    <3>2. handler'[source].phase # "idle"
      BY <1>0, <2>2, <3>1
    <3> QED
      BY <2>0, <2>1, <2>3, <3>1, <3>2 DEF Settled
  <2>4. CASE f # g
    <3>1. recovery'[f] = recovery[f] /\ (f \in handled' => f \in handled)
      BY <2>1, <2>4 DEF Inv, TypeOK
    <3>2. CASE f.source = source
      BY <1>0, <2>0, <3>1, <3>2 DEF Settled
    <3>3. CASE f.source # source
      <4>1. handler'[f.source] = handler[f.source]
        BY <1>0, <2>2, <3>3
      <4> QED
        BY <1>0, <2>1, <3>1, <4>1 DEF Settled
    <3> QED
      BY <3>2, <3>3
  <2> QED
    BY <2>3, <2>4
<1>8. ASSUME NEW h \in Handler, Continue(h)
      PROVE  Settled(f)'
  <2>1. UNCHANGED <<chain, handled, recovery>>
    BY <1>8 DEF Continue, StopEnds, StopFails, CommitPause, CommitComplete, tables
  <2>2. CASE h # f.source
    <3>1. PICK r : handler' = [handler EXCEPT ![h] = r]
      BY <1>8 DEF Continue, StopEnds, StopFails, CommitPause, CommitComplete, Refuse, Leave
    <3>2. handler'[f.source] = handler[f.source]
      BY <1>0, <2>2, <3>1
    <3> QED
      BY <1>1, <2>1, <3>2
  <2>3. CASE h = f.source
    <3>1. \/ handler' = [handler EXCEPT ![h].phase = "video"]
          \/ Leave(h, "refused")
          \/ Leave(h, "done")
      BY <1>8 DEF Continue, StopEnds, StopFails, CommitPause, CommitComplete, Refuse
    <3>2. \A phase : Leave(h, phase) => handler'[h].phase = phase
      BY <1>0, <2>3 DEF Leave, Idle
    <3>3. handler'[h].phase # "idle"
      BY <1>0, <2>3, <3>1, <3>2
    <3> QED
      BY <1>1, <2>1, <2>3, <3>3
  <2> QED
    BY <2>2, <2>3
<1>9. CASE Operator
  <2>1. UNCHANGED <<chain, handled, recovery>>
    BY <1>9 DEF Operator, RunPreflight, BeginStopping, BeginStart, BeginResume, BeginRejoin,
                BeginPromote, BeginEpoch, Begin, tables, memory
  <2>2. UNCHANGED handler \/ \E r : handler' = [handler EXCEPT !["operator"] = r]
    BY <1>9 DEF Operator, RunPreflight, BeginStopping, StopWorkers, BeginStart, BeginResume,
                BeginRejoin, BeginPromote, BeginEpoch, Begin, memory
  <2>3. handler'[f.source] = handler[f.source]
    BY <1>0, <2>2 DEF Source, Handler
  <2> QED
    BY <1>1, <2>1, <2>3
<1>10. CASE CommitOpening \/ OpeningFails \/ Restart \/ UNCHANGED vars
  BY <1>1, <1>10 DEF CommitOpening, OpeningFails, Restart, vars, tables, memory
<1>11. CASE Crash \/ \E source \in Source : CrashAnswering(source) \/ RecordThrows(source)
  BY <1>11 DEF Crash, CrashAnswering, RecordThrows, GoDown, Forget, Settled
<1> QED
  BY <1>3, <1>4, <1>5, <1>6, <1>7, <1>8, <1>9, <1>10, <1>11 DEF Next, Monitor, Handler

LEMMA InvStep ==
  ASSUME Inv, [Next]_vars
  PROVE  Inv'
<1>1. RunHistory
  BY RunMoves, RunKeepsHistory DEF Inv, TypeOK
<1>2. TypeOK' /\ Targeted'
  BY TypeStep, TargetedStep
<1> QED
  BY <1>1, <1>2, FreshStep, SettledStep, AnsweredStep DEF Inv, Answered

LEMMA InvInit == Init => Inv
<1> SUFFICES ASSUME Init
             PROVE  Inv
  OBVIOUS
<1> USE DEF Init, RunInit
<1>1. TypeOK
  <2>1. 1 \in 1..MaxSeq /\ 1 \in 1..MaxEpoch /\ 0 \in 0..MaxEpoch /\ <<>> \in Seq(Fault)
    BY FaultAssumption, RunControlAssumption
  <2>2. RunTypeOK
    BY <2>1 DEF RunTypeOK, RunState, Membership
  <2>3. Idle \in [phase : Phase, op : {"pause", "complete"}, state : {"RUNNING", "PAUSED"}]
    BY DEF Idle, Phase
  <2>4. Closed \in [op : Op, epoch : 1..MaxEpoch, target : Serial \cup {"none"}]
    BY <2>1 DEF Closed, Op
  <2> QED
    BY <2>1, <2>2, <2>3, <2>4 DEF TypeOK
<1>2. Targeted
  BY DEF Targeted, Idle, Closed
<1>3. Fresh
  <2>1. \A f \in Fault : f.source \in Source /\ ~ Queued(f)
    BY DEF Fault, Queued, ToSet
  <2> QED
    BY <2>1 DEF Fresh, Known
<1>4. \A source \in Source : Attending(source)
  BY DEF Attending, Idle, Handler
<1>5. \A f \in Fault : Recorded(f) /\ Settled(f)
  BY DEF Recorded, Settled
<1> QED
  BY <1>1, <1>2, <1>3, <1>4, <1>5 DEF Inv

LEMMA InvAlways == Spec => []Inv
<1>1. Inv /\ [Next]_vars => Inv'
  BY InvStep
<1> QED
  BY <1>1, InvInit, PTL DEF Spec
-----------------------------------------------------------------------------
(* The types: chains hold faults that have a number, whatever crashes and  *)
(* refusals come between (device-fault-monitor.ts,                         *)
(* runtime-fault-monitor.ts).                                              *)
THEOREM FaultTypes == Spec => []TypeOK
BY InvAlways, PTL DEF Inv

(* No two faults of the registry get one incident id, however often the    *)
(* server is launched anew: record never rejects one of its incidents      *)
(* (incident-repository.ts, device-fault-monitor.ts).                      *)
THEOREM EveryDisconnectionIsNew == Spec => []DeviceFaultsAreNew
<1>1. Inv => DeviceFaultsAreNew
  <2> DEFINE source == "device"
  <2> SUFFICES ASSUME Inv, Due(source), Concerns(Head(chain[source]))
               PROVE  incident[Head(chain[source])] = 0
    BY DEF DeviceFaultsAreNew
  <2>1. source \in Source /\ chain[source] # <<>>
    BY DEF Due, Source
  <2> HIDE DEF source
  <2> PICK f \in Fault : f = Head(chain[source])
    BY <2>1, HeadIsFault DEF Inv
  <2>2. f.source = source /\ Queued(f) /\ f \notin handled
    <3>1. 1 \in 1..Len(chain[source]) /\ f = chain[source][1] /\ chain[source] \in Seq(Fault)
      BY <2>1, HeadIsFault DEF Inv, TypeOK
    <3>2. f.source = source
      BY <2>1, <3>1 DEF Inv, Attending
    <3> QED
      BY <3>1, <3>2 DEF Queued, ToSet, Concerns
  <2>3. f.source = "device"
    BY <2>2 DEF source
  <2> QED
    BY <2>2, <2>3 DEF Inv, Fresh, Known
<1> QED
  BY <1>1, InvAlways, PTL

(* What the incident timeline says was done holds for the rest of the      *)
(* epoch of the incident (incident-monitor.ts, handle).                    *)
THEOREM WhatWasDoneLasts == Spec => []RecoveryHolds
<1>1. Inv => RecoveryHolds
  <2> SUFFICES ASSUME Inv, NEW f \in Fault, recovery[f] = "SUCCEEDED", epoch = incident[f]
               PROVE  CASE action[f] = "PAUSE_ALL" -> runState # "RUNNING"
                        [] action[f] = "QUARANTINE_DEVICE" -> roster[f.serial] = "QUARANTINED"
    BY DEF RecoveryHolds
  <2>1. Kept(f)
    BY DEF Inv, Recorded
  <2> QED
    BY <2>1 DEF Kept
<1> QED
  BY <1>1, InvAlways, PTL

(* A fault of an active member of a running run leaves its chain with an   *)
(* answer on record (device-fault-monitor.ts, handleEvent).                *)
THEOREM EveryFaultIsAnswered == Spec => NoFaultIsDropped
<1>1. ASSUME Inv, [Next]_vars, NEW source \in Source, NEW f,
             f = Head(chain[source]), chain[source] # <<>>, up',
             Len(chain'[source]) < Len(chain[source]),
             runState = "RUNNING", f.serial \in Active
      PROVE  recovery'[f] \in {"SUCCEEDED", "FAILED"}
  <2>1. chain[source] \in Seq(Fault) /\ f \in Fault
    BY <1>1, HeadIsFault DEF Inv, TypeOK
  <2>2. chain'[source] # chain[source]
    BY <1>1, <2>1
  <2>3. CASE Ignore(source)
    <3>1. ~ Concerns(f) /\ handler[source].phase = "idle" /\ UNCHANGED recovery
      BY <1>1, <2>3 DEF Ignore, Due, tables
    <3>2. f \in handled
      BY <1>1, <2>1, <3>1 DEF Concerns, Seen, Active
    <3>3. f.source = source
      <4>1. 1 \in 1..Len(chain[source]) /\ f = chain[source][1]
        BY <1>1, HeadIsFault DEF Inv
      <4> QED
        BY <1>1, <4>1 DEF Inv, Attending
    <3> QED
      BY <1>1, <2>1, <3>1, <3>2, <3>3 DEF Inv, Settled
  <2>4. CASE FinishRecovery(source)
    BY <1>1, <2>1, <2>4 DEF FinishRecovery, Outcome, Inv, TypeOK
  <2>5. ASSUME NEW other \in Source, other # source, Ignore(other) \/ FinishRecovery(other)
        PROVE  FALSE
    BY <1>1, <2>2, <2>5 DEF Ignore, FinishRecovery, Inv, TypeOK
  <2>6. ASSUME NEW g \in Fault, Enqueue(g)
        PROVE  FALSE
    <3>1. chain'[source] = chain[source] \/ chain'[source] = Append(chain[source], g)
      BY <2>6 DEF Enqueue, Inv, TypeOK
    <3> QED
      BY <1>1, <2>1, <3>1
  <2>7. ASSUME NEW s \in Serial, NEW state, ConnectionChanges(s, state)
        PROVE  FALSE
    <3>1. seq[s] \in 1..MaxSeq /\ seq[s] < MaxSeq
      BY <1>1, <2>7 DEF ConnectionChanges, Inv, TypeOK
    <3>2. [source |-> "device", serial |-> s, n |-> seq[s] + 1] \in Fault
      BY <3>1, NumberRange, FaultAssumption DEF Fault, Source
    <3> QED
      BY <2>2, <2>6, <2>7, <3>2 DEF ConnectionChanges, NextConnection
  <2>8. ASSUME NEW s \in Serial, WorkerFails(s)
        PROVE  FALSE
    <3>1. \E g \in Fault : Enqueue(g)
      BY <1>1, <2>8, WorkerReports DEF Inv
    <3> QED
      BY <2>6, <3>1
  <2>9. ASSUME NEW other \in Source, Answer(other)
        PROVE  FALSE
    BY <2>2, <2>9 DEF Answer
  <2>10. ASSUME NEW h \in Handler, Continue(h)
         PROVE  FALSE
    BY <2>2, <2>10 DEF Continue, StopEnds, StopFails, CommitPause, CommitComplete
  <2>11. ~ Operator
    BY <2>2 DEF Operator, RunPreflight, BeginStopping, BeginStart, BeginResume, BeginRejoin,
                BeginPromote, BeginEpoch, Begin, memory
  <2>12. ~ (CommitOpening \/ OpeningFails \/ Restart \/ UNCHANGED vars)
    BY <2>2 DEF CommitOpening, OpeningFails, Restart, vars, memory
  <2>13. ~ (Crash \/ \E other \in Source : CrashAnswering(other) \/ RecordThrows(other))
    BY <1>1 DEF Crash, CrashAnswering, RecordThrows, GoDown, Forget
  <2> QED
    BY <1>1, <2>3, <2>4, <2>5, <2>7, <2>8, <2>9, <2>10, <2>11, <2>12, <2>13 DEF Next, Monitor, Handler
<1>2. Inv /\ [Next]_vars =>
        [\A source \in Source :
           LET f == Head(chain[source])
           IN  /\ chain[source] # <<>> /\ chain'[source] # chain[source] /\ up'
               /\ Len(chain'[source]) < Len(chain[source])
               /\ runState = "RUNNING" /\ f.serial \in Active
               => recovery'[f] \in {"SUCCEEDED", "FAILED"}]_vars
  BY <1>1
<1> QED
  BY <1>2, InvAlways, PTL DEF Spec, NoFaultIsDropped

(* What an incident says was done holds for the rest of its epoch, and     *)
(* each of the registry's is about one disconnection                       *)
(* (incident-monitor.ts, incident-repository.ts).                          *)
THEOREM TrueIncidents == Spec => []IncidentsAreTrue
BY FaultTypes, WhatWasDoneLasts, EveryDisconnectionIsNew, PTL DEF IncidentsAreTrue
-----------------------------------------------------------------------------
(* Whatever faults, recoveries, crashes and handlers overlap, the run goes *)
(* by the steps RunControl promises: nothing a monitor does opens an epoch *)
(* or ends the run but as the operator could (incident-monitor.ts,         *)
(* session-runtime.ts).                                                    *)
THEOREM FaultsKeepTheRunsWay == Spec => RunSpec
<1>1. Init => RunInit
  BY DEF Init
<1>2. Inv /\ [Next]_vars => [RunNext]_runVars
  BY RunMoves
<1> QED
  BY <1>1, <1>2, InvAlways, PTL DEF Spec, RunSpec
=============================================================================
