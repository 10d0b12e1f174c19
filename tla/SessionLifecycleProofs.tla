----------------------- MODULE SessionLifecycleProofs -----------------------
(***************************************************************************)
(* What SessionLifecycle guarantees for any devices, epochs and number of  *)
(* handlers under way at once, with stops that fail and crashes: the       *)
(* membership rows are a history, and the run moves only as RunControl     *)
(* allows.                                                                 *)
(***************************************************************************)
EXTENDS SessionLifecycle, TLAPS

Job == [op : Op, pc : Pc, state : {"CREATED", "RUNNING", "PAUSED"},
        epoch : Epoch, members : SUBSET Serial, target : Serial \cup {"none"},
        group : 0..MaxGroups, waiting : SUBSET Serial, refused : BOOLEAN]

DeviceRow == [role : {"none", "LEADER", "FOLLOWER"},
              membership : {"OUT", "ACTIVE", "QUARANTINED"},
              generation : 0..MaxEpoch]

\* The handlers that open a membership epoch, and those that start workers.
Rebuilds == {"resume", "rejoin", "promote"}
Starters == Rebuilds \cup {"start"}

RowsAreShaped ==
  \A e \in Epoch, s \in Serial :
    \/ rows[e][s] = NoRow
    \/ /\ e <= epoch
       /\ rows[e][s].role # "none" /\ rows[e][s].membership # "OUT"
       /\ rows[e][s].generation = e

\* Before the run is started nobody has been quarantined.
FirstEpochIsWhole ==
  runState \in {"CREATED", "PREFLIGHT"} =>
    epoch = 1 /\ \A s \in Serial : Row(s).membership = "ACTIVE"

\* What the handler read of the epoch it wants to replace is still true.
Carries(job) ==
  /\ job.op # "rejoin" => job.members = Active
  /\ job.op = "rejoin" =>
       /\ job.members = Active \cup {job.target}
       /\ job.target \in Serial
       /\ Row(job.target).role = "FOLLOWER" /\ Row(job.target).membership = "QUARANTINED"
  /\ job.op = "promote" =>
       /\ job.target \in Serial
       /\ Row(job.target).role = "FOLLOWER" /\ Row(job.target).membership = "ACTIVE"

(* What a handler remembers is true of the epoch it read, as long as that  *)
(* epoch is current: its rows can only change while the run is running,    *)
(* and a paused run goes on with a new epoch or not at all.                *)
Remembers(job) ==
  /\ job.pc \in {"starting", "unwinding", "video", "undo", "undone"} => job.op \in Starters
  /\ job.pc = "starting" => job.group # 0
  /\ job.op \in Rebuilds => job.epoch < MaxEpoch /\ job.epoch <= epoch
  /\ job.op \in Rebuilds /\ job.epoch = epoch =>
       runState \in {"PAUSED", "FINISHED"} /\ Carries(job)
  /\ job.op = "start" => job.members = Serial
  /\ job.op = "complete" => job.state \in {"RUNNING", "PAUSED"}

IInv ==
  /\ TypeOK
  /\ RowsAreShaped
  /\ EpochsAreWellFormed
  /\ FirstEpochIsWhole
  /\ \A h \in Slot : Remembers(jobs[h])
-----------------------------------------------------------------------------
(* One handler at a time, workers that stop when told to, no crash.        *)
Clean(k) == \A s \in Serial : worker[k][s] \in {"none", "STOPPED", "ERROR"} /\ holds[k][s] = 0

OthersClean(k) == \A g \in Group \ {k} : Clean(g)

\* The worker resources in use are those of one group.
HeldBy(k) == OthersClean(k) /\ \A s \in Serial : lease[s] = holds[k][s]

AtRest == entry = 0 /\ \A k \in Group : Clean(k) /\ \A s \in Serial : lease[s] = 0

Serving ==
  /\ entry # 0 /\ HeldBy(entry)
  /\ \A s \in Serial :
       worker[entry][s] = IF Row(s) = NoRow THEN "none" ELSE "READY"
  /\ \A s \in Serial : Row(s) = NoRow => holds[entry][s] = 0

\* The group of a handler that starts it: one worker at a time is starting.
ComingUp(job) ==
  /\ entry # 0 /\ job.group = entry /\ HeldBy(entry)
  /\ \A s \in Serial :
       /\ worker[entry][s] \in {"none", "READY"} \cup Starting
       /\ s \notin job.members => worker[entry][s] = "none"
       /\ holds[entry][s] # 0 => worker[entry][s] \in {"BOOTING", "READY"}
  /\ \A s, t \in Serial :
       worker[entry][s] \in Starting /\ worker[entry][t] \in Starting => s = t

IsUp(job) == ComingUp(job) /\ \A s \in job.members : worker[entry][s] = "READY"

\* The group of a handler that waits for its workers to stop.
GoingDown(job) ==
  /\ job.group # 0 /\ HeldBy(job.group)
  /\ job.waiting = {s \in Serial : worker[job.group][s] = "STOPPING"}
  /\ \A s \in Serial :
       /\ worker[job.group][s] \in {"none", "STOPPING", "STOPPED"}
       /\ holds[job.group][s] # 0 => worker[job.group][s] = "STOPPING"

Stopping(job) ==
  /\ entry = 0 /\ ~ job.refused
  /\ IF job.group = 0 THEN AtRest /\ job.waiting = {} ELSE GoingDown(job)

AloneAt(job) ==
  /\ job.pc \in {"idle", "probe"} => IF runState = "RUNNING" THEN Serving ELSE AtRest
  /\ job.pc \in {"starting", "unwinding", "video", "undo", "undone"} => runState # "RUNNING"
  /\ job.pc = "starting" => ComingUp(job)
  /\ job.pc \in {"video", "undo"} => IsUp(job)
  /\ job.pc = "unwinding" => entry = job.group /\ ~ job.refused /\ GoingDown(job)
  /\ job.pc = "undone" => Stopping(job)
  /\ job.pc = "stopping" =>
       /\ Stopping(job)
       /\ \/ job.op = "pause" /\ runState = "RUNNING"
          \/ job.op = "complete" /\ runState = job.state

AloneInv == \A h \in Slot : AloneAt(jobs[h])
-----------------------------------------------------------------------------
LEMMA IdleIsAJob == Idle \in Job
BY SessionLifecycleAssumption DEF Idle, Job, Op, Pc, Epoch

\* What a handler's steps may write into its job.
LEMMA JobFields ==
  ASSUME NEW job \in Job, NEW pc \in Pc, NEW k \in 0..MaxGroups,
         NEW waiting \in SUBSET Serial, NEW refused \in BOOLEAN
  PROVE  /\ [job EXCEPT !.pc = pc] \in Job
         /\ [job EXCEPT !.pc = pc, !.group = k] \in Job
         /\ [job EXCEPT !.pc = pc, !.group = k, !.waiting = waiting,
                        !.refused = refused] \in Job
BY DEF Job

LEMMA JobWaits ==
  ASSUME NEW job \in Job, NEW waiting \in SUBSET Serial, NEW refused \in BOOLEAN
  PROVE  [job EXCEPT !.waiting = waiting, !.refused = refused] \in Job
BY DEF Job

(* The handler that goes on leaves every job a job.                        *)
LEMMA BecomesAJob ==
  ASSUME TypeOK, NEW h \in Slot, NEW job \in Job, Become(h, job)
  PROVE  jobs' \in [Slot -> Job]
BY DEF TypeOK, Become, Job

LEMMA RegisterTypes ==
  ASSUME TypeOK, NEW h \in Slot, NEW job \in Job, Register(h, job)
  PROVE  TypeOK'
<1>1. PICK k \in Group :
        /\ entry' = k
        /\ worker' = [worker EXCEPT ![k] = [s \in Serial |-> "none"]]
        /\ holds' = [holds EXCEPT ![k] = [s \in Serial |-> 0]]
        /\ Become(h, [job EXCEPT !.pc = "starting", !.group = k])
  BY DEF Register
<1>2. [job EXCEPT !.pc = "starting", !.group = k] \in Job
  <2>1. "starting" \in Pc /\ k \in 0..MaxGroups
    BY SessionLifecycleAssumption DEF Pc, Group
  <2> QED
    BY <2>1, JobFields
<1>3. jobs' \in [Slot -> Job]
  BY <1>1, <1>2, BecomesAJob
<1>4. worker' \in [Group -> [Serial -> WorkerState]]
  BY <1>1 DEF TypeOK, WorkerState
<1>5. holds' \in [Group -> [Serial -> 0..MaxEpoch]]
  BY <1>1, SessionLifecycleAssumption DEF TypeOK
<1> QED
  BY <1>1, <1>3, <1>4, <1>5 DEF TypeOK, Job, Register, durable, Group

LEMMA StopWorkersTypes ==
  ASSUME TypeOK, NEW h \in Slot, NEW job \in Job, NEW k \in Group,
         NEW states \in [Serial -> WorkerState], NEW pc \in Pc,
         StopWorkers(h, job, k, states, pc)
  PROVE  /\ worker' \in [Group -> [Serial -> WorkerState]]
         /\ jobs' \in [Slot -> Job]
<1>1. worker' \in [Group -> [Serial -> WorkerState]]
  BY DEF StopWorkers, TypeOK, WorkerState
<1> DEFINE refused == \E s \in Serial : states[s] \in Starting \cup {"STOPPING"}
<1>2. [job EXCEPT !.pc = pc, !.group = k, !.waiting = Stoppable(states),
                  !.refused = refused] \in Job
  <2>1. Stoppable(states) \in SUBSET Serial /\ refused \in BOOLEAN
    BY DEF Stoppable
  <2>2. k \in 0..MaxGroups
    BY SessionLifecycleAssumption DEF Group
  <2> HIDE DEF refused
  <2> QED
    BY <2>1, <2>2, JobFields
<1>3. jobs' \in [Slot -> Job]
  BY <1>2, BecomesAJob DEF StopWorkers
<1> QED
  BY <1>1, <1>3

LEMMA StopEntryTypes ==
  ASSUME TypeOK, NEW h \in Slot, NEW job \in Job, NEW pc \in Pc,
         StopEntry(h, job, pc)
  PROVE  /\ entry' \in 0..MaxGroups
         /\ worker' \in [Group -> [Serial -> WorkerState]]
         /\ jobs' \in [Slot -> Job]
<1>1. CASE entry = 0
  <2>1. [job EXCEPT !.pc = pc, !.group = 0] \in Job
    <3>1. 0 \in 0..MaxGroups
      BY SessionLifecycleAssumption
    <3> QED
      BY <3>1, JobFields
  <2> QED
    BY <1>1, <2>1, BecomesAJob DEF StopEntry, TypeOK
<1>2. CASE entry # 0
  <2>1. entry \in Group /\ worker[entry] \in [Serial -> WorkerState]
    BY <1>2, SessionLifecycleAssumption DEF TypeOK, Group
  <2> QED
    BY <1>2, <2>1, StopWorkersTypes, SessionLifecycleAssumption DEF StopEntry
<1> QED
  BY <1>1, <1>2

LEMMA ReleaseTypes ==
  ASSUME TypeOK, NEW k \in Group, NEW s \in Serial, Release(k, s)
  PROVE  /\ lease' \in [Serial -> 0..MaxEpoch]
         /\ holds' \in [Group -> [Serial -> 0..MaxEpoch]]
<1>1. holds' \in [Group -> [Serial -> 0..MaxEpoch]]
  BY SessionLifecycleAssumption DEF TypeOK, Release
<1>2. lease' \in [Serial -> 0..MaxEpoch]
  <2>1. CASE UNCHANGED lease
    BY <2>1 DEF TypeOK
  <2>2. CASE lease' = [lease EXCEPT ![s] = IF holds[k][s] # 0 /\ @ = holds[k][s] THEN 0 ELSE @]
    BY <2>2, SessionLifecycleAssumption DEF TypeOK
  <2> QED
    BY <2>1, <2>2 DEF Release
<1> QED
  BY <1>1, <1>2
-----------------------------------------------------------------------------
LEMMA Initially == Init => IInv
<1> SUFFICES ASSUME Init PROVE IInv
  OBVIOUS
<1> USE SessionLifecycleAssumption
<1>1. PICK first \in Serial :
        rows = [e \in Epoch |-> [s \in Serial |->
                  IF e > 1 THEN NoRow
                  ELSE [role |-> IF s = first THEN "LEADER" ELSE "FOLLOWER",
                        membership |-> "ACTIVE", generation |-> 1]]]
  BY DEF Init
<1>2. 1 \in Epoch /\ epoch = 1 /\ runState = "CREATED"
  BY DEF Init, Epoch
<1>3. rows \in [Epoch -> [Serial -> DeviceRow]]
  BY <1>1 DEF NoRow, DeviceRow
<1>4. jobs \in [Slot -> Job]
  BY IdleIsAJob DEF Init
<1>5. TypeOK
  BY <1>2, <1>3, <1>4 DEF Init, TypeOK, Job, DeviceRow, WorkerState, Group
<1>6. RowsAreShaped
  BY <1>1, <1>2 DEF RowsAreShaped, NoRow, Epoch
<1>7. EpochsAreWellFormed
  BY <1>1, <1>2 DEF EpochsAreWellFormed, NoRow, Epoch
<1>8. FirstEpochIsWhole
  BY <1>1, <1>2 DEF FirstEpochIsWhole, Row
<1>9. \A h \in Slot : Remembers(jobs[h])
  BY DEF Init, Remembers, Idle, Starters, Rebuilds
<1> QED
  BY <1>5, <1>6, <1>7, <1>8, <1>9 DEF IInv

(* Most steps leave the run as it is, and what is said of it with it.      *)
RunPart == RowsAreShaped /\ EpochsAreWellFormed /\ FirstEpochIsWhole

LEMMA RunUntouched ==
  ASSUME IInv, UNCHANGED <<runState, epoch, rows>>
  PROVE  RunPart'
BY DEF IInv, RunPart, RowsAreShaped, EpochsAreWellFormed, FirstEpochIsWhole, Row

LEMMA OthersRemember ==
  ASSUME IInv, UNCHANGED <<runState, epoch, rows>>,
         NEW g \in Slot, jobs'[g] = jobs[g]
  PROVE  Remembers(jobs[g])'
BY DEF IInv, Remembers, Carries, Active, Row

\* A handler goes on with what it read, or has just read.
LEMMA SameReading ==
  ASSUME UNCHANGED <<runState, epoch, rows>>, NEW h \in Slot, NEW job, Remembers(job),
         jobs'[h].op = job.op, jobs'[h].state = job.state, jobs'[h].epoch = job.epoch,
         jobs'[h].members = job.members, jobs'[h].target = job.target,
         jobs'[h].pc \in {"starting", "unwinding", "video", "undo", "undone"} =>
           job.op \in Starters,
         jobs'[h].pc = "starting" => jobs'[h].group # 0
  PROVE  Remembers(jobs[h])'
BY DEF Remembers, Carries, Active, Row

\* A handler returns.
LEMMA ReturnRemembers ==
  ASSUME TypeOK, NEW h \in Slot, Return(h)
  PROVE  Remembers(jobs[h])'
BY DEF TypeOK, Return, Become, Remembers, Idle, Starters, Rebuilds

LEMMA OthersAsBefore ==
  ASSUME TypeOK, NEW h \in Slot, NEW job, Become(h, job)
  PROVE  /\ jobs'[h] = job
         /\ \A g \in Slot \ {h} : jobs'[g] = jobs[g]
BY DEF TypeOK, Become

\* Steps of one handler that leave the run alone: what is left to show is
\* that the state has its type and the handler's own job is remembered.
LEMMA HandlerKeeps ==
  ASSUME IInv, NEW h \in Slot, NEW job, Become(h, job),
         UNCHANGED <<runState, epoch, rows>>, TypeOK', Remembers(jobs[h])'
  PROVE  IInv'
<1>1. RunPart'
  BY RunUntouched
<1>2. ASSUME NEW g \in Slot PROVE Remembers(jobs[g])'
  <2>1. CASE g = h
    BY <2>1
  <2>2. CASE g # h
    BY <2>2, OthersAsBefore, OthersRemember DEF IInv
  <2> QED
    BY <2>1, <2>2
<1> QED
  BY <1>1, <1>2 DEF IInv, RunPart

LEMMA ReturnKeeps ==
  ASSUME IInv, NEW h \in Slot, Return(h), UNCHANGED <<durable, entry, worker, holds>>
  PROVE  IInv'
<1>1. jobs' \in [Slot -> Job]
  BY IdleIsAJob, BecomesAJob DEF IInv, Return
<1>2. TypeOK'
  BY <1>1 DEF IInv, TypeOK, Job, durable
<1> QED
  BY <1>2, HandlerKeeps, ReturnRemembers DEF IInv, Return, durable

\* A handler that registers a group goes on with what it has just read.
LEMMA RegisterKeeps ==
  ASSUME IInv, NEW h \in Slot, NEW job \in Job, Register(h, job), job.op \in Starters,
         Remembers(job)
  PROVE  IInv'
<1>1. TypeOK'
  BY RegisterTypes DEF IInv
<1>2. PICK k \in Group : Become(h, [job EXCEPT !.pc = "starting", !.group = k])
  BY DEF Register
<1>3. UNCHANGED <<runState, epoch, rows>>
  BY DEF Register, durable
<1>4. Remembers(jobs[h])'
  <2>1. jobs'[h] = [job EXCEPT !.pc = "starting", !.group = k]
    BY <1>2, OthersAsBefore DEF IInv
  <2>2. /\ jobs'[h].op = job.op /\ jobs'[h].state = job.state
        /\ jobs'[h].epoch = job.epoch /\ jobs'[h].members = job.members
        /\ jobs'[h].target = job.target /\ jobs'[h].group # 0
    BY <2>1, SessionLifecycleAssumption DEF Job, Group
  <2> QED
    BY <2>2, <1>3, SameReading
<1> QED
  BY <1>1, <1>2, <1>3, <1>4, HandlerKeeps

LEMMA StopEntryKeeps ==
  ASSUME IInv, NEW h \in Slot, NEW job \in Job, NEW pc \in Pc \ {"starting"}, StopEntry(h, job, pc),
         UNCHANGED <<durable, holds>>, Remembers([job EXCEPT !.pc = pc])
  PROVE  IInv'
<1>1. TypeOK'
  BY StopEntryTypes DEF IInv, TypeOK, Job, durable
<1>2. PICK new \in Job :
        /\ Become(h, new) 
        /\ new.pc = pc /\ new.op = job.op /\ new.state = job.state
        /\ new.epoch = job.epoch /\ new.members = job.members /\ new.target = job.target
  <2>1. PICK new : 
          /\ Become(h, new) 
          /\ new.pc = pc /\ new.op = job.op /\ new.state = job.state
          /\ new.epoch = job.epoch /\ new.members = job.members /\ new.target = job.target
    <3>1. CASE entry = 0
      <4> DEFINE next == [job EXCEPT !.pc = pc, !.group = 0]
      <4>1. Become(h, next)
        BY <3>1 DEF StopEntry
      <4>2. /\ next.pc = pc /\ next.op = job.op /\ next.state = job.state
            /\ next.epoch = job.epoch /\ next.members = job.members /\ next.target = job.target
        BY DEF Job
      <4> HIDE DEF next
      <4> QED
        BY <4>1, <4>2
    <3>2. CASE entry # 0
      <4>1. PICK waiting, refused : Become(h, [job EXCEPT !.pc = pc, !.group = entry,
                                                 !.waiting = waiting, !.refused = refused])
        BY <3>2 DEF StopEntry, StopWorkers
      <4> DEFINE next == [job EXCEPT !.pc = pc, !.group = entry,
                                     !.waiting = waiting, !.refused = refused]
      <4>2. /\ next.pc = pc /\ next.op = job.op /\ next.state = job.state
            /\ next.epoch = job.epoch /\ next.members = job.members /\ next.target = job.target
        BY DEF Job
      <4>3. Become(h, next)
        BY <4>1
      <4> HIDE DEF next
      <4> QED
        BY <4>2, <4>3
    <3> QED
      BY <3>1, <3>2
  <2>2. jobs'[h] = new
    BY <2>1, OthersAsBefore DEF IInv
  <2>3. jobs'[h] \in Job
    BY StopEntryTypes DEF IInv
  <2> QED
    BY <2>1, <2>2, <2>3
<1>3. Remembers(jobs[h])'
  <2>1. jobs'[h] = new
    BY <1>2, OthersAsBefore DEF IInv
  <2>2. Remembers(new)
    BY <1>2 DEF Remembers, Carries, Job
  <2> QED
    BY <1>2, <2>1, <2>2, SameReading DEF durable, Remembers
<1> QED
  BY <1>1, <1>2, <1>3, HandlerKeeps DEF durable
-----------------------------------------------------------------------------
LEMMA BeginKeeps ==
  ASSUME IInv, NEW h \in Slot, Begin(h)
  PROVE  IInv'
<1> USE SessionLifecycleAssumption
<1> USE DEF IInv
<1>1. Idle \in Job /\ epoch \in Epoch /\ 1 \in Epoch /\ Active \in SUBSET Serial
  BY IdleIsAJob DEF TypeOK, Active, Epoch
<1>2. CASE BeginPreflight(h)
  <2> DEFINE job == [Idle EXCEPT !.op = "preflight", !.pc = "probe"]
  <2>1. job \in Job
    BY <1>1 DEF Job, Op, Pc
  <2>2. Become(h, job) /\ UNCHANGED <<durable, entry, worker, holds>>
    BY <1>2 DEF BeginPreflight
  <2>3. TypeOK'
    BY <2>1, <2>2, BecomesAJob DEF TypeOK, Job, durable
  <2>4. Remembers(jobs[h])'
    <3> HIDE DEF job
    <3>1. jobs'[h] = job
      BY <2>2, OthersAsBefore
    <3>2. job.op = "preflight" /\ job.pc = "probe"
      BY DEF job, Idle
    <3> QED
      BY <3>1, <3>2 DEF Remembers, Starters, Rebuilds
  <2> QED
    BY <2>2, <2>3, <2>4, HandlerKeeps DEF durable
<1>3. CASE BeginStart(h)
  <2> DEFINE job == [Idle EXCEPT !.op = "start", !.epoch = epoch, !.members = Active]
  <2>1. job \in Job
    BY <1>1 DEF Job, Op, Pc
  <2>2. Active = Serial
    BY <1>3 DEF BeginStart, FirstEpochIsWhole, Active
  <2>3. Remembers(job) /\ job.op \in Starters
    BY <2>2 DEF Remembers, Idle, Starters, Rebuilds
  <2> QED
    BY <1>3, <2>1, <2>3, RegisterKeeps DEF BeginStart
<1>4. CASE BeginPause(h)
  <2> DEFINE job == [Idle EXCEPT !.op = "pause"]
  <2>1. job \in Job /\ "stopping" \in Pc \ {"starting"}
    BY <1>1 DEF Job, Op, Pc
  <2>2. Remembers([job EXCEPT !.pc = "stopping"])
    BY DEF Remembers, Idle, Starters, Rebuilds
  <2> QED
    BY <1>4, <2>1, <2>2, StopEntryKeeps DEF BeginPause
<1>5. CASE BeginComplete(h)
  <2> DEFINE job == [Idle EXCEPT !.op = "complete", !.state = runState]
  <2>1. job \in Job /\ "stopping" \in Pc \ {"starting"}
    BY <1>1, <1>5 DEF Job, Op, Pc, BeginComplete
  <2>2. Remembers([job EXCEPT !.pc = "stopping"])
    BY <1>5 DEF Remembers, Idle, Starters, Rebuilds, BeginComplete
  <2> QED
    BY <1>5, <2>1, <2>2, StopEntryKeeps DEF BeginComplete
<1>6. CASE BeginResume(h)
  <2> DEFINE job == Rebuild("resume", Active, "none")
  <2>1. job \in Job
    BY <1>1 DEF Job, Op, Pc, Rebuild
  <2>2. Remembers(job) /\ job.op \in Starters
    BY <1>6, <1>1 DEF Remembers, Carries, Rebuild, Idle, Starters, Rebuilds,
                      BeginResume, Paused, Epoch
  <2> QED
    BY <1>6, <2>1, <2>2, RegisterKeeps DEF BeginResume
<1>7. ASSUME NEW s \in Serial, BeginRejoin(h, s) \/ BeginPromote(h, s)
      PROVE  IInv'
  <2>1. PICK job \in Job :
          /\ Become(h, job) /\ Remembers(job)
    <3>1. CASE BeginRejoin(h, s)
      <4> DEFINE job == Rebuild("rejoin", Active \cup {s}, s)
      <4>1. job \in Job
        BY <1>1 DEF Job, Op, Pc, Rebuild
      <4>2. Remembers(job)
        BY <3>1, <1>1 DEF Remembers, Carries, Rebuild, Idle, Starters, Rebuilds,
                          BeginRejoin, Paused, Epoch
      <4> QED
        BY <3>1, <4>1, <4>2 DEF BeginRejoin
    <3>2. CASE BeginPromote(h, s)
      <4> DEFINE job == Rebuild("promote", Active, s)
      <4>1. job \in Job
        BY <1>1 DEF Job, Op, Pc, Rebuild
      <4>2. Remembers(job)
        BY <3>2, <1>1 DEF Remembers, Carries, Rebuild, Idle, Starters, Rebuilds,
                          BeginPromote, Paused, Epoch
      <4> QED
        BY <3>2, <4>1, <4>2 DEF BeginPromote
    <3> QED
      BY <1>7, <3>1, <3>2
  <2>2. UNCHANGED <<durable, entry, worker, holds>>
    BY <1>7 DEF BeginRejoin, BeginPromote
  <2>3. TypeOK'
    BY <2>1, <2>2, BecomesAJob DEF TypeOK, Job, durable
  <2>4. Remembers(jobs[h])'
    BY <2>1, <2>2, OthersAsBefore DEF Remembers, Carries, Active, Row, durable
  <2> QED
    BY <2>1, <2>2, <2>3, <2>4, HandlerKeeps DEF durable
<1> QED
  BY <1>2, <1>3, <1>4, <1>5, <1>6, <1>7 DEF Begin
-----------------------------------------------------------------------------
\* The state of the run moves on, and the handler that moved it returns.
LEMMA StateMoves ==
  ASSUME IInv, NEW h \in Slot, Return(h),
         UNCHANGED <<epoch, rows, lease, entry, worker, holds>>,
         runState' \in {"CREATED", "PREFLIGHT", "RUNNING", "PAUSED", "FINISHED"},
         runState \in {"PAUSED", "FINISHED"} => runState' \in {"PAUSED", "FINISHED"},
         runState' \in {"CREATED", "PREFLIGHT"} => runState \in {"CREATED", "PREFLIGHT"}
  PROVE  IInv'
<1>1. jobs' \in [Slot -> Job]
  BY IdleIsAJob, BecomesAJob DEF IInv, Return
<1>2. TypeOK'
  BY <1>1 DEF IInv, TypeOK, Job
<1>3. RunPart'
  BY DEF IInv, RunPart, RowsAreShaped, EpochsAreWellFormed, FirstEpochIsWhole, Row
<1>4. ASSUME NEW g \in Slot PROVE Remembers(jobs[g])'
  <2>1. CASE g = h
    BY <2>1, ReturnRemembers DEF IInv
  <2>2. CASE g # h
    <3>1. jobs'[g] = jobs[g] /\ Remembers(jobs[g])
      BY <2>2, OthersAsBefore DEF IInv, Return
    <3> QED
      BY <3>1 DEF Remembers, Carries, Active, Row
  <2> QED
    BY <2>1, <2>2
<1> QED
  BY <1>2, <1>3, <1>4 DEF IInv, RunPart

\* The generation a worker is started with is one the run has not reached.
LEMMA GenerationIsNext ==
  ASSUME IInv, NEW h \in Slot, NEW s \in Serial, jobs[h].op \in Starters
  PROVE  /\ Generation(h, s) \in 0..MaxEpoch
         /\ jobs[h].op # "start" /\ rows[jobs[h].epoch][s] # NoRow =>
              Generation(h, s) = jobs[h].epoch + 1
<1> USE SessionLifecycleAssumption
<1>1. CASE jobs[h].op = "start"
  BY <1>1 DEF Generation
<1>2. CASE jobs[h].op # "start"
  <2>1. /\ jobs[h].epoch \in Epoch /\ jobs[h].epoch < MaxEpoch
    BY <1>2 DEF IInv, TypeOK, Remembers, Starters
  <2>2. \/ rows[jobs[h].epoch][s] = NoRow
        \/ rows[jobs[h].epoch][s].generation = jobs[h].epoch
    BY <2>1 DEF IInv, RowsAreShaped
  <2> QED
    BY <1>2, <2>1, <2>2 DEF Generation, NoRow, Epoch
<1> QED
  BY <1>1, <1>2

LEMMA GroupStepKeeps ==
  ASSUME IInv, NEW h \in Slot, NEW s \in Serial,
         StartWorker(h, s) \/ Allocate(h, s) \/ WorkerReady(h, s) 
  PROVE  IInv'
<1>1. UNCHANGED <<runState, epoch, rows, entry, jobs>>
  BY DEF StartWorker, Allocate, WorkerReady, durable
<1>2. /\ worker' \in [Group -> [Serial -> WorkerState]]
      /\ lease' \in [Serial -> 0..MaxEpoch]
      /\ holds' \in [Group -> [Serial -> 0..MaxEpoch]]
  <2>1. CASE StartWorker(h, s)
    BY <2>1 DEF StartWorker, IInv, TypeOK, WorkerState, Starting, durable
  <2>2. CASE WorkerReady(h, s)
    BY <2>2 DEF WorkerReady, IInv, TypeOK, WorkerState, Starting, durable
  <2>3. CASE Allocate(h, s)
    <3>1. Generation(h, s) \in 0..MaxEpoch
      BY <2>3, GenerationIsNext DEF IInv, Remembers, Allocate
    <3> QED
      BY <2>3, <3>1 DEF Allocate, IInv, TypeOK, WorkerState, Starting
  <2> QED
    BY <2>1, <2>2, <2>3
<1>3. TypeOK'
  BY <1>1, <1>2 DEF IInv, TypeOK
<1>4. RunPart'
  BY <1>1, RunUntouched
<1>5. \A g \in Slot : Remembers(jobs[g])'
  BY <1>1, OthersRemember
<1> QED
  BY <1>3, <1>4, <1>5 DEF IInv, RunPart

LEMMA StartFailsKeeps ==
  ASSUME IInv, NEW h \in Slot, NEW s \in Serial, StartFails(h, s)
  PROVE  IInv'
<1> DEFINE k == jobs[h].group
           states == [worker[k] EXCEPT ![s] = "ERROR"]
<1>1. jobs[h] \in Job /\ jobs[h].op \in Starters /\ "unwinding" \in Pc
  BY DEF IInv, TypeOK, Job, Remembers, StartFails, Pc
<1>2. k \in Group
  BY <1>1, SessionLifecycleAssumption DEF IInv, StartFails, Remembers, Job, Group
<1>3. states \in [Serial -> WorkerState]
  BY <1>2 DEF IInv, TypeOK, WorkerState
<1>4. StopWorkers(h, jobs[h], k, states, "unwinding") /\ Release(k, s)
  BY DEF StartFails
<1>5. UNCHANGED <<runState, epoch, rows, entry>>
  BY DEF StartFails
<1> HIDE DEF states
<1>6. TypeOK'
  BY <1>1, <1>2, <1>3, <1>4, <1>5, StopWorkersTypes, ReleaseTypes DEF IInv, TypeOK, Job
<1>7. PICK waiting, refused :
        Become(h, [jobs[h] EXCEPT !.pc = "unwinding", !.group = k,
                                  !.waiting = waiting, !.refused = refused])
  BY <1>4 DEF StopWorkers
<1>8. Remembers(jobs[h])'
  <2> DEFINE next == [jobs[h] EXCEPT !.pc = "unwinding", !.group = k,
                                     !.waiting = waiting, !.refused = refused]
  <2>1. jobs'[h] = next
    BY <1>7, OthersAsBefore DEF IInv
  <2>2. /\ next.pc = "unwinding" /\ next.op = jobs[h].op /\ next.state = jobs[h].state
        /\ next.epoch = jobs[h].epoch /\ next.members = jobs[h].members
        /\ next.target = jobs[h].target
    BY <1>1 DEF Job
  <2> HIDE DEF next
  <2> QED
    BY <1>1, <1>5, <2>1, <2>2, SameReading DEF IInv
<1> QED
  BY <1>5, <1>6, <1>7, <1>8, HandlerKeeps

\* The handler waits for something else, and forgets nothing.
LEMMA WaitKeeps ==
  ASSUME IInv, NEW h \in Slot, NEW pc \in {"video", "undo"}, jobs[h].op \in Starters,
         Become(h, [jobs[h] EXCEPT !.pc = pc]), UNCHANGED <<durable, entry, worker, holds>>
  PROVE  IInv'
<1> DEFINE next == [jobs[h] EXCEPT !.pc = pc]
<1>1. jobs[h] \in Job /\ pc \in Pc
  BY DEF IInv, TypeOK, Job, Pc
<1>2. next \in Job
  BY <1>1, JobFields DEF Job
<1>3. /\ next.pc = pc /\ next.op = jobs[h].op /\ next.state = jobs[h].state
      /\ next.epoch = jobs[h].epoch /\ next.members = jobs[h].members
      /\ next.target = jobs[h].target
  BY <1>1 DEF Job
<1>4. Become(h, next)
  OBVIOUS
<1> HIDE DEF next
<1>5. TypeOK'
  BY <1>2, <1>4, BecomesAJob DEF IInv, TypeOK, Job, durable
<1>6. jobs'[h] = next
  BY <1>4, OthersAsBefore DEF IInv
<1>7. Remembers(jobs[h])'
  BY <1>3, <1>6, SameReading DEF IInv, durable
<1> QED
  BY <1>4, <1>5, <1>7, HandlerKeeps DEF durable

LEMMA UnwoundKeeps ==
  ASSUME IInv, NEW h \in Slot, Unwound(h)
  PROVE  IInv'
<1>1. Return(h) /\ UNCHANGED <<durable, worker, holds>> /\ entry' \in {entry, 0}
  BY DEF Unwound
<1>2. jobs' \in [Slot -> Job]
  BY <1>1, IdleIsAJob, BecomesAJob DEF IInv, Return
<1>3. TypeOK'
  BY <1>1, <1>2, SessionLifecycleAssumption DEF IInv, TypeOK, Job, durable
<1> QED
  BY <1>1, <1>3, HandlerKeeps, ReturnRemembers DEF IInv, Return, durable

LEMMA StopEndsKeeps ==
  ASSUME IInv, NEW k \in Group, NEW s \in Serial, StopEnds(k, s)
  PROVE  IInv'
<1>1. UNCHANGED <<runState, epoch, rows, entry>>
  BY DEF StopEnds
<1>2. PICK end \in {"STOPPED", "ERROR"} :
        /\ worker' = [worker EXCEPT ![k][s] = end]
        /\ jobs' = [h \in Slot |->
             IF jobs[h].group = k /\ s \in jobs[h].waiting
             THEN [jobs[h] EXCEPT !.waiting = @ \ {s}, !.refused = @ \/ end = "ERROR"]
             ELSE jobs[h]]
  BY DEF StopEnds
<1>3. ASSUME NEW h \in Slot
      PROVE  /\ jobs'[h] \in Job
             /\ UNCHANGED <<jobs[h].op, jobs[h].pc, jobs[h].state, jobs[h].epoch,
                            jobs[h].members, jobs[h].target, jobs[h].group>>
  <2>1. jobs[h] \in Job
    BY DEF IInv, TypeOK, Job
  <2> DEFINE waiting == jobs[h].waiting \ {s}
             refused == jobs[h].refused \/ end = "ERROR"
  <2>2. waiting \in SUBSET Serial /\ refused \in BOOLEAN
    BY <2>1 DEF Job
  <2>3. jobs'[h] \in {jobs[h], [jobs[h] EXCEPT !.waiting = waiting, !.refused = refused]}
    BY <1>2
  <2> HIDE DEF waiting, refused
  <2>4. [jobs[h] EXCEPT !.waiting = waiting, !.refused = refused] \in Job
    BY <2>1, <2>2, JobWaits
  <2> QED
    BY <2>1, <2>3, <2>4 DEF Job
<1>4. jobs' \in [Slot -> Job]
  BY <1>2, <1>3
<1>5. worker' \in [Group -> [Serial -> WorkerState]]
  BY <1>2 DEF IInv, TypeOK, WorkerState
<1>6. TypeOK'
  BY <1>1, <1>4, <1>5, ReleaseTypes DEF IInv, TypeOK, Job, StopEnds
<1>7. \A h \in Slot : Remembers(jobs[h])'
  <2> TAKE h \in Slot
  <2>1. /\ Remembers(jobs[h])
        /\ jobs[h].pc \in {"starting", "unwinding", "video", "undo", "undone"} =>
             jobs[h].op \in Starters
        /\ jobs[h].pc = "starting" => jobs[h].group # 0
    BY DEF IInv, Remembers
  <2> QED
    BY <1>1, <1>3, <2>1, SameReading
<1> QED
  BY <1>1, <1>6, <1>7, RunUntouched DEF IInv, RunPart

LEMMA RelaunchKeeps ==
  ASSUME IInv, Relaunch
  PROVE  IInv'
<1>1. TypeOK'
  BY IdleIsAJob, SessionLifecycleAssumption
  DEF IInv, TypeOK, Relaunch, durable, Job, WorkerState
<1>2. \A h \in Slot : Remembers(jobs[h])'
  BY DEF Relaunch, Remembers, Idle, Starters, Rebuilds
<1> QED
  BY <1>1, <1>2, RunUntouched DEF IInv, RunPart, Relaunch, durable

LEMMA QuarantinedRow ==
  ASSUME NEW row \in DeviceRow, row.role = "FOLLOWER"
  PROVE  LET next == [row EXCEPT !.membership = "QUARANTINED"]
         IN  /\ next.role = "FOLLOWER" /\ next.membership = "QUARANTINED"
             /\ next.generation = row.generation /\ next # NoRow /\ next \in DeviceRow
BY DEF DeviceRow, NoRow

LEMMA QuarantineKeeps ==
  ASSUME IInv, NEW s \in Serial, Quarantine(s)
  PROVE  IInv'
<1>1. /\ epoch \in Epoch /\ runState = "RUNNING"
      /\ UNCHANGED <<runState, epoch, lease, entry, worker, holds, jobs>>
  BY DEF IInv, TypeOK, Quarantine
<1>2. rows' = [rows EXCEPT ![epoch] = [rows[epoch] EXCEPT ![s] =
                [rows[epoch][s] EXCEPT !.membership = "QUARANTINED"]]]
  BY DEF Quarantine
<1>3. /\ rows[epoch][s].role = "FOLLOWER" /\ rows[epoch][s].membership = "ACTIVE"
      /\ rows[epoch][s].generation = epoch /\ rows[epoch][s] # NoRow
  BY <1>1 DEF Quarantine, Row, IInv, RowsAreShaped, NoRow
<1>4. /\ rows'[epoch][s].role = "FOLLOWER" /\ rows'[epoch][s].membership = "QUARANTINED"
      /\ rows'[epoch][s].generation = epoch /\ rows'[epoch][s] # NoRow
      /\ \A e \in Epoch, t \in Serial : e # epoch \/ t # s => rows'[e][t] = rows[e][t]
      /\ rows' \in [Epoch -> [Serial -> DeviceRow]]
  <2> DEFINE row == [rows[epoch][s] EXCEPT !.membership = "QUARANTINED"]
  <2>1. rows[epoch] \in [Serial -> DeviceRow]
    BY <1>1 DEF IInv, TypeOK, DeviceRow
  <2>2. /\ row.role = "FOLLOWER" /\ row.membership = "QUARANTINED"
        /\ row.generation = epoch /\ row # NoRow /\ row \in DeviceRow
    <3>1. rows[epoch][s] \in DeviceRow
      BY <2>1
    <3> QED
      BY <1>3, <3>1, QuarantinedRow, Zenon
  <2> HIDE DEF row
  <2>3. rows'[epoch][s] = row
    BY <1>1, <1>2, <2>1 DEF IInv, TypeOK, row
  <2>4. \A e \in Epoch, t \in Serial : e # epoch \/ t # s => rows'[e][t] = rows[e][t]
    BY <1>1, <1>2, <2>1 DEF IInv, TypeOK
  <2>5. rows' \in [Epoch -> [Serial -> DeviceRow]]
    <3>1. rows' = [rows EXCEPT ![epoch] = [rows[epoch] EXCEPT ![s] = row]]
      BY <1>2 DEF row
    <3>2. [rows[epoch] EXCEPT ![s] = row] \in [Serial -> DeviceRow]
      BY <2>1, <2>2
    <3>3. rows \in [Epoch -> [Serial -> DeviceRow]]
      BY DEF IInv, TypeOK, DeviceRow
    <3> QED
      BY <1>1, <3>1, <3>2, <3>3
  <2> QED
    BY <2>2, <2>3, <2>4, <2>5
<1>5. TypeOK'
  BY <1>1, <1>4 DEF IInv, TypeOK, DeviceRow
<1>6. RowsAreShaped'
  BY <1>1, <1>4 DEF IInv, RowsAreShaped, Epoch
<1>7. EpochsAreWellFormed'
  <2>1. ASSUME NEW e \in 1..epoch
        PROVE  \E first \in Serial :
                 /\ rows'[e][first].role = "LEADER" /\ rows'[e][first].membership = "ACTIVE"
                 /\ \A t \in Serial \ {first} : rows'[e][t].role # "LEADER"
    <3>1. PICK first \in Serial :
            /\ rows[e][first].role = "LEADER" /\ rows[e][first].membership = "ACTIVE"
            /\ \A t \in Serial \ {first} : rows[e][t].role # "LEADER"
      BY DEF IInv, EpochsAreWellFormed
    <3>2. e \in Epoch /\ (e = epoch => first # s)
      BY <1>1, <1>3, <3>1, SessionLifecycleAssumption DEF Epoch
    <3>3. \A t \in Serial : rows'[e][t].role = rows[e][t].role
      BY <1>1, <1>3, <1>4, <3>2
    <3>4. rows'[e][first] = rows[e][first]
      BY <1>4, <3>2
    <3> QED
      BY <3>1, <3>3, <3>4
  <2>2. ASSUME NEW e \in 1..epoch, NEW t \in Serial
        PROVE  IF rows'[e][t] = NoRow
               THEN \E d \in 1..(e - 1) :
                      /\ rows'[d][t].membership = "QUARANTINED"
                      /\ \A c \in (d + 1)..(e - 1) : rows'[c][t] = NoRow
               ELSE rows'[e][t].generation = e
    <3>1. /\ \A d \in 1..epoch : rows[d][t] = NoRow <=> rows'[d][t] = NoRow
          /\ \A d \in 1..epoch : rows'[d][t].generation = rows[d][t].generation
          /\ \A d \in 1..epoch : rows[d][t].membership = "QUARANTINED" =>
                                  rows'[d][t].membership = "QUARANTINED"
      BY <1>1, <1>3, <1>4, SessionLifecycleAssumption DEF Epoch
    <3>2. IF rows[e][t] = NoRow
          THEN \E d \in 1..(e - 1) :
                 /\ rows[d][t].membership = "QUARANTINED"
                 /\ \A c \in (d + 1)..(e - 1) : rows[c][t] = NoRow
          ELSE rows[e][t].generation = e
      BY DEF IInv, EpochsAreWellFormed
    <3> QED
      BY <1>1, <3>1, <3>2, SessionLifecycleAssumption DEF Epoch
  <2> QED
    BY <1>1, <2>1, <2>2 DEF EpochsAreWellFormed, NoRow
<1>8. FirstEpochIsWhole'
  BY <1>1 DEF FirstEpochIsWhole
<1>9. \A h \in Slot : Remembers(jobs[h])'
  BY <1>1 DEF IInv, Remembers
<1> QED
  BY <1>5, <1>6, <1>7, <1>8, <1>9 DEF IInv

LEMMA OpenedRow ==
  ASSUME NEW role \in {"LEADER", "FOLLOWER"}, NEW e \in Epoch, NEW row,
         row = [role |-> role, membership |-> "ACTIVE", generation |-> e]
  PROVE  /\ row.role = role /\ row.membership = "ACTIVE" /\ row.generation = e
         /\ row # NoRow /\ row \in DeviceRow
BY SessionLifecycleAssumption DEF DeviceRow, NoRow, Epoch

(* resume, rejoinDevice and promoteLeader: the rows of the epoch a handler *)
(* opens follow from the rows it read.                                     *)
LEMMA OpenEpochKeeps ==
  ASSUME IInv, NEW h \in Slot, OpenEpoch(h)
  PROVE  IInv'
<1> DEFINE job  == jobs[h]
           next == epoch + 1
<1> USE SessionLifecycleAssumption
<1>1. /\ job.op \in Rebuilds /\ job.epoch = epoch /\ runState = "PAUSED"
      /\ epoch \in Epoch /\ next \in Epoch /\ next = epoch + 1 /\ job \in Job /\ job.members \in SUBSET Serial
      /\ Carries(job)
  BY DEF OpenEpoch, At, StillPaused, IInv, TypeOK, Remembers, Rebuilds, Epoch, Job
<1>2. /\ runState' = "RUNNING" /\ epoch' = next
      /\ Return(h) /\ UNCHANGED <<lease, entry, worker, holds>>
      /\ rows' = [rows EXCEPT ![next] = [s \in Serial |->
                    IF s \notin job.members THEN NoRow
                    ELSE [role |-> NextRole(h, s), membership |-> "ACTIVE",
                          generation |-> Generation(h, s)]]]
  BY <1>1 DEF OpenEpoch
<1>3. PICK first \in Serial :
        /\ rows[epoch][first].role = "LEADER" /\ rows[epoch][first].membership = "ACTIVE"
        /\ \A s \in Serial \ {first} : rows[epoch][s].role # "LEADER"
  BY <1>1 DEF IInv, EpochsAreWellFormed, Epoch
\* What the members were in the epoch that is replaced.
<1>4. ASSUME NEW s \in job.members
      PROVE  /\ s \in Serial /\ rows[epoch][s] # NoRow /\ rows[epoch][s].role # "none"
             /\ Generation(h, s) = next
  <2>1. s \in Serial /\ rows[epoch][s].membership \in {"ACTIVE", "QUARANTINED"}
    BY <1>1 DEF Carries, Active, Row
  <2>2. rows[epoch][s] # NoRow /\ rows[epoch][s].generation = epoch
    BY <1>1, <2>1 DEF IInv, RowsAreShaped, NoRow
  <2> QED
    BY <1>1, <2>1, <2>2 DEF Generation, Rebuilds, IInv, RowsAreShaped
<1>5. ASSUME NEW s \in Serial \ job.members
      PROVE  rows[epoch][s] = NoRow \/ rows[epoch][s].membership = "QUARANTINED"
  <2>1. rows[epoch][s].membership # "ACTIVE"
    BY <1>1, <1>5 DEF Carries, Active, Row
  <2>2. rows[epoch][s].membership \in {"OUT", "ACTIVE", "QUARANTINED"}
    BY <1>1 DEF IInv, TypeOK
  <2> QED
    BY <1>1, <2>1, <2>2 DEF IInv, RowsAreShaped
\* The rows of the new epoch.
<1>6. /\ \A e \in Epoch : e # next => rows'[e] = rows[e]
      /\ \A s \in Serial \ job.members : rows'[next][s] = NoRow
      /\ \A s \in job.members :
           rows'[next][s] = [role |-> NextRole(h, s), membership |-> "ACTIVE", generation |-> next]
  BY <1>1, <1>2, <1>4 DEF IInv, TypeOK
<1>7. \A s \in job.members : NextRole(h, s) \in {"LEADER", "FOLLOWER"}
  BY <1>1, <1>4 DEF NextRole, IInv, TypeOK
<1>7a. \A s \in job.members :
         /\ rows'[next][s].role = NextRole(h, s) /\ rows'[next][s].membership = "ACTIVE"
         /\ rows'[next][s].generation = next /\ rows'[next][s] # NoRow
         /\ rows'[next][s] \in DeviceRow
  <2> TAKE s \in job.members
  <2> HIDE DEF next
  <2>1. /\ NextRole(h, s) \in {"LEADER", "FOLLOWER"}
        /\ rows'[next][s] = [role |-> NextRole(h, s), membership |-> "ACTIVE", generation |-> next]
    BY <1>6, <1>7
  <2> QED
    BY <1>1, <2>1, OpenedRow
<1>8. \E lead \in job.members :
        NextRole(h, lead) = "LEADER" /\ \A s \in job.members \ {lead} : NextRole(h, s) # "LEADER"
  <2>1. CASE job.op = "promote"
    BY <1>1, <2>1 DEF NextRole, Carries, Active, Row
  <2>2. CASE job.op # "promote"
    <3>1. first \in job.members
      BY <1>1, <1>3 DEF Carries, Active, Row
    <3> QED
      BY <1>1, <1>3, <2>2, <3>1 DEF NextRole
  <2> QED
    BY <2>1, <2>2
<1> HIDE DEF next
<1>9. jobs' \in [Slot -> Job]
  BY <1>2, IdleIsAJob, BecomesAJob DEF IInv, Return
<1>10. rows' \in [Epoch -> [Serial -> DeviceRow]]
  <2>1. \A s \in Serial :
          rows'[next][s] \in DeviceRow
    <3>1. NoRow \in DeviceRow
      BY DEF NoRow, DeviceRow
    <3> QED
      BY <1>6, <1>7a, <3>1
  <2> QED
    BY <1>1, <1>2, <2>1 DEF IInv, TypeOK, DeviceRow
<1>11. TypeOK'
  BY <1>1, <1>2, <1>9, <1>10 DEF IInv, TypeOK, Job, DeviceRow
<1>12. RowsAreShaped'
  <2> SUFFICES ASSUME NEW e \in Epoch, NEW s \in Serial
               PROVE  \/ rows'[e][s] = NoRow
                      \/ /\ e <= epoch'
                         /\ rows'[e][s].role # "none" /\ rows'[e][s].membership # "OUT"
                         /\ rows'[e][s].generation = e
    BY DEF RowsAreShaped, NoRow
  <2>1. CASE e # next
    <3>1. rows'[e][s] = rows[e][s] /\ epoch \in Nat /\ e \in Nat /\ epoch' = epoch + 1
      BY <1>1, <1>2, <1>6, <2>1 DEF Epoch
    <3> QED
      BY <3>1 DEF IInv, RowsAreShaped
  <2>2. CASE e = next
    BY <1>1, <1>2, <1>6, <1>7, <1>7a, <2>2 DEF Epoch
  <2> QED
    BY <2>1, <2>2
<1>13. EpochsAreWellFormed'
  <2>1. ASSUME NEW e \in 1..next
        PROVE  \E lead \in Serial :
                 /\ rows'[e][lead].role = "LEADER" /\ rows'[e][lead].membership = "ACTIVE"
                 /\ \A s \in Serial \ {lead} : rows'[e][s].role # "LEADER"
    <3>1. CASE e = next
      <4>1. PICK lead \in job.members :
              NextRole(h, lead) = "LEADER"
              /\ \A s \in job.members \ {lead} : NextRole(h, s) # "LEADER"
        BY <1>8
      <4>2. \A s \in Serial \ {lead} : rows'[next][s].role # "LEADER"
        BY <1>6, <1>7a, <4>1 DEF NoRow
      <4> QED
        BY <1>1, <1>7a, <3>1, <4>1, <4>2
    <3>2. CASE e # next
      <4>1. e \in 1..epoch /\ rows'[e] = rows[e]
        BY <1>1, <1>6, <3>2 DEF Epoch
      <4> QED
        BY <4>1 DEF IInv, EpochsAreWellFormed
    <3> QED
      BY <3>1, <3>2
  <2>2. ASSUME NEW e \in 1..next, NEW s \in Serial
        PROVE  IF rows'[e][s] = NoRow
               THEN \E d \in 1..(e - 1) :
                      /\ rows'[d][s].membership = "QUARANTINED"
                      /\ \A c \in (d + 1)..(e - 1) : rows'[c][s] = NoRow
               ELSE rows'[e][s].generation = e
    <3>0. \A d \in 1..epoch : rows'[d] = rows[d]
      BY <1>1, <1>6 DEF Epoch
    <3>1. CASE e = next /\ s \in job.members
      BY <1>7a, <3>1
    <3>2. CASE e = next /\ s \notin job.members
      <4>1. rows'[e][s] = NoRow /\ e - 1 = epoch
        BY <1>1, <1>6, <3>2 DEF Epoch
      <4>2. CASE rows[epoch][s].membership = "QUARANTINED"
        <5>1. epoch \in 1..epoch
          BY <1>1 DEF Epoch
        <5>2. rows'[epoch][s].membership = "QUARANTINED"
              /\ \A c \in (epoch + 1)..epoch : rows'[c][s] = NoRow
          BY <1>1, <3>0, <4>2, <5>1 DEF Epoch
        <5> QED
          BY <4>1, <5>1, <5>2
      <4>3. CASE rows[epoch][s] = NoRow
        <5>1. PICK d \in 1..(epoch - 1) :
                /\ rows[d][s].membership = "QUARANTINED"
                /\ \A c \in (d + 1)..(epoch - 1) : rows[c][s] = NoRow
          BY <1>1, <4>3 DEF IInv, EpochsAreWellFormed, Epoch
        <5>2. d \in 1..epoch /\ rows'[d][s].membership = "QUARANTINED"
          BY <1>1, <3>0, <5>1 DEF Epoch
        <5>3. \A c \in (d + 1)..epoch : rows'[c][s] = NoRow
          BY <1>1, <3>0, <4>3, <5>1 DEF Epoch
        <5> QED
          BY <4>1, <5>2, <5>3
      <4> QED
        BY <1>5, <3>2, <4>2, <4>3
    <3>3. CASE e # next
      <4>1. e \in 1..epoch
        BY <1>1, <3>3 DEF Epoch
      <4>2. IF rows[e][s] = NoRow
            THEN \E d \in 1..(e - 1) :
                   /\ rows[d][s].membership = "QUARANTINED"
                   /\ \A c \in (d + 1)..(e - 1) : rows[c][s] = NoRow
            ELSE rows[e][s].generation = e
        BY <4>1 DEF IInv, EpochsAreWellFormed
      <4> QED
        BY <1>1, <3>0, <4>1, <4>2 DEF Epoch
    <3> QED
      BY <3>1, <3>2, <3>3
  <2> QED
    BY <1>2, <2>1, <2>2 DEF EpochsAreWellFormed, NoRow
<1>14. FirstEpochIsWhole'
  BY <1>2 DEF FirstEpochIsWhole
<1>15. ASSUME NEW g \in Slot PROVE Remembers(jobs[g])'
  <2>1. CASE g = h
    BY <1>2, <2>1, ReturnRemembers DEF IInv
  <2>2. CASE g # h
    <3>1. jobs'[g] = jobs[g] /\ Remembers(jobs[g]) /\ jobs[g].epoch \in Epoch
      BY <1>2, <2>2, OthersAsBefore DEF IInv, TypeOK, Return
    <3> QED
      BY <1>1, <1>2, <3>1 DEF Remembers, Epoch
  <2> QED
    BY <2>1, <2>2
<1> QED
  BY <1>11, <1>12, <1>13, <1>14, <1>15 DEF IInv
-----------------------------------------------------------------------------
LEMMA ContinueKeeps ==
  ASSUME IInv, NEW h \in Slot, Continue(h)
  PROVE  IInv'
<1> USE DEF IInv
<1>1. CASE ProbeFails(h) \/ StopRejected(h) \/ Undone(h)
  BY <1>1, ReturnKeeps DEF ProbeFails, StopRejected, Undone
<1>2. CASE CommitPreflight(h)
  BY <1>2, StateMoves DEF CommitPreflight, TypeOK
<1>3. CASE CommitStart(h)
  BY <1>3, StateMoves DEF CommitStart
<1>4. CASE CommitPause(h)
  BY <1>4, StateMoves DEF CommitPause, TypeOK
<1>5. CASE CommitComplete(h)
  BY <1>5, StateMoves DEF CommitComplete, TypeOK
<1>6. CASE Probed(h)
  <2>1. jobs[h] \in Job /\ Remembers(jobs[h]) /\ jobs[h].op \in Starters
    BY <1>6 DEF TypeOK, Job, Probed, At, Starters, Rebuilds
  <2> QED
    BY <1>6, <2>1, RegisterKeeps, ReturnKeeps DEF Probed
<1>7. CASE Unwound(h)
  BY <1>7, UnwoundKeeps
<1>8. CASE GroupStarted(h)
  BY <1>8, WaitKeeps DEF GroupStarted, Remembers
<1>9. CASE CommitFails(h)
  BY <1>9, WaitKeeps DEF CommitFails, Remembers
<1>10. CASE Undo(h)
  <2>1. jobs[h] \in Job /\ "undone" \in Pc \ {"starting"} /\ jobs[h].op \in Starters
    BY <1>10 DEF TypeOK, Job, Undo, Remembers, Pc
  <2>2. Remembers([jobs[h] EXCEPT !.pc = "undone"])
    BY <2>1 DEF Remembers, Carries, Job
  <2> QED
    BY <1>10, <2>1, <2>2, StopEntryKeeps DEF Undo
<1>11. CASE OpenEpoch(h)
  BY <1>11, OpenEpochKeeps
<1>12. ASSUME NEW s \in Serial,
              StartWorker(h, s) \/ Allocate(h, s) \/ WorkerReady(h, s) \/ StartFails(h, s)
       PROVE  IInv'
  BY <1>12, GroupStepKeeps, StartFailsKeeps
<1> QED
  BY <1>1, <1>2, <1>3, <1>4, <1>5, <1>6, <1>7, <1>8, <1>9, <1>10, <1>11, <1>12
  DEF Continue

(* What is said of the rows and of what the handlers remember holds in     *)
(* every state, for any number of handlers, failing stops and crashes.     *)
THEOREM Invariance == Spec => []IInv
<1>1. ASSUME IInv, [Next]_vars PROVE IInv'
  <2>1. CASE UNCHANGED vars
    <3>1. TypeOK'
      BY <1>1, <2>1 DEF IInv, TypeOK, vars, durable
    <3> QED
      BY <1>1, <2>1, <3>1, RunUntouched, OthersRemember DEF IInv, RunPart, vars, durable
  <2> QED
    BY <1>1, <2>1, BeginKeeps, ContinueKeeps, StopEndsKeeps, QuarantineKeeps, RelaunchKeeps
    DEF Next
<1> QED
  BY <1>1, Initially, PTL DEF Spec

(* Every epoch the run has opened has one active leader, a serial left out *)
(* of it was quarantined, and no generation is used twice.                 *)
THEOREM EpochsHold == Spec => [](TypeOK /\ EpochsAreWellFormed)
BY Invariance, PTL DEF IInv
-----------------------------------------------------------------------------
\* All that a step may do to the run.
StateStep ==
  \/ runState' = runState
  \/ runState = "CREATED" /\ runState' = "PREFLIGHT"
  \/ runState = "PREFLIGHT" /\ runState' = "RUNNING"
  \/ runState = "RUNNING" /\ runState' = "PAUSED"
  \/ runState \in {"RUNNING", "PAUSED"} /\ runState' = "FINISHED"

LEMMA RunSteps ==
  ASSUME IInv, [Next]_vars
  PROVE  \/ StateStep /\ UNCHANGED <<epoch, rows>>
         \/ \E h \in Slot : OpenEpoch(h)
         \/ \E s \in Serial : Quarantine(s)
<1>1. ASSUME NEW h \in Slot, Begin(h)
      PROVE  UNCHANGED <<runState, epoch, rows>>
  BY <1>1 DEF Begin, BeginPreflight, BeginStart, BeginPause, BeginResume, BeginComplete,
              BeginRejoin, BeginPromote, Register, durable
<1>2. ASSUME NEW h \in Slot, Continue(h)
      PROVE  (StateStep /\ UNCHANGED <<epoch, rows>>) \/ OpenEpoch(h)
  <2>1. CASE CommitPreflight(h) \/ CommitStart(h) \/ CommitPause(h)
    BY <2>1 DEF CommitPreflight, CommitStart, CommitPause, StateStep
  <2>2. CASE CommitComplete(h)
    BY <2>2 DEF CommitComplete, Stopped, StateStep, IInv, Remembers
  <2>3. CASE \/ ProbeFails(h) \/ Probed(h) \/ Unwound(h) \/ GroupStarted(h) \/ CommitFails(h)
             \/ Undo(h) \/ Undone(h) \/ StopRejected(h)
    BY <2>3 DEF ProbeFails, Probed, Unwound, GroupStarted, CommitFails, Undo, Undone,
                StopRejected, Register, durable, StateStep
  <2>4. ASSUME NEW s \in Serial,
               StartWorker(h, s) \/ Allocate(h, s) \/ WorkerReady(h, s) \/ StartFails(h, s)
        PROVE  UNCHANGED <<runState, epoch, rows>>
    BY <2>4 DEF StartWorker, Allocate, WorkerReady, StartFails, durable
  <2> QED
    BY <1>2, <2>1, <2>2, <2>3, <2>4 DEF Continue, StateStep
<1>3. CASE (\E k \in Group, s \in Serial : StopEnds(k, s)) \/ Relaunch \/ UNCHANGED vars
  BY <1>3 DEF StopEnds, Relaunch, vars, durable, StateStep
<1> QED
  BY <1>1, <1>2, <1>3 DEF Next, StateStep

\* What the rows of an epoch look like once it has been replaced.
LEMMA OpenedRows ==
  ASSUME IInv, NEW h \in Slot, OpenEpoch(h)
  PROVE  /\ jobs[h].op \in Rebuilds /\ jobs[h].epoch = epoch /\ runState = "PAUSED"
         /\ Carries(jobs[h])
         /\ epoch \in Epoch /\ epoch + 1 \in Epoch /\ epoch' = epoch + 1 /\ runState' = "RUNNING"
         /\ \A e \in Epoch : e # epoch + 1 => rows'[e] = rows[e]
         /\ rows'[epoch + 1] = [s \in Serial |->
              IF s \notin jobs[h].members THEN NoRow
              ELSE [role |-> NextRole(h, s), membership |-> "ACTIVE",
                    generation |-> Generation(h, s)]]
<1>1. /\ jobs[h].op \in Rebuilds /\ jobs[h].epoch = epoch /\ runState = "PAUSED"
      /\ epoch \in Epoch /\ epoch + 1 \in Epoch /\ Carries(jobs[h])
  BY SessionLifecycleAssumption
  DEF OpenEpoch, At, StillPaused, IInv, TypeOK, Remembers, Rebuilds, Epoch
<1> QED
  BY <1>1 DEF OpenEpoch, IInv, TypeOK

(* Rows of former epochs never change, and a member of the current one is  *)
(* only ever quarantined, by a fault in a running run.                     *)
THEOREM HistoryHolds == Spec => MembershipIsHistory
<1> DEFINE Kept ==
      \A e \in 1..epoch, s \in Serial :
        rows'[e][s] # rows[e][s] =>
          /\ e = epoch /\ runState = "RUNNING"
          /\ rows[e][s].membership = "ACTIVE"
          /\ rows'[e][s] = [rows[e][s] EXCEPT !.membership = "QUARANTINED"]
<1>1. ASSUME IInv, [Next]_vars PROVE Kept
  <2>1. CASE StateStep /\ UNCHANGED <<epoch, rows>>
    BY <2>1
  <2>2. ASSUME NEW h \in Slot, OpenEpoch(h) PROVE Kept
    <3>1. \A e \in 1..epoch : rows'[e] = rows[e]
      <4>1. epoch \in Epoch /\ \A e \in Epoch : e # epoch + 1 => rows'[e] = rows[e]
        BY <1>1, <2>2, OpenedRows
      <4>2. \A e \in 1..epoch : e \in Epoch /\ e # epoch + 1
        BY <4>1, SessionLifecycleAssumption DEF Epoch
      <4> QED
        BY <4>1, <4>2
    <3> QED
      BY <3>1
  <2>3. ASSUME NEW q \in Serial, Quarantine(q) PROVE Kept
    <3>1. epoch \in Epoch /\ runState = "RUNNING" /\ rows[epoch][q].membership = "ACTIVE"
      BY <1>1, <2>3 DEF Quarantine, Row, IInv, TypeOK
    <3>2. rows' = [rows EXCEPT ![epoch] = [rows[epoch] EXCEPT ![q] =
                    [rows[epoch][q] EXCEPT !.membership = "QUARANTINED"]]]
      BY <2>3 DEF Quarantine
    <3>3. rows \in [Epoch -> [Serial -> DeviceRow]]
      BY <1>1 DEF IInv, TypeOK, DeviceRow
    <3>4. \A e \in 1..epoch : e \in Epoch
      BY <3>1, SessionLifecycleAssumption DEF Epoch
    <3> TAKE e \in 1..epoch, s \in Serial
    <3>5. CASE e # epoch
      BY <3>2, <3>3, <3>4, <3>5
    <3>6. CASE e = epoch
      <4>1. rows'[e] = [rows[e] EXCEPT ![q] =
                         [rows[e][q] EXCEPT !.membership = "QUARANTINED"]]
        BY <3>1, <3>2, <3>3, <3>6
      <4>2. rows[e] \in [Serial -> DeviceRow]
        BY <3>3, <3>4
      <4>3. CASE s = q
        BY <3>1, <3>6, <4>1, <4>2, <4>3
      <4>4. CASE s # q
        BY <4>1, <4>2, <4>4
      <4> QED
        BY <4>3, <4>4
    <3> QED
      BY <3>5, <3>6
  <2> QED
    BY <1>1, <2>1, <2>2, <2>3, RunSteps
<1> QED
  BY <1>1, Invariance, PTL DEF Spec, MembershipIsHistory
-----------------------------------------------------------------------------
LEMMA OneLeader ==
  ASSUME NEW row, NEW first \in Serial, row[first].role = "LEADER",
         \A s \in Serial \ {first} : row[s].role # "LEADER"
  PROVE  (CHOOSE s \in Serial : row[s].role = "LEADER") = first
OBVIOUS

LEMMA LeaderLeads ==
  ASSUME IInv
  PROVE  /\ Leader \in Serial /\ Row(Leader).role = "LEADER"
         /\ Row(Leader).membership = "ACTIVE"
         /\ \A s \in Serial \ {Leader} : Row(s).role # "LEADER"
<1>1. epoch \in 1..epoch
  BY SessionLifecycleAssumption DEF IInv, TypeOK, Epoch
<1>2. PICK first \in Serial :
        /\ rows[epoch][first].role = "LEADER" /\ rows[epoch][first].membership = "ACTIVE"
        /\ \A s \in Serial \ {first} : rows[epoch][s].role # "LEADER"
  BY <1>1 DEF IInv, EpochsAreWellFormed
<1>3. Leader = first
  BY <1>2, OneLeader DEF Leader, Row
<1> QED
  BY <1>2, <1>3 DEF Row

\* The membership of the current epoch as RunControl sees it.
Roster == [s \in Serial |-> Row(s).membership]

LEMMA StutterMaps ==
  ASSUME UNCHANGED <<epoch, rows>>
  PROVE  Roster' = Roster /\ Leader' = Leader
BY DEF Roster, Leader, Row

LEMMA StateStepMaps ==
  ASSUME StateStep, UNCHANGED <<epoch, rows>>
  PROVE  [Control!RunNext]_(Control!runVars)
<1>1. Roster' = Roster /\ Leader' = Leader
  BY StutterMaps
<1> QED
  BY <1>1 DEF StateStep, Roster, Control!RunNext, Control!runVars, Control!Preflight,
              Control!Start, Control!Pause, Control!Finish

LEMMA QuarantineMaps ==
  ASSUME IInv, NEW s \in Serial, Quarantine(s)
  PROVE  Control!Quarantine(s)
<1>1. epoch \in Epoch /\ UNCHANGED <<runState, epoch>> /\ runState = "RUNNING"
  BY DEF IInv, TypeOK, Quarantine
<1>2. Row(s).role = "FOLLOWER" /\ Row(s).membership = "ACTIVE"
  BY DEF Quarantine
<1>3. rows' = [rows EXCEPT ![epoch] = [rows[epoch] EXCEPT ![s] =
                [rows[epoch][s] EXCEPT !.membership = "QUARANTINED"]]]
  BY DEF Quarantine
<1>4. rows[epoch] \in [Serial -> DeviceRow] /\ rows \in [Epoch -> [Serial -> DeviceRow]]
  BY <1>1 DEF IInv, TypeOK, DeviceRow
<1>5. rows'[epoch] = [rows[epoch] EXCEPT ![s] =
                       [rows[epoch][s] EXCEPT !.membership = "QUARANTINED"]]
  BY <1>1, <1>3, <1>4
<1>6. \A t \in Serial :
        /\ rows'[epoch][t].role = rows[epoch][t].role
        /\ rows'[epoch][t].membership =
             IF t = s THEN "QUARANTINED" ELSE rows[epoch][t].membership
  <2> TAKE t \in Serial
  <2>1. CASE t = s
    <3>1. rows[epoch][s] \in DeviceRow
      BY <1>4
    <3>2. rows'[epoch][s] = [rows[epoch][s] EXCEPT !.membership = "QUARANTINED"]
      BY <1>4, <1>5
    <3> QED
      BY <2>1, <3>1, <3>2 DEF DeviceRow
  <2>2. CASE t # s
    BY <1>4, <1>5, <2>2
  <2> QED
    BY <2>1, <2>2
<1>7. s # Leader
  BY <1>2, LeaderLeads
<1>8. Leader' = Leader
  BY <1>1, <1>6 DEF Leader, Row
<1>9. Roster' = [Roster EXCEPT ![s] = "QUARANTINED"]
  BY <1>1, <1>6 DEF Roster, Row
<1> QED
  BY <1>1, <1>2, <1>7, <1>8, <1>9 DEF Control!Quarantine, Roster

LEMMA OpenEpochMaps ==
  ASSUME IInv, NEW h \in Slot, OpenEpoch(h)
  PROVE  Control!Resume \/ \E s \in Serial : Control!Rejoin(s) \/ Control!Promote(s)
<1> DEFINE job == jobs[h]
           lead == IF job.op = "promote" THEN job.target ELSE Leader
<1>1. /\ job.op \in Rebuilds /\ runState = "PAUSED" /\ Carries(job)
      /\ epoch < MaxEpoch /\ epoch' = epoch + 1 /\ runState' = "RUNNING"
  <2>1. /\ job.op \in Rebuilds /\ runState = "PAUSED" /\ Carries(job)
        /\ epoch \in Epoch /\ epoch + 1 \in Epoch /\ epoch' = epoch + 1 /\ runState' = "RUNNING"
    BY OpenedRows
  <2>2. epoch < MaxEpoch
    BY <2>1, SessionLifecycleAssumption DEF Epoch
  <2> QED
    BY <2>1, <2>2
<1>2. rows'[epoch'] = [s \in Serial |->
        IF s \notin job.members THEN NoRow
        ELSE [role |-> NextRole(h, s), membership |-> "ACTIVE",
              generation |-> Generation(h, s)]]
  BY OpenedRows
<1>3. \A s \in Serial : Row(s)'.membership = IF s \in job.members THEN "ACTIVE" ELSE "OUT"
  BY <1>2 DEF Row, NoRow
<1>4. Active = Control!Active
  BY DEF Active, Control!Active, Row
<1>5. Roster' = [s \in Serial |-> IF s \in job.members THEN "ACTIVE" ELSE "OUT"]
  BY <1>3 DEF Roster
<1>6. lead \in job.members /\ lead \in Serial
  BY <1>1, LeaderLeads DEF Carries, Active
<1>7. \A s \in job.members \cap Serial : NextRole(h, s) = "LEADER" <=> s = lead
  <2> TAKE s \in job.members \cap Serial
  <2>1. CASE job.op = "promote"
    BY <2>1 DEF NextRole
  <2>2. CASE job.op # "promote"
    <3>1. NextRole(h, s) = Row(s).role
      BY <2>2, OpenedRows DEF NextRole, Row
    <3> QED
      BY <2>2, <3>1, LeaderLeads
  <2> QED
    BY <2>1, <2>2
<1>8. Leader' = lead
  <2>1. rows'[epoch'][lead].role = "LEADER"
    BY <1>2, <1>6, <1>7
  <2>2. \A s \in Serial \ {lead} : rows'[epoch'][s].role # "LEADER"
    BY <1>2, <1>7 DEF NoRow
  <2> HIDE DEF lead
  <2> QED
    BY <1>6, <2>1, <2>2, OneLeader DEF Leader, Row
<1>9. CASE job.op = "resume"
  <2>1. job.members = Control!Active /\ Leader' = Leader
    BY <1>1, <1>4, <1>8, <1>9 DEF Carries
  <2> QED
    BY <1>1, <1>5, <2>1 DEF Control!Resume, Control!OpenEpoch, Roster
<1>10. CASE job.op = "rejoin"
  <2>1. /\ job.target \in Serial /\ job.members = Control!Active \cup {job.target}
        /\ Row(job.target).membership = "QUARANTINED" /\ Leader' = Leader
    BY <1>1, <1>4, <1>8, <1>10 DEF Carries
  <2>2. Control!Rejoin(job.target)
    BY <1>1, <1>5, <2>1 DEF Control!Rejoin, Control!OpenEpoch, Roster
  <2> QED
    BY <2>1, <2>2
<1>11. CASE job.op = "promote"
  <2>1. /\ job.target \in Serial /\ job.members = Control!Active
        /\ Row(job.target).membership = "ACTIVE" /\ Leader' = job.target
        /\ job.target # Leader
    BY <1>1, <1>4, <1>8, <1>11, LeaderLeads DEF Carries
  <2>2. Control!Promote(job.target)
    BY <1>1, <1>5, <2>1 DEF Control!Promote, Control!OpenEpoch, Roster
  <2> QED
    BY <2>1, <2>2
<1> QED
  BY <1>1, <1>9, <1>10, <1>11 DEF Rebuilds

(* Whatever the handlers do to each other, the run seen through its row    *)
(* and its current membership moves only as RunControl allows.             *)
THEOREM ControlHolds == Spec => KeepsRunControl
<1>1. Init => Control!RunInit
  <2> SUFFICES ASSUME Init PROVE Control!RunInit
    OBVIOUS
  <2>1. IInv /\ epoch = 1 /\ runState = "CREATED"
    BY Initially DEF Init
  <2>2. Leader \in Serial
    BY <2>1, LeaderLeads
  <2>3. \A s \in Serial : Row(s).membership = "ACTIVE"
    BY <2>1 DEF IInv, FirstEpochIsWhole
  <2> QED
    BY <2>1, <2>2, <2>3 DEF Control!RunInit
<1>2. ASSUME IInv, [Next]_vars PROVE [Control!RunNext]_(Control!runVars)
  <2>1. CASE StateStep /\ UNCHANGED <<epoch, rows>>
    BY <2>1, StateStepMaps
  <2>2. ASSUME NEW h \in Slot, OpenEpoch(h) PROVE Control!RunNext
    BY <1>2, <2>2, OpenEpochMaps DEF Control!RunNext
  <2>3. ASSUME NEW s \in Serial, Quarantine(s) PROVE Control!RunNext
    BY <1>2, <2>3, QuarantineMaps DEF Control!RunNext
  <2> QED
    BY <1>2, <2>1, <2>2, <2>3, RunSteps
<1> QED
  BY <1>1, <1>2, Invariance, PTL DEF Spec, KeepsRunControl, Control!RunSpec
-----------------------------------------------------------------------------
(* One operator request at a time, workers that stop when told to, and a   *)
(* server that does not go down.                                           *)
Alone == (\E h : Slot = {h}) /\ ~ StopsFail /\ ~ Crashes

LEMMA AloneInitially ==
  ASSUME Init
  PROVE  AloneInv
<1>1. AtRest
  BY DEF Init, AtRest, Clean
<1> QED
  BY <1>1 DEF Init, AloneInv, AloneAt, Idle

\* With one handler it is enough to look at the one that took the step.
LEMMA AloneOne ==
  ASSUME Alone, NEW h \in Slot, AloneAt(jobs[h])'
  PROVE  AloneInv'
BY DEF Alone, AloneInv

\* Steps that touch no worker and neither start nor end the running state.
LEMMA RestStep ==
  ASSUME AloneInv, NEW h \in Slot, UNCHANGED <<epoch, rows, lease, entry, worker, holds>>,
         jobs[h].pc \in {"idle", "probe"}, jobs'[h].pc \in {"idle", "probe"},
         runState' = "RUNNING" <=> runState = "RUNNING"
  PROVE  AloneAt(jobs[h])'
BY DEF AloneInv, AloneAt, Serving, AtRest, HeldBy, OthersClean, Clean, Row

LEMMA RegisterAlone ==
  ASSUME IInv, AloneInv, NEW h \in Slot, NEW job \in Job,
         Register(h, job), jobs[h].pc \in {"idle", "probe"}
  PROVE  AloneAt(jobs[h])'
<1>1. runState # "RUNNING" /\ AtRest
  BY DEF AloneInv, AloneAt, Serving, Register
<1>2. PICK k \in Group :
        /\ entry' = k
        /\ worker' = [worker EXCEPT ![k] = [s \in Serial |-> "none"]]
        /\ holds' = [holds EXCEPT ![k] = [s \in Serial |-> 0]]
        /\ Become(h, [job EXCEPT !.pc = "starting", !.group = k])
  BY DEF Register
<1>3. UNCHANGED <<runState, lease>>
  BY DEF Register, durable
<1>4. jobs'[h].pc = "starting" /\ jobs'[h].group = k
  <2>1. jobs'[h] = [job EXCEPT !.pc = "starting", !.group = k]
    BY <1>2, OthersAsBefore DEF IInv
  <2> QED
    BY <2>1 DEF Job
<1>5. \A s \in Serial : worker'[k][s] = "none" /\ holds'[k][s] = 0
  BY <1>2 DEF IInv, TypeOK
<1>6. \A g \in Group \ {k} : worker'[g] = worker[g] /\ holds'[g] = holds[g]
  BY <1>2 DEF IInv, TypeOK
<1>7. ComingUp(jobs[h])'
  BY <1>1, <1>2, <1>3, <1>4, <1>5, <1>6, SessionLifecycleAssumption
  DEF ComingUp, HeldBy, OthersClean, Clean, AtRest, Starting, Group
<1> QED
  BY <1>1, <1>3, <1>4, <1>7 DEF AloneAt

\* Every worker of the group is told to stop, and none refuses.
LEMMA StopWorkersAlone ==
  ASSUME IInv, NEW h \in Slot, NEW job \in Job, NEW k \in Group, NEW states, NEW pc \in Pc,
         StopWorkers(h, job, k, states, pc),
         states \in [Serial -> {"none", "READY", "STOPPED", "ERROR"}],
         OthersClean(k), 
         \A s \in Serial : lease'[s] = holds'[k][s],
         \A g \in Group \ {k} : holds'[g] = holds[g],
         \A s \in Serial : holds'[k][s] # 0 => states[s] \in {"READY", "ERROR"}
  PROVE  /\ GoingDown(jobs[h])' /\ jobs'[h].group = k /\ jobs'[h].pc = pc
         /\ ~ jobs'[h].refused
         /\ jobs'[h].op = job.op /\ jobs'[h].state = job.state
<1> DEFINE refused == \E s \in Serial : states[s] \in Starting \cup {"STOPPING"}
<1>1. ~ refused
  BY DEF Starting
<1>2. jobs'[h] = [job EXCEPT !.pc = pc, !.group = k, !.waiting = Stoppable(states),
                             !.refused = refused]
  BY OthersAsBefore DEF IInv, StopWorkers
<1> HIDE DEF refused
<1>3. /\ jobs'[h].group = k /\ jobs'[h].pc = pc /\ ~ jobs'[h].refused
      /\ jobs'[h].waiting = Stoppable(states)
      /\ jobs'[h].op = job.op /\ jobs'[h].state = job.state
  BY <1>1, <1>2 DEF Job
<1>4. \A s \in Serial :
        worker'[k][s] = IF states[s] \in {"READY", "ERROR"} THEN "STOPPING" ELSE states[s]
  BY DEF StopWorkers, Stoppable, IInv, TypeOK
<1>5. \A g \in Group \ {k} : worker'[g] = worker[g]
  BY DEF StopWorkers, IInv, TypeOK
<1>6. k # 0
  BY SessionLifecycleAssumption DEF Group
<1>7. HeldBy(k)'
  BY <1>5 DEF HeldBy, OthersClean, Clean
<1>8. Stoppable(states) = {s \in Serial : worker'[k][s] = "STOPPING"}
  BY <1>4 DEF Stoppable
<1>9. \A s \in Serial :
        /\ worker'[k][s] \in {"none", "STOPPING", "STOPPED"}
        /\ holds'[k][s] # 0 => worker'[k][s] = "STOPPING"
  BY <1>4
<1> QED
  BY <1>3, <1>6, <1>7, <1>8, <1>9 DEF GoingDown, HeldBy, OthersClean, Clean

LEMMA StopEntryAlone ==
  ASSUME IInv, NEW h \in Slot, NEW job \in Job, NEW pc \in Pc, StopEntry(h, job, pc),
         UNCHANGED <<durable, holds>>,
         \/ AtRest /\ job.waiting = {} /\ ~ job.refused
         \/ Serving
         \/ \E up : IsUp(up)
  PROVE  /\ Stopping(jobs[h])' /\ jobs'[h].pc = pc
         /\ jobs'[h].op = job.op /\ jobs'[h].state = job.state
<1> USE SessionLifecycleAssumption
<1>1. CASE entry = 0
  <2>1. AtRest /\ job.waiting = {} /\ ~ job.refused
    BY <1>1 DEF Serving, IsUp, ComingUp
  <2>2. Become(h, [job EXCEPT !.pc = pc, !.group = 0]) /\ UNCHANGED <<entry, worker>>
    BY <1>1 DEF StopEntry
  <2>3. jobs'[h] = [job EXCEPT !.pc = pc, !.group = 0]
    BY <2>2, OthersAsBefore DEF IInv
  <2>4. /\ jobs'[h].pc = pc /\ jobs'[h].group = 0 /\ jobs'[h].waiting = {}
        /\ ~ jobs'[h].refused /\ jobs'[h].op = job.op /\ jobs'[h].state = job.state
    BY <2>1, <2>3 DEF Job
  <2>5. AtRest'
    BY <2>1, <2>2 DEF AtRest, Clean, durable
  <2> QED
    BY <1>1, <2>2, <2>4, <2>5 DEF Stopping
<1>2. CASE entry # 0
  <2>1. /\ entry \in Group /\ entry' = 0
        /\ StopWorkers(h, job, entry, worker[entry], pc)
    BY <1>2 DEF StopEntry, IInv, TypeOK, Group
  <2>2. HeldBy(entry)
    BY <1>2 DEF AtRest, Serving, IsUp, ComingUp
  <2>3. ASSUME NEW s \in Serial
        PROVE  /\ worker[entry][s] \in {"none", "READY"}
               /\ holds[entry][s] # 0 => worker[entry][s] = "READY"
    <3>1. CASE Serving
      BY <3>1 DEF Serving
    <3>2. CASE \E up : IsUp(up)
      BY <3>2 DEF IsUp, ComingUp, Starting
    <3> QED
      BY <1>2, <3>1, <3>2 DEF AtRest
  <2>4. worker[entry] \in [Serial -> {"none", "READY", "STOPPED", "ERROR"}]
    BY <2>1, <2>3 DEF IInv, TypeOK
  <2>5. /\ GoingDown(jobs[h])' /\ jobs'[h].group = entry /\ jobs'[h].pc = pc
        /\ ~ jobs'[h].refused /\ jobs'[h].op = job.op /\ jobs'[h].state = job.state
    <3>1. UNCHANGED <<lease, holds>>
      BY DEF durable
    <3> QED
      BY <2>1, <2>2, <2>3, <2>4, <3>1, StopWorkersAlone DEF HeldBy
  <2> QED
    BY <1>2, <2>1, <2>5 DEF Stopping, Group
<1> QED
  BY <1>1, <1>2

LEMMA BeginAlone ==
  ASSUME IInv, AloneInv, NEW h \in Slot, Begin(h)
  PROVE  AloneAt(jobs[h])'
<1>1. jobs[h].pc = "idle"
  <2>1. jobs[h] = Idle
    BY DEF Begin, BeginPreflight, BeginStart, BeginPause, BeginResume, BeginComplete,
           BeginRejoin, BeginPromote, Free
  <2> QED
    BY <2>1 DEF Idle
<1>2. Idle \in Job /\ "stopping" \in Pc /\ epoch \in Epoch /\ Active \in SUBSET Serial
  BY IdleIsAJob DEF Pc, IInv, TypeOK, Active
<1>3. IF runState = "RUNNING" THEN Serving ELSE AtRest
  BY <1>1 DEF AloneInv, AloneAt
<1>4. CASE BeginPreflight(h) \/ \E s \in Serial : BeginRejoin(h, s) \/ BeginPromote(h, s)
  <2>2. jobs'[h].pc = "probe"
    <3>1. CASE BeginPreflight(h)
      <4>1. jobs'[h] = [Idle EXCEPT !.op = "preflight", !.pc = "probe"]
        BY <3>1, OthersAsBefore DEF IInv, BeginPreflight
      <4> QED
        BY <4>1 DEF Idle
    <3>2. ASSUME NEW s \in Serial, BeginRejoin(h, s) PROVE jobs'[h].pc = "probe"
      <4>1. jobs'[h] = Rebuild("rejoin", Active \cup {s}, s)
        BY <3>2, OthersAsBefore DEF IInv, BeginRejoin
      <4> QED
        BY <4>1 DEF Rebuild, Idle
    <3>3. ASSUME NEW s \in Serial, BeginPromote(h, s) PROVE jobs'[h].pc = "probe"
      <4>1. jobs'[h] = Rebuild("promote", Active, s)
        BY <3>3, OthersAsBefore DEF IInv, BeginPromote
      <4> QED
        BY <4>1 DEF Rebuild, Idle
    <3> QED
      BY <1>4, <3>1, <3>2, <3>3
  <2>3. UNCHANGED <<durable, entry, worker, holds>>
    BY <1>4 DEF BeginPreflight, BeginRejoin, BeginPromote
  <2> QED
    BY <1>1, <2>2, <2>3, RestStep DEF durable
<1>5. CASE BeginStart(h)
  <2>1. [Idle EXCEPT !.op = "start", !.epoch = epoch, !.members = Active] \in Job
    BY <1>2 DEF Job, Op
  <2> QED
    BY <1>1, <1>5, <2>1, RegisterAlone DEF BeginStart
<1>6. CASE BeginResume(h)
  <2>1. Rebuild("resume", Active, "none") \in Job
    BY <1>2 DEF Job, Op, Pc, Rebuild
  <2> QED
    BY <1>1, <1>6, <2>1, RegisterAlone DEF BeginResume
<1>7. CASE BeginPause(h)
  <2> DEFINE job == [Idle EXCEPT !.op = "pause"]
  <2>1. job \in Job /\ job.op = "pause"
    BY <1>2 DEF Job, Op
  <2>2. StopEntry(h, job, "stopping") /\ UNCHANGED <<durable, holds>> /\ Serving
    BY <1>3, <1>7 DEF BeginPause
  <2>3. /\ Stopping(jobs[h])' /\ jobs'[h].pc = "stopping" /\ jobs'[h].op = "pause"
    BY <1>2, <2>1, <2>2, StopEntryAlone
  <2> QED
    BY <1>7, <2>2, <2>3 DEF AloneAt, BeginPause, durable
<1>8. CASE BeginComplete(h)
  <2> DEFINE job == [Idle EXCEPT !.op = "complete", !.state = runState]
  <2>1. /\ job \in Job /\ job.op = "complete" /\ job.state = runState
        /\ job.waiting = {} /\ ~ job.refused
    BY <1>2, <1>8 DEF Job, Op, BeginComplete, Idle
  <2>2. StopEntry(h, job, "stopping") /\ UNCHANGED <<durable, holds>>
    BY <1>8 DEF BeginComplete
  <2>3. /\ Stopping(jobs[h])' /\ jobs'[h].pc = "stopping" /\ jobs'[h].op = "complete"
        /\ jobs'[h].state = runState
    BY <1>2, <1>3, <2>1, <2>2, StopEntryAlone
  <2> QED
    BY <2>2, <2>3 DEF AloneAt, durable
<1> QED
  BY <1>4, <1>5, <1>6, <1>7, <1>8 DEF Begin

\* Nobody else moves the run while a group is coming up.
LEMMA GroupStepAlone ==
  ASSUME IInv, AloneInv, NEW h \in Slot, NEW s \in Serial,
         StartWorker(h, s) \/ Allocate(h, s) \/ WorkerReady(h, s)
  PROVE  AloneAt(jobs[h])'
<1> DEFINE k == jobs[h].group
<1> USE SessionLifecycleAssumption
<1>1. jobs[h].pc = "starting" /\ ComingUp(jobs[h]) /\ runState # "RUNNING"
  BY DEF AloneInv, AloneAt, StartWorker, Allocate, WorkerReady
<1>2. k = entry /\ entry \in Group /\ HeldBy(entry)
  BY <1>1 DEF ComingUp, IInv, TypeOK, Group
<1>3. UNCHANGED <<runState, entry, jobs>>
  BY DEF StartWorker, Allocate, WorkerReady, durable
<1>4. PICK up \in {"STARTING", "BOOTING", "READY"} : worker' = [worker EXCEPT ![k][s] = up]
  BY Zenon DEF StartWorker, Allocate, WorkerReady
<1>5. /\ \A t \in Serial : worker'[k][t] = IF t = s THEN up ELSE worker[k][t]
      /\ \A g \in Group \ {k} : worker'[g] = worker[g]
  BY <1>2, <1>4 DEF IInv, TypeOK
<1>6. /\ \A t \in Serial : lease'[t] = holds'[k][t]
      /\ \A g \in Group \ {k} : holds'[g] = holds[g]
      /\ \A t \in Serial \ {s} : holds'[k][t] = holds[k][t]
  <2>1. CASE Allocate(h, s)
    BY <1>2, <2>1 DEF Allocate, HeldBy, IInv, TypeOK
  <2>2. CASE StartWorker(h, s) \/ WorkerReady(h, s)
    BY <1>2, <2>2 DEF StartWorker, WorkerReady, HeldBy, durable
  <2> QED
    BY <2>1, <2>2
<1>7. /\ s \in jobs[h].members
      /\ holds'[k][s] # 0 => up \in {"BOOTING", "READY"}
      /\ \A t \in Serial \ {s} : up \in Starting => worker[k][t] \notin Starting
  <2>1. CASE StartWorker(h, s)
    <3>1. /\ s \in jobs[h].members /\ worker[k][s] = "none"
          /\ \A t \in Serial : worker[k][t] \notin Starting
          /\ UNCHANGED holds
      BY <2>1 DEF StartWorker
    <3>2. holds[k][s] = 0
      BY <1>1, <1>2, <3>1 DEF ComingUp, Starting
    <3> QED
      BY <3>1, <3>2
  <2>2. CASE Allocate(h, s) \/ WorkerReady(h, s)
    <3>1. worker[k][s] \in Starting
      BY <2>2 DEF Allocate, WorkerReady, Starting
    <3>2. worker'[k][s] \in {"BOOTING", "READY"}
      BY <1>2, <2>2 DEF Allocate, WorkerReady, IInv, TypeOK
    <3> QED
      BY <1>1, <1>2, <1>5, <3>1, <3>2 DEF ComingUp, Starting
  <2> QED
    BY <2>1, <2>2
<1>8. HeldBy(entry)'
  BY <1>2, <1>3, <1>5, <1>6 DEF HeldBy, OthersClean, Clean
<1>9. ComingUp(jobs[h])'
  <2>1. entry' # 0 /\ jobs'[h].group = entry' /\ HeldBy(entry)'
    BY <1>2, <1>3, <1>8 DEF Group
  <2>2. ASSUME NEW t \in Serial
        PROVE  /\ worker'[k][t] \in {"none", "READY"} \cup Starting
               /\ t \notin jobs[h].members => worker'[k][t] = "none"
               /\ holds'[k][t] # 0 => worker'[k][t] \in {"BOOTING", "READY"}
    BY <1>1, <1>2, <1>4, <1>5, <1>6, <1>7 DEF ComingUp, Starting
  <2>3. ASSUME NEW t \in Serial, NEW u \in Serial,
               worker'[k][t] \in Starting, worker'[k][u] \in Starting
        PROVE  t = u
    BY <1>1, <1>2, <1>5, <1>7, <2>3 DEF ComingUp
  <2> QED
    BY <1>2, <1>3, <2>1, <2>2, <2>3 DEF ComingUp
<1> QED
  BY <1>1, <1>3, <1>9 DEF AloneAt

LEMMA StartFailsAlone ==
  ASSUME IInv, Alone, AloneInv, NEW h \in Slot, NEW s \in Serial, StartFails(h, s)
  PROVE  AloneAt(jobs[h])'
<1> DEFINE k == jobs[h].group
           states == [worker[k] EXCEPT ![s] = "ERROR"]
<1> USE SessionLifecycleAssumption
<1>1. jobs[h].pc = "starting" /\ ComingUp(jobs[h]) /\ runState # "RUNNING"
  BY DEF AloneInv, AloneAt, StartFails
<1>2. /\ k = entry /\ entry \in Group /\ HeldBy(entry) /\ worker[k] \in [Serial -> WorkerState]
      /\ jobs[h] \in Job /\ "unwinding" \in Pc
  BY <1>1 DEF ComingUp, IInv, TypeOK, Group, Job, Pc
<1>3. /\ UNCHANGED <<runState, entry>> /\ worker[k][s] \in Starting
      /\ Release(k, s) /\ StopWorkers(h, jobs[h], k, states, "unwinding")
  BY DEF StartFails
<1>4. \A t \in Serial \ {s} : worker[k][t] \in {"none", "READY"}
  BY <1>1, <1>2, <1>3 DEF ComingUp
<1>5. states \in [Serial -> {"none", "READY", "STOPPED", "ERROR"}]
  BY <1>2, <1>4
<1>6. /\ \A t \in Serial : lease'[t] = holds'[k][t]
      /\ \A g \in Group \ {k} : holds'[g] = holds[g]
      /\ holds'[k][s] = 0 /\ \A t \in Serial \ {s} : holds'[k][t] = holds[k][t]
  <2>1. /\ holds' = [holds EXCEPT ![k][s] = 0]
        /\ lease' = [lease EXCEPT ![s] =
                       IF holds[k][s] # 0 /\ lease[s] = holds[k][s] THEN 0 ELSE lease[s]]
    BY <1>3 DEF Release, Alone
  <2> QED
    BY <1>2, <2>1 DEF HeldBy, IInv, TypeOK
<1>7. \A t \in Serial : holds'[k][t] # 0 => states[t] \in {"READY", "ERROR"}
  BY <1>1, <1>2, <1>4, <1>6 DEF ComingUp
<1>8. OthersClean(k)
  BY <1>2 DEF HeldBy
<1> HIDE DEF states
<1>9. /\ GoingDown(jobs[h])' /\ jobs'[h].group = k /\ jobs'[h].pc = "unwinding"
      /\ ~ jobs'[h].refused
  BY <1>2, <1>3, <1>5, <1>6, <1>7, <1>8, StopWorkersAlone
<1> QED
  BY <1>1, <1>2, <1>3, <1>9 DEF AloneAt

\* The last worker of the group has stopped.
LEMMA GoneDown ==
  ASSUME IInv, NEW job, GoingDown(job), job.waiting = {}
  PROVE  \A k \in Group : Clean(k) /\ \A s \in Serial : lease[s] = 0
BY DEF GoingDown, HeldBy, OthersClean, Clean

LEMMA ReturnsIdle ==
  ASSUME IInv, NEW h \in Slot, Return(h)
  PROVE  jobs'[h].pc = "idle"
<1>1. jobs'[h] = Idle
  BY OthersAsBefore DEF IInv, Return
<1> QED
  BY <1>1 DEF Idle

\* A handler whose group has stopped leaves everything at rest.
LEMMA StoppedAlone ==
  ASSUME IInv, NEW h \in Slot, Return(h), UNCHANGED <<worker, holds, lease>>,
         entry' = 0, runState' # "RUNNING", jobs[h].waiting = {},
         AtRest \/ GoingDown(jobs[h])
  PROVE  AloneAt(jobs[h])'
<1>1. \A k \in Group : Clean(k) /\ \A s \in Serial : lease[s] = 0
  BY GoneDown DEF AtRest
<1>2. AtRest'
  BY <1>1 DEF AtRest, Clean
<1> QED
  BY <1>2, ReturnsIdle DEF AloneAt

\* A run that is started or goes on is served by the group that came up.
LEMMA ServedAlone ==
  ASSUME IInv, NEW h \in Slot, IsUp(jobs[h]), Return(h),
         UNCHANGED <<entry, worker, holds, lease>>, runState' = "RUNNING",
         \A s \in Serial : Row(s)' = NoRow <=> s \notin jobs[h].members
  PROVE  AloneAt(jobs[h])'
<1>1. Serving'
  BY DEF IsUp, ComingUp, Serving, HeldBy, OthersClean, Clean
<1> QED
  BY <1>1, ReturnsIdle DEF AloneAt

\* The workers of a running run and the members of its epoch are the same.
LEMMA CommitStartAlone ==
  ASSUME IInv, AloneInv, NEW h \in Slot, CommitStart(h)
  PROVE  AloneAt(jobs[h])'
<1>1. IsUp(jobs[h]) /\ jobs[h].members = Serial
  BY DEF AloneInv, AloneAt, CommitStart, At, IInv, Remembers
<1>2. \A s \in Serial : Row(s)' # NoRow
  BY DEF CommitStart, IInv, FirstEpochIsWhole, Row, NoRow
<1> QED
  BY <1>1, <1>2, ServedAlone DEF CommitStart

LEMMA OpenEpochAlone ==
  ASSUME IInv, AloneInv, NEW h \in Slot, OpenEpoch(h)
  PROVE  AloneAt(jobs[h])'
<1>1. IsUp(jobs[h])
  BY DEF AloneInv, AloneAt, OpenEpoch, At
<1>2. rows'[epoch'] = [s \in Serial |->
        IF s \notin jobs[h].members THEN NoRow
        ELSE [role |-> NextRole(h, s), membership |-> "ACTIVE",
              generation |-> Generation(h, s)]]
  BY OpenedRows
<1>3. \A s \in Serial : Row(s)' = NoRow <=> s \notin jobs[h].members
  BY <1>2 DEF Row, NoRow
<1> QED
  BY <1>1, <1>3, ServedAlone DEF OpenEpoch

LEMMA ContinueAlone ==
  ASSUME IInv, Alone, AloneInv, NEW h \in Slot, Continue(h)
  PROVE  AloneAt(jobs[h])'
<1>0. AloneAt(jobs[h]) /\ jobs[h] \in Job
  BY DEF AloneInv, IInv, TypeOK, Job
<1>1. CASE ProbeFails(h) \/ CommitPreflight(h)
  <2>1. /\ jobs[h].pc = "probe" /\ Return(h)
        /\ UNCHANGED <<epoch, rows, lease, entry, worker, holds>>
        /\ runState' = "RUNNING" <=> runState = "RUNNING"
    BY <1>1 DEF ProbeFails, CommitPreflight, At, durable
  <2> QED
    BY <2>1, ReturnsIdle, RestStep
<1>2. CASE Probed(h)
  <2>1. CASE entry = 0
    BY <1>0, <1>2, <2>1, RegisterAlone DEF Probed, At
  <2>2. CASE entry # 0
    <3>1. /\ jobs[h].pc = "probe" /\ Return(h) /\ UNCHANGED <<durable, entry, worker, holds>>
      BY <1>2, <2>2 DEF Probed, At
    <3> QED
      BY <3>1, ReturnsIdle, RestStep DEF durable
  <2> QED
    BY <2>1, <2>2
<1>3. CASE Unwound(h)
  BY <1>0, <1>3, StoppedAlone DEF Unwound, Stopped, AloneAt, durable
<1>4. CASE GroupStarted(h)
  <2>1. jobs'[h] = [jobs[h] EXCEPT !.pc = "video"]
    BY <1>4, OthersAsBefore DEF IInv, GroupStarted
  <2>2. /\ jobs'[h].pc = "video" /\ jobs'[h].group = jobs[h].group
        /\ jobs'[h].members = jobs[h].members
    BY <1>0, <2>1 DEF Job
  <2>3. ComingUp(jobs[h]) /\ runState # "RUNNING" /\ jobs[h].group = entry
    BY <1>0, <1>4 DEF AloneAt, GroupStarted, ComingUp
  <2>4. jobs[h].members \in SUBSET Serial
    BY <1>0 DEF Job
  <2>5. \A s \in jobs[h].members : worker[entry][s] = "READY"
    BY <1>4, <2>3, <2>4 DEF GroupStarted, AllStarted, ComingUp
  <2>6. UNCHANGED <<runState, lease, entry, worker, holds>>
    BY <1>4 DEF GroupStarted, durable
  <2>7. IsUp(jobs[h])'
    BY <2>2, <2>3, <2>5, <2>6 DEF IsUp, ComingUp, HeldBy, OthersClean, Clean
  <2> QED
    BY <2>2, <2>3, <2>6, <2>7 DEF AloneAt
<1>5. CASE CommitStart(h) \/ OpenEpoch(h)
  BY <1>5, CommitStartAlone, OpenEpochAlone
<1>6. CASE CommitFails(h)
  <2>1. jobs'[h] = [jobs[h] EXCEPT !.pc = "undo"]
    BY <1>6, OthersAsBefore DEF IInv, CommitFails
  <2>2. /\ jobs'[h].pc = "undo" /\ jobs'[h].group = jobs[h].group
        /\ jobs'[h].members = jobs[h].members
    BY <1>0, <2>1 DEF Job
  <2>3. IsUp(jobs[h]) /\ runState # "RUNNING"
    BY <1>0, <1>6 DEF AloneAt, CommitFails
  <2>4. UNCHANGED <<runState, lease, entry, worker, holds>>
    BY <1>6 DEF CommitFails, durable
  <2>5. IsUp(jobs[h])'
    BY <2>2, <2>3, <2>4 DEF IsUp, ComingUp, HeldBy, OthersClean, Clean
  <2> QED
    BY <2>2, <2>3, <2>4, <2>5 DEF AloneAt
<1>7. CASE Undo(h)
  <2>1. /\ IsUp(jobs[h]) /\ runState # "RUNNING" /\ "undone" \in Pc
        /\ StopEntry(h, jobs[h], "undone") /\ UNCHANGED <<durable, holds>>
    BY <1>0, <1>7 DEF AloneAt, Undo, Pc
  <2>2. Stopping(jobs[h])' /\ jobs'[h].pc = "undone"
    BY <1>0, <2>1, StopEntryAlone
  <2> QED
    BY <2>1, <2>2 DEF AloneAt, durable
<1>8. CASE Undone(h)
  BY <1>0, <1>8, StoppedAlone DEF Undone, Stopped, AloneAt, Stopping, durable
<1>9. CASE StopRejected(h)
  BY <1>0, <1>9 DEF StopRejected, Stopped, AloneAt, Stopping
<1>10. CASE CommitPause(h)
  BY <1>0, <1>10, StoppedAlone DEF CommitPause, Stopped, AloneAt, Stopping
<1>11. CASE CommitComplete(h)
  BY <1>0, <1>11, StoppedAlone DEF CommitComplete, Stopped, AloneAt, Stopping
<1>12. ASSUME NEW s \in Serial,
              StartWorker(h, s) \/ Allocate(h, s) \/ WorkerReady(h, s) \/ StartFails(h, s)
       PROVE  AloneAt(jobs[h])'
  BY <1>12, GroupStepAlone, StartFailsAlone
<1> QED
  BY <1>1, <1>2, <1>3, <1>4, <1>5, <1>6, <1>7, <1>8, <1>9, <1>10, <1>11, <1>12
  DEF Continue

LEMMA StopEndsAlone ==
  ASSUME IInv, Alone, AloneInv, NEW k \in Group, NEW s \in Serial, StopEnds(k, s),
         NEW h \in Slot
  PROVE  AloneAt(jobs[h])'
<1>1. worker[k][s] = "STOPPING" /\ UNCHANGED <<runState, epoch, rows, entry>>
  BY DEF StopEnds
<1>2. AloneAt(jobs[h]) /\ jobs[h] \in Job
  BY DEF AloneInv, IInv, TypeOK, Job
<1>3. /\ jobs[h].group = k /\ GoingDown(jobs[h])
      /\ jobs[h].pc \in {"unwinding", "undone", "stopping"}
  <2>1. ~ AtRest
    BY <1>1 DEF AtRest, Clean
  <2>2. ~ Serving
    BY <1>1 DEF Serving, HeldBy, OthersClean, Clean
  <2>3. ~ ComingUp(jobs[h])
    BY <1>1 DEF ComingUp, HeldBy, OthersClean, Clean, Starting
  <2>4. GoingDown(jobs[h]) => jobs[h].group = k
    BY <1>1 DEF GoingDown, HeldBy, OthersClean, Clean
  <2> QED
    BY <1>2, <2>1, <2>2, <2>3, <2>4 DEF AloneAt, IsUp, Stopping, Job, Pc
<1>4. /\ worker' = [worker EXCEPT ![k][s] = "STOPPED"]
      /\ jobs'[h] = IF jobs[h].group = k /\ s \in jobs[h].waiting
                    THEN [jobs[h] EXCEPT !.waiting = jobs[h].waiting \ {s},
                                         !.refused = jobs[h].refused \/ FALSE]
                    ELSE jobs[h]
      /\ holds' = [holds EXCEPT ![k][s] = 0]
      /\ lease' = [lease EXCEPT ![s] =
                     IF holds[k][s] # 0 /\ lease[s] = holds[k][s] THEN 0 ELSE lease[s]]
  BY DEF StopEnds, Release, Alone
<1>5. s \in jobs[h].waiting
  BY <1>1, <1>3 DEF GoingDown
<1>6. /\ jobs'[h].waiting = jobs[h].waiting \ {s} /\ jobs'[h].refused = jobs[h].refused
      /\ jobs'[h].group = k /\ jobs'[h].pc = jobs[h].pc
      /\ jobs'[h].op = jobs[h].op /\ jobs'[h].state = jobs[h].state
  BY <1>2, <1>3, <1>4, <1>5 DEF Job
<1>7. /\ \A t \in Serial : worker'[k][t] = IF t = s THEN "STOPPED" ELSE worker[k][t]
      /\ \A t \in Serial : holds'[k][t] = IF t = s THEN 0 ELSE holds[k][t]
      /\ \A g \in Group \ {k} : worker'[g] = worker[g] /\ holds'[g] = holds[g]
  BY <1>4 DEF IInv, TypeOK
<1>8. \A t \in Serial : lease'[t] = holds'[k][t]
  BY <1>3, <1>4, <1>7 DEF GoingDown, HeldBy, IInv, TypeOK
<1>9. GoingDown(jobs[h])'
  BY <1>3, <1>6, <1>7, <1>8 DEF GoingDown, HeldBy, OthersClean, Clean
<1>10. jobs[h].group # 0
  BY <1>3 DEF GoingDown
<1> QED
  BY <1>1, <1>2, <1>3, <1>6, <1>9, <1>10 DEF AloneAt, Stopping

LEMMA QuarantineAlone ==
  ASSUME IInv, AloneInv, NEW s \in Serial, Quarantine(s), NEW h \in Slot
  PROVE  AloneAt(jobs[h])'
<1>1. /\ AloneAt(jobs[h]) /\ runState = "RUNNING"
      /\ UNCHANGED <<runState, epoch, lease, entry, worker, holds, jobs>>
  BY DEF AloneInv, Quarantine
<1>2. \A t \in Serial : Row(t)' = NoRow <=> Row(t) = NoRow
  <2>1. rows' = [rows EXCEPT ![epoch] = [rows[epoch] EXCEPT ![s] =
                  [rows[epoch][s] EXCEPT !.membership = "QUARANTINED"]]]
    BY DEF Quarantine
  <2>2. /\ rows \in [Epoch -> [Serial -> DeviceRow]] /\ epoch \in Epoch
        /\ rows[epoch][s] \in DeviceRow /\ rows[epoch][s].role = "FOLLOWER"
    BY DEF IInv, TypeOK, DeviceRow, Quarantine, Row
  <2>3. rows'[epoch][s] # NoRow /\ rows[epoch][s] # NoRow
    <3>1. rows'[epoch][s] = [rows[epoch][s] EXCEPT !.membership = "QUARANTINED"]
      BY <2>1, <2>2
    <3> QED
      BY <2>2, <3>1 DEF NoRow, DeviceRow
  <2>4. \A t \in Serial \ {s} : rows'[epoch][t] = rows[epoch][t]
    BY <2>1, <2>2
  <2> QED
    BY <1>1, <2>3, <2>4 DEF Row
<1>3. Serving => Serving'
  BY <1>1, <1>2 DEF Serving, HeldBy, OthersClean, Clean
<1> QED
  BY <1>1, <1>3 DEF AloneAt, Stopping, AtRest, GoingDown, HeldBy, OthersClean, Clean

LEMMA AloneKept ==
  ASSUME IInv, Alone, AloneInv, [Next]_vars
  PROVE  AloneInv'
<1>1. CASE UNCHANGED vars
  BY <1>1 DEF vars, durable, AloneInv, AloneAt, Serving, AtRest, IsUp, ComingUp, Stopping,
              GoingDown, HeldBy, OthersClean, Clean, Row
<1>2. ASSUME NEW h \in Slot, Begin(h) \/ Continue(h) PROVE AloneInv'
  BY <1>2, BeginAlone, ContinueAlone, AloneOne
<1>3. ASSUME NEW k \in Group, NEW s \in Serial, StopEnds(k, s) PROVE AloneInv'
  BY <1>3, StopEndsAlone DEF AloneInv
<1>4. ASSUME NEW s \in Serial, Quarantine(s) PROVE AloneInv'
  BY <1>4, QuarantineAlone DEF AloneInv
<1>5. ~ Relaunch
  BY DEF Alone, Relaunch
<1> QED
  BY <1>1, <1>2, <1>3, <1>4, <1>5 DEF Next

THEOREM AloneInvariance ==
  ASSUME Alone
  PROVE  Spec => []AloneInv
<1>1. ASSUME Init PROVE AloneInv
  BY <1>1, AloneInitially
<1>2. ASSUME IInv, AloneInv, [Next]_vars PROVE AloneInv'
  BY <1>2, AloneKept
<1> QED
  BY <1>1, <1>2, Invariance, PTL DEF Spec

(* With one handler at a time the rows of the run and its workers agree    *)
(* whenever none is under way: whatever failed on the way, a run that is   *)
(* not running holds no device, and a running one is served.               *)
THEOREM AgreementHolds ==
  ASSUME Alone
  PROVE  Spec => []RowsAndWorkersAgree
<1>1. ASSUME IInv, AloneInv PROVE RowsAndWorkersAgree
  <2>1. PICK h \in Slot : Slot = {h}
    BY DEF Alone
  <2>2. ASSUME Quiet PROVE IF runState = "RUNNING" THEN Serving ELSE AtRest
    BY <1>1, <2>1, <2>2 DEF Quiet, AloneInv, AloneAt, Idle
  <2>3. QuietRunHoldsNothing
    BY <2>2, SessionLifecycleAssumption DEF QuietRunHoldsNothing, AtRest, Group
  <2>4. RunningRunIsServed
    <3>1. \A s \in Active : s \in Serial /\ Row(s) # NoRow
      BY DEF Active, NoRow
    <3> QED
      BY <2>2, <3>1 DEF RunningRunIsServed, Serving
  <2> QED
    BY <1>1, <2>3, <2>4 DEF RowsAndWorkersAgree, IInv
<1> QED
  BY <1>1, AloneInvariance, Invariance, PTL

(* With one handler at a time an epoch opens only when the worker of every *)
(* member is up and registered.                                            *)
THEOREM EpochsOpenServed ==
  ASSUME Alone
  PROVE  Spec => EpochOpensWithWorkers
<1> DEFINE Opened ==
      epoch' # epoch =>
        \A s \in Serial : Row(s)'.membership = "ACTIVE" =>
          entry # 0 /\ worker[entry][s] = "READY"
<1>1. ASSUME IInv, AloneInv, [Next]_vars PROVE Opened
  <2>1. ASSUME NEW h \in Slot, OpenEpoch(h) PROVE Opened
    <3>1. IsUp(jobs[h])
      BY <1>1, <2>1 DEF AloneInv, AloneAt, OpenEpoch, At
    <3>2. rows'[epoch'] = [s \in Serial |->
            IF s \notin jobs[h].members THEN NoRow
            ELSE [role |-> NextRole(h, s), membership |-> "ACTIVE",
                  generation |-> Generation(h, s)]]
      BY <1>1, <2>1, OpenedRows
    <3>3. \A s \in Serial : Row(s)'.membership = "ACTIVE" => s \in jobs[h].members
      BY <3>2 DEF Row, NoRow
    <3> QED
      BY <3>1, <3>3 DEF IsUp, ComingUp
  <2> QED
    BY <1>1, <2>1, RunSteps DEF Quarantine
<1> QED
  BY <1>1, AloneInvariance, Invariance, PTL DEF Spec, EpochOpensWithWorkers
=============================================================================
